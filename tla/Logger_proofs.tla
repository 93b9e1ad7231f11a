---------------------------- MODULE Logger_proofs ----------------------------
(***************************************************************************)
(* Proofs about the logger, for every number and size of nodes, every set  *)
(* of statements and every size at which files roll over: first the ring   *)
(* by itself (Spec of LogRing), then the files, then the whole logger with *)
(* its ends, crashes and restarts (LoggerSpec).                            *)
(***************************************************************************)
EXTENDS Logger, SequenceTheorems, TLAPS

\* The node after a node is a node.
LEMMA NextIsNode == \A n \in Nodes : NextNode(n) \in Nodes
BY RingAssumption DEF Nodes, NextNode

\* The invariant holds of a fresh logger.
LEMMA RingInitInv == Init => RingInv
<1> SUFFICES ASSUME Init PROVE RingInv
  OBVIOUS
<1>1. 0 \in Nodes
  BY RingAssumption DEF Nodes
<1>2. QED
  BY <1>1 DEF Init, RingInv, TypeOK, ChosenIsFull

\* A call of log() leaves every full node alone.
LEMMA LogKeepsFull ==
  ASSUME RingInv, NEW len \in Sizes, Log(len)
  PROVE  /\ RingInv'
         /\ \A n \in Nodes : status[n] = "full" => content'[n] = content[n]
<1> USE NextIsNode, RingAssumption DEF RingInv, TypeOK, ChosenIsFull
<1>1. CASE status[producer] = "full"
  BY <1>1 DEF Log, Drop
<1>2. CASE status[producer] = "free" /\ LogFits(len)
  <2>1. /\ accepted' \in Nat /\ dropped' \in Nat /\ accepted' = accepted + 1
        /\ content' = [content EXCEPT ![producer] = Append(@, accepted + 1)]
        /\ used' = [used EXCEPT ![producer] = @ + len] /\ len \in Nat
    BY <1>2 DEF LogFits, Accept
  <2>2. content' \in [Nodes -> Seq(Nat)] /\ used' \in [Nodes -> Nat]
    BY <2>1
  <2>3. UNCHANGED <<status, producer, run, consumer, ready, at, handed, console>>
    BY <1>2 DEF LogFits, Log
  <2>4. QED
    BY <1>2, <2>1, <2>2, <2>3
<1>3. CASE status[producer] = "free" /\ LogNext(len)
  <2>1. /\ producer' = NextNode(producer) /\ producer' \in Nodes
        /\ status' = [status EXCEPT ![producer] = "full"]
        /\ UNCHANGED <<run, consumer, ready, at, handed, console>>
    BY <1>3 DEF LogNext, Log
  <2>2. CASE Drop
    BY <1>3, <2>1, <2>2 DEF Drop
  <2>3. CASE status'[producer'] # "full" /\ Accept(producer', len)
    <3>1. /\ accepted' \in Nat /\ dropped' \in Nat /\ len \in Nat
          /\ content' = [content EXCEPT ![producer'] = Append(@, accepted + 1)]
          /\ used' = [used EXCEPT ![producer'] = @ + len]
      BY <2>3 DEF Accept
    <3>2. content' \in [Nodes -> Seq(Nat)] /\ used' \in [Nodes -> Nat]
      BY <2>1, <3>1
    <3>3. \A n \in Nodes : status[n] = "full" => n # producer'
      BY <1>3, <2>1, <2>3
    <3>4. QED
      BY <2>1, <3>1, <3>2, <3>3
  <2>4. QED
    BY <1>3, <2>2, <2>3 DEF LogNext
<1>4. QED
  BY <1>1, <1>2, <1>3 DEF Log

\* Every step of log(), stop() and the dump thread preserves it.
LEMMA RingStepInv == RingInv /\ [Next]_vars => RingInv'
<1> SUFFICES ASSUME RingInv, [Next]_vars PROVE RingInv'
  OBVIOUS
<1> USE NextIsNode DEF RingInv, TypeOK, ChosenIsFull, nodeVars
<1>1. CASE SetFilename
  BY <1>1 DEF SetFilename
<1>2. CASE StopAsked
  BY <1>2 DEF StopAsked
<1>3. CASE StopJoined
  BY <1>3 DEF StopJoined
<1>4. ASSUME NEW len \in Sizes, Log(len) PROVE RingInv'
  BY <1>4, LogKeepsFull
<1>5. CASE Check
  BY <1>5 DEF Check
<1>6. CASE Look
  BY <1>6 DEF Look
<1>7. CASE Take
  BY <1>7 DEF Take
<1>8. CASE Write
  <2>1. handed' \in Seq(Nat)
    BY <1>8 DEF Write
  <2>2. QED
    BY <1>8, <2>1 DEF Write
<1>9. CASE PrintOut
  <2>1. console' \in Seq(Nat)
    BY <1>9 DEF PrintOut
  <2>2. QED
    BY <1>9, <2>1 DEF PrintOut
<1>10. CASE Release
  <2>1. producer' \in Nodes /\ consumer' \in Nodes
    BY <1>10 DEF Release, ProducerMoves
  <2>2. content' \in [Nodes -> Seq(Nat)] /\ used' \in [Nodes -> Nat]
    BY <1>10 DEF Release
  <2>3. QED
    BY <1>10, <2>1, <2>2 DEF Release
<1>11. CASE UNCHANGED vars
  BY <1>11 DEF vars
<1>12. QED
  BY <1>1, <1>2, <1>3, <1>4, <1>5, <1>6, <1>7, <1>8, <1>9, <1>10, <1>11 DEF Next, Dump

\* The invariant, at every instant.
LEMMA RingInvariant == Spec => []RingInv
<1>1. QED
  BY RingInitInv, RingStepInv, PTL DEF Spec

\* The state of the logger is always well-formed; the two node pointers
\* always point into the ring.
THEOREM RingTyped == Spec => []TypeOK
<1>1. RingInv => TypeOK
  BY DEF RingInv
<1>2. QED
  BY <1>1, RingInvariant, PTL

\* No call of log() touches the node that is being written without the
\* mutex, whatever the ring's size and however far the producer has come.
LEMMA WrittenStays ==
  RingInv /\ [Next]_vars
    => [(at \in {"write", "print"}) => content'[consumer] = content[consumer]]_vars
<1> SUFFICES ASSUME RingInv, Next, at \in {"write", "print"}
             PROVE  content'[consumer] = content[consumer]
  BY DEF vars
<1>1. status[consumer] = "full" /\ consumer \in Nodes
  BY DEF RingInv, ChosenIsFull, TypeOK
<1>2. ASSUME NEW len \in Sizes, Log(len) PROVE content'[consumer] = content[consumer]
  BY <1>1, <1>2, LogKeepsFull
<1>3. CASE SetFilename \/ StopAsked \/ StopJoined \/ Dump
  BY <1>3 DEF SetFilename, StopAsked, StopJoined, Dump, Check, Look, Take, Write,
     PrintOut, Release, nodeVars
<1>4. QED
  BY <1>2, <1>3 DEF Next

\* The ring alone does so.
THEOREM RingUndisturbed == Spec => WrittenUndisturbed
<1>1. QED
  BY WrittenStays, RingInvariant, PTL DEF Spec, WrittenUndisturbed
-----------------------------------------------------------------------------
(* The order of the lines.                                                 *)

\* The node after a node, without the remainder.
LEMMA NextIs ==
  ASSUME NEW n \in Nodes
  PROVE  NextNode(n) = IF n + 1 = NodeCnt THEN 0 ELSE n + 1
<1>1. NodeCnt \in Nat \ {0} /\ n \in Nat /\ n < NodeCnt
  BY RingAssumption DEF Nodes
<1>2. CASE n + 1 = NodeCnt
  BY <1>1, <1>2 DEF NextNode
<1>3. CASE n + 1 < NodeCnt
  BY <1>1, <1>3 DEF NextNode
<1>4. QED
  BY <1>1, <1>2, <1>3

\* Dist numbers the nodes from the consumer's on, in the order of the ring.
LEMMA DistOf ==
  ASSUME consumer \in Nodes, NEW n \in Nodes
  PROVE  /\ Dist(n) \in 0 .. NodeCnt - 1
         /\ Dist(n) = 0 <=> n = consumer
         /\ NextNode(n) = consumer <=> Dist(n) = NodeCnt - 1
         /\ NextNode(n) # consumer => Dist(NextNode(n)) = Dist(n) + 1
         /\ \A m \in Nodes : Dist(m) = Dist(n) => m = n
BY NextIs, RingAssumption DEF Nodes, Dist

\* While a node is being filled, no node behind it in the row holds a line.
LEMMA HoldingNodes ==
  ASSUME RingInv, RowInv, status[producer] = "free",
         NEW n \in Nodes, content[n] # <<>>
  PROVE  Dist(n) <= Dist(producer)
<1>1. producer \in Nodes /\ consumer \in Nodes /\ status \in [Nodes -> {"free", "full"}]
  BY DEF RingInv, TypeOK
<1>2. Dist(producer) \in Nat /\ Dist(n) \in Nat
  BY <1>1, DistOf
<1>3. ASSUME Dist(producer) < Dist(n) PROVE FALSE
  <2>1. status[n] = "free" /\ n # producer
    BY <1>1, <1>2, <1>3 DEF RowInv
  <2>2. QED
    BY <2>1 DEF RowInv
<1>4. QED
  BY <1>2, <1>3

\* The node a line may be appended to without breaking the numbering: the
\* nodes with lines before it lead to it, and those after it are empty.
NextToFill(p) ==
  /\ \A n \in Nodes :
       IF content[n] # <<>> /\ n # p
         THEN NextNode(n) # consumer /\ (NextNode(n) = p \/ content[NextNode(n)] # <<>>)
         ELSE NextNode(n) # consumer => NextNode(n) # p /\ content[NextNode(n)] = <<>>
  /\ p = consumer \/ content[consumer] # <<>>
  /\ at \in {"write", "print", "free"} => p # consumer

\* Appending the next line there keeps what is known of lines and of those handed over.
LEMMA AppendKeepsLines ==
  ASSUME RingInv, LinesInv, HandedInv, NothingLost,
         NEW p \in Nodes, NextToFill(p),
         accepted' = accepted + 1,
         content' = [content EXCEPT ![p] = Append(@, accepted + 1)],
         UNCHANGED <<consumer, at, handed, console>>
  PROVE  LinesInv' /\ HandedInv' /\ NothingLost'
<1>1. /\ content \in [Nodes -> Seq(Nat)] /\ accepted \in Nat /\ consumer \in Nodes
      /\ handed \in Seq(Nat) /\ console \in Seq(Nat)
  BY DEF RingInv, TypeOK
<1>2. /\ content'[p] # <<>> /\ Len(content'[p]) = Len(content[p]) + 1
      /\ Len(content[p]) \in Nat
      /\ \A j \in 1..Len(content[p]) : content'[p][j] = content[p][j]
      /\ content'[p][Len(content[p]) + 1] = accepted + 1
  <2>1. content'[p] = Append(content[p], accepted + 1) /\ content[p] \in Seq(Nat)
    BY <1>1
  <2>2. accepted + 1 \in Nat /\ Len(content[p]) \in Nat
    BY <1>1, <2>1
  <2>3. /\ Len(Append(content[p], accepted + 1)) = Len(content[p]) + 1
        /\ \A j \in 1..Len(content[p]) : Append(content[p], accepted + 1)[j] = content[p][j]
        /\ Append(content[p], accepted + 1)[Len(content[p]) + 1] = accepted + 1
    BY <2>1, <2>2
  <2>4. Append(content[p], accepted + 1) # <<>>
    BY <2>2, <2>3, SMTT(30)
  <2>5. QED
    BY <2>1, <2>2, <2>3, <2>4
<1>3. \A n \in Nodes \ {p} : content'[n] = content[n]
  BY <1>1
<1>4. FirstLine(p)' = FirstLine(p) /\ FirstLine(p) \in Nat
  <2>1. content[p] \in Seq(Nat)
    BY <1>1
  <2>2. CASE content[p] = <<>>
    BY <1>1, <1>2, <2>2 DEF FirstLine
  <2>3. CASE content[p] # <<>>
    <3>1. 1 \in 1..Len(content[p]) /\ content[p][1] \in Nat
      BY <2>1, <2>3
    <3>2. QED
      BY <1>2, <2>3, <3>1 DEF FirstLine
  <2>4. QED
    BY <2>2, <2>3
<1>5. \A n \in Nodes \ {p} :
        FirstLine(n)' = IF content[n] = <<>> THEN accepted + 2 ELSE FirstLine(n)
  BY <1>1, <1>3 DEF FirstLine
<1>6. AfterLast(p) = accepted + 1
  BY <1>1, NextIsNode DEF LinesInv, NextToFill, FirstLine
<1>7. LinesInv'
  <2>1. ASSUME NEW n \in Nodes, NEW j \in 1..Len(content'[n])
        PROVE  content'[n][j] = FirstLine(n)' + j - 1
    <3>1. CASE n = p
      BY <1>2, <1>4, <1>6, <2>1, <3>1 DEF LinesInv, AfterLast
    <3>2. CASE n # p
      <4>1. content[n] # <<>> /\ content'[n] = content[n]
        BY <1>3, <3>2, <2>1
      <4>2. QED
        BY <1>5, <2>1, <3>2, <4>1 DEF LinesInv
    <3>3. QED
      BY <3>1, <3>2
  <2>2. ASSUME NEW n \in Nodes
        PROVE  AfterLast(n)' = IF NextNode(n) = consumer THEN accepted' + 1
                                                         ELSE FirstLine(NextNode(n))'
    <3>1. NextNode(n) \in Nodes
      BY NextIsNode
    <3>2. CASE n = p
      <4>1. AfterLast(n)' = accepted + 2
        BY <1>1, <1>2, <1>4, <1>6, <3>2 DEF AfterLast
      <4>2. ASSUME NextNode(n) # consumer PROVE FirstLine(NextNode(n))' = accepted + 2
        BY <1>5, <3>1, <3>2, <4>2 DEF NextToFill
      <4>3. QED
        BY <1>1, <4>1, <4>2
    <3>3. CASE n # p /\ content[n] = <<>>
      <4>1. AfterLast(n)' = accepted + 2
        BY <1>1, <1>3, <1>5, <3>3 DEF AfterLast
      <4>2. ASSUME NextNode(n) # consumer PROVE FirstLine(NextNode(n))' = accepted + 2
        BY <1>5, <3>1, <3>3, <4>2 DEF NextToFill
      <4>3. QED
        BY <1>1, <4>1, <4>2
    <3>4. CASE n # p /\ content[n] # <<>>
      <4>1. /\ NextNode(n) # consumer /\ AfterLast(n)' = AfterLast(n)
            /\ FirstLine(NextNode(n))' = FirstLine(NextNode(n))
        BY <1>3, <1>4, <1>5, <3>1, <3>4 DEF AfterLast, NextToFill
      <4>2. QED
        BY <4>1 DEF LinesInv
    <3>5. QED
      BY <3>2, <3>3, <3>4
  <2>3. QED
    BY <2>1, <2>2 DEF LinesInv
<1>8. HandedInv'
  <2>1. p = consumer \/ (/\ content'[consumer] = content[consumer]
                         /\ FirstLine(consumer)' = FirstLine(consumer))
    BY <1>1, <1>3, <1>5 DEF NextToFill
  <2>2. FirstLine(consumer)' = FirstLine(consumer)
    BY <1>4, <2>1
  <2>3. at \in {"print", "free"} => AfterLast(consumer)' = AfterLast(consumer)
    BY <2>1, <2>2 DEF NextToFill, AfterLast
  <2>4. QED
    BY <2>2, <2>3 DEF HandedInv
<1>9. NothingLost'
  <2>1. ASSUME NEW i \in 1..(accepted + 1), i > Len(handed)
        PROVE  \E n \in Nodes : \E j \in 1..Len(content'[n]) : content'[n][j] = i
    <3>1. CASE i = accepted + 1
      BY <1>2, <3>1
    <3>2. CASE i \in 1..accepted
      <4>1. PICK n \in Nodes : \E j \in 1..Len(content[n]) : content[n][j] = i
        <5>1. ~ (i <= Len(handed))
          BY <1>1, <2>1
        <5>2. QED
          BY <3>2, <5>1 DEF NothingLost
      <4>2. PICK j \in 1..Len(content[n]) : content[n][j] = i
        BY <4>1
      <4>3. j \in 1..Len(content'[n]) /\ content'[n][j] = i
        <5>1. CASE n = p
          BY <1>2, <4>2, <5>1
        <5>2. CASE n # p
          BY <1>3, <4>2, <5>2
        <5>3. QED
          BY <5>1, <5>2
      <4>4. QED
        BY <4>3
    <3>3. QED
      BY <1>1, <3>1, <3>2
  <2>2. QED
    <3>1. accepted' = accepted + 1 /\ handed' = handed /\ Len(handed) \in Nat
      BY <1>1
    <3>2. \A i \in 1..(accepted + 1) : i <= Len(handed) \/ i > Len(handed)
      BY <1>1, <3>1
    <3>3. QED
      BY <2>1, <3>1, <3>2 DEF NothingLost
<1>10. QED
  BY <1>7, <1>8, <1>9

\* The node being filled may get the next line.
LEMMA ProducerFills ==
  ASSUME RingInv, RowInv, status[producer] = "free"
  PROVE  NextToFill(producer)
<1>1. producer \in Nodes /\ consumer \in Nodes /\ status \in [Nodes -> {"free", "full"}]
  BY DEF RingInv, TypeOK
<1>2. Dist(producer) \in 0 .. NodeCnt - 1 /\ NodeCnt \in Nat
  BY <1>1, DistOf, RingAssumption
<1>3. ASSUME NEW n \in Nodes, content[n] # <<>>, n # producer
      PROVE  NextNode(n) # consumer /\ (NextNode(n) = producer \/ content[NextNode(n)] # <<>>)
  <2>1. Dist(n) \in Nat /\ Dist(n) < Dist(producer)
    BY <1>1, <1>2, <1>3, HoldingNodes, DistOf
  <2>2. NextNode(n) # consumer /\ Dist(NextNode(n)) = Dist(n) + 1 /\ NextNode(n) \in Nodes
    BY <1>1, <1>2, <2>1, DistOf, NextIsNode
  <2>3. NextNode(n) = producer \/ Dist(NextNode(n)) < Dist(producer)
    BY <1>1, <1>2, <2>1, <2>2, DistOf
  <2>4. QED
    BY <2>2, <2>3 DEF RowInv
<1>4. ASSUME NEW n \in Nodes, content[n] = <<>> \/ n = producer, NextNode(n) # consumer
      PROVE  NextNode(n) # producer /\ content[NextNode(n)] = <<>>
  <2>1. Dist(n) \in Nat /\ Dist(NextNode(n)) = Dist(n) + 1 /\ NextNode(n) \in Nodes
    BY <1>1, <1>4, DistOf, NextIsNode
  <2>2. ~ (Dist(n) < Dist(producer))
    BY <1>2, <1>4 DEF RowInv
  <2>3. Dist(producer) < Dist(NextNode(n))
    BY <1>2, <2>1, <2>2
  <2>4. status[NextNode(n)] = "free" /\ NextNode(n) # producer
    BY <1>1, <1>2, <2>1, <2>3 DEF RowInv
  <2>5. QED
    BY <2>1, <2>4 DEF RowInv
<1>5. producer = consumer \/ content[consumer] # <<>>
  <2>1. producer = consumer \/ Dist(consumer) < Dist(producer)
    BY <1>1, <1>2, DistOf
  <2>2. QED
    BY <1>1, <2>1 DEF RowInv
<1>6. at \in {"write", "print", "free"} => producer # consumer
  BY DEF RingInv, ChosenIsFull
<1>7. QED
  BY <1>3, <1>4, <1>5, <1>6 DEF NextToFill

\* When log() closes the producer's node, that node holds a line, and the one
\* after it is the consumer's, full, or is free and may get the next line.
LEMMA NextFills ==
  ASSUME RingInv, RowInv, status[producer] = "free", content[producer] # <<>>
  PROVE  LET q == NextNode(producer)
         IN  /\ q \in Nodes
             /\ q = consumer => q = producer \/ status[q] = "full"
             /\ q # consumer => /\ q # producer /\ status[q] = "free"
                                /\ Dist(q) = Dist(producer) + 1
                                /\ NextToFill(q)
<1> DEFINE q == NextNode(producer)
<1>1. producer \in Nodes /\ consumer \in Nodes /\ status \in [Nodes -> {"free", "full"}]
  BY DEF RingInv, TypeOK
<1>2. Dist(producer) \in 0 .. NodeCnt - 1 /\ NodeCnt \in Nat /\ q \in Nodes
  BY <1>1, DistOf, RingAssumption, NextIsNode
<1>3. ASSUME q = consumer PROVE q = producer \/ status[q] = "full"
  <2>1. q = producer \/ Dist(q) < Dist(producer)
    BY <1>1, <1>2, <1>3, DistOf
  <2>2. QED
    BY <1>2, <2>1 DEF RowInv
<1>4. ASSUME q # consumer
      PROVE  /\ q # producer /\ status[q] = "free"
             /\ Dist(q) = Dist(producer) + 1 /\ NextToFill(q)
  <2>1. Dist(q) = Dist(producer) + 1
    BY <1>1, <1>4, DistOf
  <2>2. q # producer /\ status[q] = "free"
    BY <1>1, <1>2, <2>1 DEF RowInv
  <2>3. ASSUME NEW n \in Nodes, content[n] # <<>>, n # q
        PROVE  NextNode(n) # consumer /\ (NextNode(n) = q \/ content[NextNode(n)] # <<>>)
    <3>1. CASE n = producer
      BY <1>4, <3>1
    <3>2. CASE n # producer
      BY <2>3, <3>2, ProducerFills DEF NextToFill
    <3>3. QED
      BY <3>1, <3>2
  <2>4. ASSUME NEW n \in Nodes, content[n] = <<>> \/ n = q, NextNode(n) # consumer
        PROVE  NextNode(n) # q /\ content[NextNode(n)] = <<>>
    <3>1. content[q] = <<>>
      BY <1>2, <2>2 DEF RowInv
    <3>2. content[NextNode(n)] = <<>> /\ NextNode(n) # producer
      BY <2>4, <3>1, ProducerFills DEF NextToFill
    <3>3. Dist(NextNode(n)) = Dist(n) + 1 /\ Dist(n) \in Nat
      BY <1>1, <2>4, DistOf
    <3>4. ASSUME NextNode(n) = q PROVE FALSE
      <4>1. n = producer
        BY <1>1, <1>2, <2>1, <3>3, <3>4, DistOf
      <4>2. QED
        BY <2>2, <2>4, <4>1
    <3>5. QED
      BY <3>2, <3>4
  <2>5. content[consumer] # <<>>
    BY <1>4, ProducerFills DEF NextToFill
  <2>6. QED
    BY <1>4, <2>1, <2>2, <2>3, <2>4, <2>5 DEF NextToFill
<1>5. QED
  BY <1>2, <1>3, <1>4

\* A call of log() keeps the row in order and the lines numbered.
LEMMA LogKeepsOrder ==
  ASSUME OrderInv, NEW len \in Sizes, Log(len)
  PROVE  OrderInv'
<1> USE DEF OrderInv
<1>1. /\ producer \in Nodes /\ consumer \in Nodes /\ status \in [Nodes -> {"free", "full"}]
      /\ content \in [Nodes -> Seq(Nat)] /\ used \in [Nodes -> Nat]
      /\ accepted \in Nat /\ len \in Nat /\ len < NodeSize
      /\ NodeSize \in Nat
  BY RingAssumption DEF RingInv, TypeOK
<1>2. RingInv' /\ UNCHANGED <<consumer, at, handed, console>>
  BY LogKeepsFull DEF Log
<1>3. \A n \in Nodes : Dist(n)' = Dist(n)
  BY <1>2 DEF Dist
<1>4. ASSUME NEW p \in Nodes, status[p] = "free", NextToFill(p), Accept(p, len),
             producer' = p,
             \A n \in Nodes : status[n] = "full" => status'[n] = "full",
             \A n \in Nodes : status'[n] = "full" => content[n] # <<>>,
             \A n \in Nodes : status'[n] = "free" /\ n # p => content[n] = <<>>,
             \A n, m \in Nodes : Dist(n) < Dist(m) /\ status'[n] = "free" => status'[m] = "free",
             status'[p] = "free",
             \A n \in Nodes : Dist(n) < Dist(p) => status'[n] = "full"
      PROVE  OrderInv'
  <2>1. /\ content' = [content EXCEPT ![p] = Append(@, accepted + 1)]
        /\ used' = [used EXCEPT ![p] = @ + len] /\ accepted' = accepted + 1
    BY <1>4 DEF Accept
  <2>2. LinesInv' /\ HandedInv' /\ NothingLost'
    BY <1>2, <1>4, <2>1, AppendKeepsLines
  <2>3. content'[p] # <<>>
    <3>1. content'[p] = Append(content[p], accepted + 1) /\ content[p] \in Seq(Nat)
      BY <1>1, <1>4, <2>1
    <3>2. Len(content'[p]) = Len(content[p]) + 1 /\ Len(content[p]) \in Nat
      BY <1>1, <3>1
    <3>3. QED
      BY <3>2
  <2>4. \A n \in Nodes : n # p => content'[n] = content[n] /\ used'[n] = used[n]
    BY <1>1, <2>1
  <2>5. RowInv'
    BY <1>1, <1>3, <1>4, <2>3, <2>4 DEF RowInv
  <2>6. QED
    BY <1>2, <2>2, <2>5
<1>5. CASE status[producer] = "full"
  <2>1. UNCHANGED <<content, used, accepted, status, producer>>
    BY <1>5 DEF Log, Drop
  <2>2. RowInv'
    BY <1>2, <2>1 DEF RowInv, Dist
  <2>3. LinesInv' /\ HandedInv' /\ NothingLost'
    BY <1>2, <2>1 DEF LinesInv, HandedInv, NothingLost, AfterLast, FirstLine
  <2>4. QED
    BY <1>2, <2>2, <2>3
<1>6. CASE status[producer] = "free" /\ LogFits(len)
  BY <1>1, <1>4, <1>6, ProducerFills DEF LogFits, RowInv
<1>7. CASE status[producer] = "free" /\ LogNext(len)
  <2>1. content[producer] # <<>>
    BY <1>1, <1>7 DEF LogNext, RowInv
  <2>2. producer' = NextNode(producer) /\ producer' \in Nodes
        /\ status' = [status EXCEPT ![producer] = "full"]
    BY <1>1, <1>7, NextIsNode DEF LogNext
  <2>3. CASE status'[producer'] = "full"
    <3>1. UNCHANGED <<content, used, accepted>>
      BY <1>7, <2>3 DEF LogNext, Drop
    <3>2. producer' = consumer
      BY <1>1, <1>7, <2>1, <2>2, <2>3, NextFills
    <3>3. RowInv'
      BY <1>1, <1>2, <1>3, <1>7, <2>1, <2>2, <2>3, <3>1, <3>2 DEF RowInv
    <3>4. LinesInv' /\ HandedInv' /\ NothingLost'
      BY <1>2, <3>1 DEF LinesInv, HandedInv, NothingLost, AfterLast, FirstLine
    <3>5. QED
      BY <1>2, <3>3, <3>4
  <2>4. CASE status'[producer'] # "full"
    <3>1. Accept(producer', len)
      BY <1>7, <2>4 DEF LogNext
    <3>2. /\ producer' # consumer /\ producer' # producer /\ status[producer'] = "free"
          /\ Dist(producer') = Dist(producer) + 1 /\ NextToFill(producer')
      BY <1>1, <1>7, <2>1, <2>2, <2>4, NextFills
    <3>3. \A n \in Nodes : Dist(n) < Dist(producer') => status'[n] = "full"
      <4>1. \A n \in Nodes : Dist(n) < Dist(producer') => n = producer \/ Dist(n) < Dist(producer)
        BY <1>1, <3>2, DistOf, SMTT(30)
      <4>2. QED
        BY <1>1, <1>7, <2>2, <4>1 DEF RowInv
    <3>4. /\ \A n \in Nodes : status[n] = "full" => status'[n] = "full"
          /\ \A n \in Nodes : status'[n] = "full" => content[n] # <<>>
          /\ \A n \in Nodes : status'[n] = "free" => content[n] = <<>>
          /\ \A n, m \in Nodes :
               Dist(n) < Dist(m) /\ status'[n] = "free" => status'[m] = "free"
      BY <1>1, <1>7, <2>1, <2>2 DEF RowInv
    <3>5. status'[producer'] = "free"
      BY <1>1, <2>2, <3>2
    <3>6. QED
      BY <1>4, <2>2, <3>1, <3>2, <3>3, <3>4, <3>5
  <2>5. QED
    BY <2>3, <2>4
<1>8. QED
  BY <1>1, <1>5, <1>6, <1>7 DEF Log

\* The dump thread marks the node it takes; only a node with lines is taken.
LEMMA TakeKeepsOrder ==
  ASSUME OrderInv, Take
  PROVE  OrderInv'
<1> USE DEF OrderInv
<1>1. /\ producer \in Nodes /\ consumer \in Nodes /\ status \in [Nodes -> {"free", "full"}]
  BY DEF RingInv, TypeOK
<1>2. RingInv'
  BY RingStepInv DEF Next, Dump
<1>3. \A n \in Nodes : Dist(n)' = Dist(n)
  BY DEF Take, Dist
<1>4. LinesInv' /\ HandedInv' /\ NothingLost'
  BY DEF Take, LinesInv, HandedInv, NothingLost, AfterLast, FirstLine
<1>5. RowInv'
  <2>1. CASE status[consumer] = "free" /\ used[consumer] # 0
    <3>1. /\ status' = [status EXCEPT ![consumer] = "full"]
          /\ UNCHANGED <<content, used, producer, consumer>>
      BY <2>1 DEF Take
    <3>2. content[consumer] # <<>> /\ producer = consumer
      BY <1>1, <2>1 DEF RowInv
    <3>3. \A n \in Nodes : ~ (Dist(n) < Dist(consumer))
      BY <1>1, DistOf
    <3>4. QED
      BY <1>1, <1>3, <3>1, <3>2, <3>3 DEF RowInv
  <2>2. CASE status[consumer] = "full" \/ used[consumer] = 0
    <3>1. UNCHANGED <<content, used, producer, consumer, status>>
      BY <1>1, <2>2 DEF Take
    <3>2. QED
      BY <3>1 DEF RowInv, Dist
  <2>3. QED
    BY <1>1, <2>1, <2>2
<1>6. QED
  BY <1>2, <1>4, <1>5

\* The lines of the chosen node are the ones that follow those handed over.
LEMMA WriteKeepsOrder ==
  ASSUME OrderInv, Write
  PROVE  OrderInv'
<1> USE DEF OrderInv
<1>1. /\ content[consumer] \in Seq(Nat) /\ handed \in Seq(Nat) /\ console \in Seq(Nat)
      /\ consumer \in Nodes /\ accepted \in Nat
  BY DEF RingInv, TypeOK
<1>2. RingInv'
  BY RingStepInv DEF Next, Dump
<1>3. RowInv' /\ LinesInv'
  BY DEF Write, nodeVars, RowInv, Dist, LinesInv, AfterLast, FirstLine
<1>4. /\ Len(handed') = Len(handed) + Len(content[consumer])
      /\ Len(content[consumer]) \in Nat /\ Len(handed) \in Nat
      /\ \A i \in 1..Len(handed') :
           handed'[i] = IF i <= Len(handed) THEN handed[i] ELSE content[consumer][i - Len(handed)]
  BY <1>1 DEF Write
<1>5. HandedInv'
  <2>1. /\ FirstLine(consumer) = Len(handed) + 1 /\ Len(console) = Len(handed)
        /\ \A i \in 1..Len(handed) : handed[i] = i
    BY DEF Write, HandedInv
  <2>2. \A i \in 1..Len(handed') : handed'[i] = i
    <3>1. \A j \in 1..Len(content[consumer]) : content[consumer][j] = Len(handed) + j
      <4>1. \A j \in 1..Len(content[consumer]) : content[consumer][j] = FirstLine(consumer) + j - 1
        BY <1>1 DEF LinesInv
      <4>2. PICK n \in Nat, k \in Nat : n = Len(handed) /\ k = Len(content[consumer])
        BY <1>4
      <4>3. PICK first, c : first = FirstLine(consumer) /\ c = content[consumer]
        OBVIOUS
      <4>4. first = n + 1 /\ \A j \in 1..k : c[j] = first + j - 1
        BY <2>1, <4>1, <4>2, <4>3, Zenon
      <4>5. \A j \in 1..k : c[j] = n + j
        BY <4>4
      <4>6. QED
        BY <4>2, <4>3, <4>5, Zenon
    <3>2. \A i \in 1..Len(handed') : i <= Len(handed) \/ i - Len(handed) \in 1..Len(content[consumer])
      BY <1>4
    <3>3. QED
      BY <1>4, <2>1, <3>1, <3>2
  <2>3. AfterLast(consumer)' = Len(handed') + 1 /\ FirstLine(consumer)' = Len(console) + 1
    <3>1. FirstLine(consumer)' = FirstLine(consumer) /\ AfterLast(consumer)' = AfterLast(consumer)
      BY DEF Write, nodeVars, AfterLast, FirstLine
    <3>2. AfterLast(consumer) = Len(handed) + 1 + Len(content[consumer])
      BY <2>1 DEF AfterLast
    <3>3. Len(handed) + 1 + Len(content[consumer]) = Len(handed') + 1
      <4>1. \A a, b, c \in Nat : c = a + b => a + 1 + b = c + 1
        OBVIOUS
      <4>2. Len(handed') \in Nat
        BY <1>4
      <4>3. QED
        BY <1>4, <4>1, <4>2
    <3>4. QED
      BY <2>1, <3>1, <3>2, <3>3, Zenon
  <2>4. at' = "print" /\ console' = console /\ \A i \in 1..Len(console) : console[i] = i
    BY DEF Write, HandedInv
  <2>5. QED
    BY <2>2, <2>3, <2>4, Zenon DEF HandedInv
<1>6. NothingLost'
  <2>1. \A i \in 1..accepted : i <= Len(handed) => i <= Len(handed')
    BY <1>1, <1>4
  <2>2. QED
    BY <2>1 DEF Write, nodeVars, NothingLost
<1>7. QED
  BY <1>2, <1>3, <1>5, <1>6

\* The console gets the same lines, while the node is still there.
LEMMA PrintKeepsOrder ==
  ASSUME OrderInv, PrintOut
  PROVE  OrderInv'
<1> USE DEF OrderInv
<1>1. /\ content[consumer] \in Seq(Nat) /\ handed \in Seq(Nat) /\ console \in Seq(Nat)
      /\ consumer \in Nodes /\ accepted \in Nat
  BY DEF RingInv, TypeOK
<1>2. RingInv'
  BY RingStepInv DEF Next, Dump
<1>3. RowInv' /\ LinesInv' /\ NothingLost'
  BY DEF PrintOut, nodeVars, RowInv, Dist, LinesInv, AfterLast, FirstLine, NothingLost
<1>4. /\ Len(console') = Len(console) + Len(content[consumer])
      /\ Len(content[consumer]) \in Nat /\ Len(console) \in Nat /\ Len(handed) \in Nat
      /\ \A i \in 1..Len(console') :
           console'[i] = IF i <= Len(console) THEN console[i]
                                              ELSE content[consumer][i - Len(console)]
  BY <1>1 DEF PrintOut
<1>5. HandedInv'
  <2>1. /\ FirstLine(consumer) = Len(console) + 1 /\ AfterLast(consumer) = Len(handed) + 1
        /\ \A i \in 1..Len(console) : console[i] = i
    BY DEF PrintOut, HandedInv
  <2>2. \A i \in 1..Len(console') : console'[i] = i
    <3>1. \A j \in 1..Len(content[consumer]) : content[consumer][j] = Len(console) + j
      BY <1>1, <1>4, <2>1 DEF LinesInv
    <3>2. \A i \in 1..Len(console') :
            i <= Len(console) \/ i - Len(console) \in 1..Len(content[consumer])
      BY <1>4
    <3>3. QED
      BY <1>4, <2>1, <3>1, <3>2
  <2>3. Len(console') = Len(handed)
    <3>1. Len(console) + 1 + Len(content[consumer]) = Len(handed) + 1
      BY <2>1 DEF AfterLast
    <3>2. Len(content[consumer]) \in Nat /\ Len(console) \in Nat /\ Len(handed) \in Nat
      BY <1>4
    <3>3. Len(console) + Len(content[consumer]) = Len(handed)
      <4>1. \A a, b, c \in Nat : a + 1 + b = c + 1 => a + b = c
        OBVIOUS
      <4>2. QED
        BY <3>1, <3>2, <4>1
    <3>4. QED
      BY <1>4, <3>3
  <2>4. AfterLast(consumer)' = Len(handed) + 1
    BY <2>1 DEF PrintOut, nodeVars, AfterLast, FirstLine
  <2>5. QED
    BY <2>2, <2>3, <2>4 DEF PrintOut, HandedInv
<1>6. QED
  BY <1>2, <1>3, <1>5

\* When the consumer moves on, its old node becomes the last of the row.
LEMMA DistMoves ==
  ASSUME consumer \in Nodes, consumer' = NextNode(consumer), NEW n \in Nodes
  PROVE  Dist(n)' = IF n = consumer THEN NodeCnt - 1 ELSE Dist(n) - 1
BY NextIs, RingAssumption DEF Nodes, Dist

\* A node is given back when its lines were handed to write and are on the console.
LEMMA ReleaseKeepsOrder ==
  ASSUME OrderInv, Release
  PROVE  OrderInv'
<1> USE DEF OrderInv
<1>1. /\ producer \in Nodes /\ consumer \in Nodes /\ status \in [Nodes -> {"free", "full"}]
      /\ content \in [Nodes -> Seq(Nat)] /\ used \in [Nodes -> Nat]
      /\ accepted \in Nat /\ handed \in Seq(Nat) /\ NodeCnt \in Nat
  BY RingAssumption DEF RingInv, TypeOK
<1>2. RingInv'
  BY RingStepInv DEF Next, Dump
<1>3. /\ content'[consumer] = <<>> /\ used'[consumer] = 0 /\ status'[consumer] = "free"
      /\ \A n \in Nodes : n # consumer =>
           content'[n] = content[n] /\ used'[n] = used[n] /\ status'[n] = status[n]
      /\ consumer' = NextNode(consumer) /\ consumer' \in Nodes
      /\ producer' = (IF consumer = producer THEN NextNode(producer) ELSE producer)
      /\ UNCHANGED <<accepted, handed, console>>
      /\ at = "free" /\ at' = "check"
  BY <1>1, NextIsNode DEF Release, ProducerMoves
<1>4. \A n \in Nodes : Dist(n)' = IF n = consumer THEN NodeCnt - 1 ELSE Dist(n) - 1
  BY <1>1, <1>3, DistMoves
<1>5. \A n \in Nodes : Dist(n) \in 0 .. NodeCnt - 1 /\ (Dist(n) = 0 <=> n = consumer)
  BY <1>1, DistOf
<1>6. RowInv'
  <2>1. \A n \in Nodes : status'[n] = "full" => content'[n] # <<>>
    BY <1>1, <1>3 DEF RowInv
  <2>2. \A n \in Nodes : content'[n] = <<>> => used'[n] = 0
    BY <1>1, <1>3 DEF RowInv
  <2>3. \A n \in Nodes : status'[n] = "free" /\ n # producer' => content'[n] = <<>>
    BY <1>1, <1>3 DEF RowInv
  <2>4. ASSUME NEW n \in Nodes, NEW m \in Nodes, Dist(n)' < Dist(m)', status'[n] = "free"
        PROVE  status'[m] = "free"
    <3>1. CASE m = consumer
      BY <1>3, <3>1
    <3>2. CASE m # consumer
      <4>1. n # consumer /\ Dist(n) < Dist(m)
        BY <1>1, <1>4, <1>5, <2>4, <3>2
      <4>2. QED
        BY <1>3, <2>4, <3>2, <4>1 DEF RowInv
    <3>3. QED
      BY <3>1, <3>2
  <2>5. status'[producer'] = "full" => producer' = consumer'
    BY <1>1, <1>3 DEF RowInv
  <2>6. ASSUME status'[producer'] = "free", NEW n \in Nodes, Dist(n)' < Dist(producer)'
        PROVE  status'[n] = "full"
    <3>1. CASE producer = consumer
      <4>1. producer' = consumer' /\ Dist(producer)' = 0
        BY <1>3, <3>1, RingAssumption DEF Dist, Nodes
      <4>2. Dist(n)' \in Nat
        BY <1>1, <1>4, <1>5
      <4>3. QED
        BY <2>6, <4>1, <4>2
    <3>2. CASE producer # consumer
      <4>1. producer' = producer
        BY <1>3, <3>2
      <4>2. Dist(producer)' = Dist(producer) - 1
        BY <1>1, <1>4, <3>2, <4>1 DEF Dist
      <4>3. n # consumer /\ Dist(n) < Dist(producer)
        BY <1>1, <1>4, <1>5, <2>6, <4>2
      <4>4. status[producer] = "free"
        BY <1>1, <1>3, <2>6, <3>2, <4>1
      <4>5. QED
        BY <1>3, <4>3, <4>4 DEF RowInv
    <3>3. QED
      BY <3>1, <3>2
  <2>7. QED
    BY <2>1, <2>2, <2>3, <2>4, <2>5, <2>6 DEF RowInv
<1>7. \A n \in Nodes : FirstLine(n)' = IF n = consumer THEN accepted + 1 ELSE FirstLine(n)
  BY <1>3 DEF FirstLine
<1>8. \A n \in Nodes : AfterLast(n)' = IF n = consumer THEN accepted + 1 ELSE AfterLast(n)
  BY <1>1, <1>3, <1>7 DEF AfterLast
<1>9. LinesInv'
  <2>1. ASSUME NEW n \in Nodes, NEW j \in 1..Len(content'[n])
        PROVE  content'[n][j] = FirstLine(n)' + j - 1
    <3>1. n # consumer
      BY <1>3, <2>1
    <3>2. QED
      BY <1>3, <1>7, <2>1, <3>1 DEF LinesInv
  <2>2. ASSUME NEW n \in Nodes
        PROVE  AfterLast(n)' = IF NextNode(n) = consumer' THEN accepted' + 1
                                                          ELSE FirstLine(NextNode(n))'
    <3>1. NextNode(n) \in Nodes
      BY NextIsNode
    <3>2. CASE n = consumer
      BY <1>3, <1>8, <3>2
    <3>3. CASE n # consumer
      <4>1. NextNode(n) # consumer'
        <5>1. /\ NextNode(n) = IF n + 1 = NodeCnt THEN 0 ELSE n + 1
              /\ NextNode(consumer) = IF consumer + 1 = NodeCnt THEN 0 ELSE consumer + 1
          BY <1>1, NextIs
        <5>2. n \in Nat /\ consumer \in Nat
          BY <1>1 DEF Nodes
        <5>3. QED
          BY <1>1, <1>3, <3>3, <5>1, <5>2
      <4>2. FirstLine(NextNode(n))'
              = IF NextNode(n) = consumer THEN accepted + 1 ELSE FirstLine(NextNode(n))
        BY <1>7, <3>1
      <4>3. QED
        BY <1>8, <3>3, <4>1, <4>2 DEF LinesInv
    <3>4. QED
      BY <3>2, <3>3
  <2>3. QED
    BY <2>1, <2>2 DEF LinesInv
<1>10. HandedInv'
  <2>1. FirstLine(consumer') = Len(handed) + 1 \/ consumer' = consumer
    BY <1>1, <1>3 DEF LinesInv, HandedInv
  <2>2. consumer' = consumer => accepted + 1 = Len(handed) + 1
    BY <1>1, <1>3 DEF LinesInv, HandedInv
  <2>3. FirstLine(consumer)' = Len(handed) + 1
    BY <1>3, <2>1, <2>2 DEF FirstLine
  <2>4. QED
    BY <1>3, <2>3 DEF HandedInv
<1>11. NothingLost'
  <2>1. ASSUME NEW i \in 1..accepted, i > Len(handed)
        PROVE  \E n \in Nodes : \E j \in 1..Len(content'[n]) : content'[n][j] = i
    <3>1. PICK n \in Nodes : \E j \in 1..Len(content[n]) : content[n][j] = i
      <4>1. ~ (i <= Len(handed))
        BY <1>1, <2>1
      <4>2. QED
        BY <4>1 DEF NothingLost
    <3>2. PICK j \in 1..Len(content[n]) : content[n][j] = i
      BY <3>1
    <3>3. n # consumer
      <4>1. ASSUME n = consumer PROVE FALSE
        <5>1. i = FirstLine(consumer) + j - 1 /\ AfterLast(consumer) = Len(handed) + 1
          BY <1>3, <3>2, <4>1 DEF LinesInv, HandedInv
        <5>2. Len(content[consumer]) \in Nat /\ j <= Len(content[consumer]) /\ Len(handed) \in Nat
          BY <1>1, <3>2, <4>1
        <5>3. FirstLine(consumer) \in Nat
          <6>1. content[consumer] # <<>> => content[consumer][1] \in Nat
            <7>1. content[consumer] \in Seq(Nat)
              BY <1>1
            <7>2. QED
              BY <7>1
          <6>2. QED
            BY <1>1, <6>1 DEF FirstLine
        <5>4. QED
          BY <2>1, <3>2, <5>1, <5>2, <5>3 DEF AfterLast
      <4>2. QED
        BY <4>1
    <3>4. QED
      BY <1>3, <3>2, <3>3
  <2>2. QED
    <3>1. \A i \in 1..accepted : i <= Len(handed) \/ i > Len(handed)
      BY <1>1
    <3>2. QED
      BY <1>3, <2>1, <3>1 DEF NothingLost
<1>12. QED
  BY <1>2, <1>6, <1>9, <1>10, <1>11

\* A fresh ring is in order.
LEMMA OrderInit == Init => OrderInv /\ ThreadInv
<1> SUFFICES ASSUME Init PROVE OrderInv /\ ThreadInv
  OBVIOUS
<1>1. RingInv
  BY RingInitInv
<1>2. \A n \in Nodes : content[n] = <<>> /\ status[n] = "free" /\ used[n] = 0
  BY DEF Init
<1>3. producer \in Nodes /\ consumer \in Nodes /\ producer = consumer /\ accepted = 0
  BY RingAssumption DEF Init, Nodes
<1>4. \A n \in Nodes : ~ (Dist(n) < Dist(producer))
  BY <1>3, DistOf
<1>5. RowInv
  BY <1>2, <1>3, <1>4 DEF RowInv
<1>6. \A n \in Nodes : FirstLine(n) = 1 /\ AfterLast(n) = 1
  BY <1>2, <1>3 DEF FirstLine, AfterLast
<1>7. LinesInv
  BY <1>2, <1>3, <1>6, NextIsNode DEF LinesInv
<1>8. HandedInv
  BY <1>3, <1>6 DEF HandedInv, Init
<1>9. NothingLost
  BY <1>3 DEF NothingLost
<1>10. ThreadInv
  BY DEF Init, ThreadInv
<1>11. QED
  BY <1>1, <1>5, <1>7, <1>8, <1>9, <1>10 DEF OrderInv

\* Every step keeps the row in order.
LEMMA OrderStep == OrderInv /\ ThreadInv /\ [Next]_vars => OrderInv' /\ ThreadInv'
<1> SUFFICES ASSUME OrderInv, ThreadInv, [Next]_vars PROVE OrderInv' /\ ThreadInv'
  OBVIOUS
<1>1. ASSUME NEW len \in Sizes, Log(len) PROVE OrderInv'
  BY <1>1, LogKeepsOrder
<1>2. ASSUME Take PROVE OrderInv'
  BY <1>2, TakeKeepsOrder
<1>3. ASSUME Write PROVE OrderInv'
  BY <1>3, WriteKeepsOrder
<1>4. ASSUME PrintOut PROVE OrderInv'
  BY <1>4, PrintKeepsOrder
<1>5. ASSUME Release PROVE OrderInv'
  BY <1>5, ReleaseKeepsOrder
<1>6. ASSUME SetFilename \/ StopAsked \/ StopJoined \/ Check \/ Look \/ UNCHANGED vars PROVE OrderInv'
  <2>1. RingInv'
    BY RingStepInv DEF OrderInv
  <2>2. /\ UNCHANGED <<nodeVars, producer, consumer, handed, console, accepted>>
        /\ (at \in {"print", "free"} <=> at' \in {"print", "free"})
        /\ (at = "print" <=> at' = "print")
    BY <1>6 DEF SetFilename, StopAsked, StopJoined, Check, Look, vars, ThreadInv
  <2>3. RowInv' /\ LinesInv' /\ NothingLost'
    BY <2>2 DEF OrderInv, nodeVars, RowInv, Dist, LinesInv, AfterLast, FirstLine, NothingLost
  <2>4. HandedInv'
    <3>1. FirstLine(consumer)' = FirstLine(consumer) /\ AfterLast(consumer)' = AfterLast(consumer)
      BY <2>2 DEF nodeVars, AfterLast, FirstLine
    <3>2. QED
      BY <2>2, <3>1 DEF OrderInv, HandedInv
  <2>5. QED
    BY <2>1, <2>3, <2>4 DEF OrderInv
<1>7. ThreadInv'
  BY DEF ThreadInv, Next, Dump, SetFilename, StopAsked, StopJoined, Log, Check, Look, Take,
     Write, PrintOut, Release, vars
<1>8. QED
  BY <1>1, <1>2, <1>3, <1>4, <1>5, <1>6, <1>7 DEF Next, Dump

\* The row is in order at every instant.
LEMMA OrderInvariant == Spec => []OrderInv
<1>1. QED
  BY OrderInit, OrderStep, PTL DEF Spec

\* The numbers handed over and those on the console have no gap.
LEMMA OrderIsWritten == OrderInv => WrittenInOrder
<1> SUFFICES ASSUME OrderInv PROVE WrittenInOrder
  OBVIOUS
<1>1. /\ handed \in Seq(Nat) /\ console \in Seq(Nat) /\ content \in [Nodes -> Seq(Nat)]
      /\ consumer \in Nodes
  BY DEF OrderInv, RingInv, TypeOK
<1>2. Len(console) <= Len(handed)
  BY <1>1 DEF OrderInv, HandedInv, AfterLast
<1>3. \A i \in 1..Len(console) : console[i] = handed[i]
  BY <1>1, <1>2 DEF OrderInv, HandedInv
<1>4. /\ SubSeq(handed, 1, Len(console)) \in Seq(Nat)
      /\ Len(SubSeq(handed, 1, Len(console))) = Len(console)
      /\ \A i \in 1..Len(console) : SubSeq(handed, 1, Len(console))[i] = handed[i]
  BY <1>1, <1>2
<1>5. console = SubSeq(handed, 1, Len(console))
  BY <1>1, <1>3, <1>4, SeqEqual
<1>6. QED
  BY <1>5 DEF OrderInv, HandedInv, WrittenInOrder

\* The accepted lines are handed to logfile::write in their order, without a gap
\* and none twice, and the console gets the same lines, for any ring and any lines.
THEOREM RingWrittenInOrder == Spec => []WrittenInOrder
<1>1. QED
  BY OrderIsWritten, OrderInvariant, PTL

\* An accepted line has been handed to logfile::write or is still in a node, at
\* every instant.
THEOREM RingNothingLost == Spec => []NothingLost
<1>1. OrderInv => NothingLost
  BY DEF OrderInv
<1>2. QED
  BY <1>1, OrderInvariant, PTL

-----------------------------------------------------------------------------
(* The files.                                                              *)

\* What is put behind a sequence is added to its elements.
LEMMA ConcatSet ==
  ASSUME NEW S, NEW s \in Seq(S), NEW t \in Seq(S)
  PROVE  /\ s \o t \in Seq(S)
         /\ ToSet(s) \subseteq ToSet(s \o t) /\ ToSet(t) \subseteq ToSet(s \o t)
         /\ ToSet(s \o t) \subseteq ToSet(s) \cup ToSet(t)
<1>1. PICK c : c = s \o t
  OBVIOUS
<1>2. /\ c \in Seq(S) /\ Len(c) = Len(s) + Len(t)
      /\ \A i \in 1..Len(s) + Len(t) : c[i] = IF i <= Len(s) THEN s[i] ELSE t[i - Len(s)]
  BY <1>1, ConcatProperties
<1>3. /\ Len(s) \in Nat /\ Len(t) \in Nat
      /\ DOMAIN s = 1..Len(s) /\ DOMAIN t = 1..Len(t) /\ DOMAIN c = 1..Len(s) + Len(t)
  BY <1>2
<1>4. ToSet(s) \subseteq ToSet(c)
  <2>1. \A i \in DOMAIN s : i \in DOMAIN c /\ c[i] = s[i]
    BY <1>2, <1>3
  <2>2. QED
    BY <2>1 DEF ToSet
<1>5. ToSet(t) \subseteq ToSet(c)
  <2>1. \A i \in DOMAIN t : i + Len(s) \in DOMAIN c /\ c[i + Len(s)] = t[i]
    BY <1>2, <1>3
  <2>2. QED
    BY <2>1 DEF ToSet
<1>6. ToSet(c) \subseteq ToSet(s) \cup ToSet(t)
  <2>1. \A i \in DOMAIN c : (i \in DOMAIN s /\ c[i] = s[i])
                              \/ (i - Len(s) \in DOMAIN t /\ c[i] = t[i - Len(s)])
    BY <1>2, <1>3
  <2>2. QED
    BY <2>1 DEF ToSet
<1>7. QED
  BY <1>1, <1>2, <1>4, <1>5, <1>6

\* Lines in order, followed by lines in order that come later.
LEMMA OrderedConcat ==
  ASSUME NEW s \in Seq(Lines), NEW t \in Seq(Lines), Ordered(s), Ordered(t),
         \A x \in ToSet(s), y \in ToSet(t) : x[2] < y[2]
  PROVE  Ordered(s \o t)
<1>1. PICK c : c = s \o t
  OBVIOUS
<1>2. /\ c \in Seq(Lines) /\ Len(c) = Len(s) + Len(t)
      /\ \A i \in 1..Len(s) + Len(t) : c[i] = IF i <= Len(s) THEN s[i] ELSE t[i - Len(s)]
  BY <1>1, ConcatProperties
<1>3. /\ Len(s) \in Nat /\ Len(t) \in Nat
      /\ DOMAIN s = 1..Len(s) /\ DOMAIN t = 1..Len(t) /\ DOMAIN c = 1..Len(s) + Len(t)
  BY <1>2
<1>4. ASSUME NEW i \in DOMAIN c, NEW j \in DOMAIN c, i < j
      PROVE  c[i][2] < c[j][2]
  <2>1. CASE j <= Len(s)
    <3>1. i \in DOMAIN s /\ j \in DOMAIN s /\ c[i] = s[i] /\ c[j] = s[j]
      BY <1>2, <1>3, <1>4, <2>1
    <3>2. QED
      BY <1>4, <3>1 DEF Ordered
  <2>2. CASE i > Len(s)
    <3>1. /\ i - Len(s) \in DOMAIN t /\ j - Len(s) \in DOMAIN t /\ i - Len(s) < j - Len(s)
          /\ c[i] = t[i - Len(s)] /\ c[j] = t[j - Len(s)]
      BY <1>2, <1>3, <1>4, <2>2
    <3>2. QED
      BY <3>1 DEF Ordered
  <2>3. CASE i <= Len(s) /\ j > Len(s)
    <3>1. i \in DOMAIN s /\ j - Len(s) \in DOMAIN t /\ c[i] = s[i] /\ c[j] = t[j - Len(s)]
      BY <1>2, <1>3, <1>4, <2>3
    <3>2. s[i] \in ToSet(s) /\ t[j - Len(s)] \in ToSet(t)
      BY <3>1 DEF ToSet
    <3>3. QED
      BY <3>1, <3>2
  <2>4. QED
    BY <1>3, <2>1, <2>2, <2>3
<1>5. QED
  BY <1>1, <1>4 DEF Ordered

\* The first lines of those that follow s, put behind s, are in order too.
LEMMA OrderedPrefix ==
  ASSUME NEW s \in Seq(Lines), NEW t \in Seq(Lines), Ordered(s \o t), NEW k \in 0..Len(t)
  PROVE  SubSeq(t, 1, k) \in Seq(Lines) /\ Ordered(s \o SubSeq(t, 1, k))
<1>1. PICK b : b = SubSeq(t, 1, k)
  OBVIOUS
<1>2. b \in Seq(Lines) /\ Len(b) = k /\ \A i \in 1..k : b[i] = t[i]
  <2>1. k \in Int /\ \A i \in 1..k : t[i] \in Lines
    OBVIOUS
  <2>2. /\ SubSeq(t, 1, k) \in Seq(Lines)
        /\ Len(SubSeq(t, 1, k)) = IF 1 <= k THEN k - 1 + 1 ELSE 0
        /\ \A i \in 1..k - 1 + 1 : SubSeq(t, 1, k)[i] = t[1 + i - 1]
    BY <2>1, SubSeqProperties
  <2>3. /\ b \in Seq(Lines) /\ Len(b) = IF 1 <= k THEN k - 1 + 1 ELSE 0
        /\ \A i \in 1..k - 1 + 1 : b[i] = t[1 + i - 1]
    BY <1>1, <2>2, Zenon
  <2>4. QED
    BY <2>3
<1>3. PICK c, d : c = s \o t /\ d = s \o b
  OBVIOUS
<1>4. /\ c \in Seq(Lines) /\ Len(c) = Len(s) + Len(t)
      /\ \A i \in 1..Len(s) + Len(t) : c[i] = IF i <= Len(s) THEN s[i] ELSE t[i - Len(s)]
  BY <1>3, ConcatProperties
<1>5. /\ d \in Seq(Lines) /\ Len(d) = Len(s) + Len(b)
      /\ \A i \in 1..Len(s) + Len(b) : d[i] = IF i <= Len(s) THEN s[i] ELSE b[i - Len(s)]
  BY <1>2, <1>3, ConcatProperties
<1>6. \A i \in DOMAIN d : i \in DOMAIN c /\ d[i] = c[i]
  <2>1. Len(s) \in Nat /\ Len(t) \in Nat /\ k \in Nat /\ k <= Len(t)
    OBVIOUS
  <2>2. DOMAIN d = 1..Len(s) + k /\ DOMAIN c = 1..Len(s) + Len(t)
    BY <1>2, <1>4, <1>5
  <2>3. QED
    BY <1>2, <1>4, <1>5, <2>1, <2>2
<1>7. Ordered(c)
  BY <1>3
<1>8. Ordered(d)
  BY <1>6, <1>7 DEF Ordered
<1>9. QED
  BY <1>1, <1>2, <1>3, <1>8

\* The lines of a file are of the process that opened it last, and in order
\* unless a call failed in that one.
OwnLines(lines, owner, b) ==
  /\ owner <= life
  /\ \A x \in ToSet(lines) : x[1] = owner
  /\ owner \notin b => Ordered(lines)

\* A flushed line is in its file, or a later process opened this name, or it is cut.
KeptFile(x, d, o) ==
  /\ x[2][1] <= o[x[1]]
  /\ x[2] \in ToSet(d[x[1]]) \/ o[x[1]] > x[2][1] \/ Cut(x[1])

\* The lines held back go on with those of the open file.
GoesOn(lines, buf, n, b) ==
  /\ life \notin b => Ordered(lines \o buf)
  /\ \A x \in ToSet(lines) \cup ToSet(buf) : x[1] = life /\ x[2] <= n

\* What holds of the files d, the logfile object f, the openers o and the flushed
\* lines s, when n lines were handed over and the processes b met a failure.  (A
\* write may roll over first: in between, d, f, o and s are those of no state.)
FilesOk(d, f, o, s, n, b) ==
  /\ d \in [DOMAIN d -> Seq(Lines)] /\ DOMAIN d \subseteq Names
  /\ o \in [DOMAIN d -> Nat] /\ s \subseteq (DOMAIN d) \X Lines
  /\ f \in FileType /\ (~f.open => f.buf = <<>>)
  /\ \A m \in DOMAIN d : OwnLines(d[m], o[m], b)
  /\ \A x \in s : KeptFile(x, d, o)
  /\ f.open => /\ f.name \in DOMAIN d /\ o[f.name] = life
               /\ GoesOn(d[f.name], f.buf, n, b)

\* The numbers this process has given, and those of its lines that have not left.
Given(d, o, idx) == \A m \in DOMAIN d : o[m] = life /\ ~Cut(m) => m[3] <= idx
Arrived(i, d, buf, o) ==
  \/ <<life, i>> \in ToSet(buf)
  \/ \E m \in DOMAIN d : o[m] = life /\ <<life, i>> \in ToSet(d[m])
Written(d, buf, o, n) == \A i \in 1..n : Arrived(i, d, buf, o)

Counters == today \in Nat /\ pid \in Nat /\ life \in Nat \ {0} /\ alive \in BOOLEAN
            /\ bad \subseteq 1..life

FilesInv ==
  /\ Counters
  /\ FilesOk(disk, lf, opener, sure, Len(handed), bad)
  /\ ~(alive /\ ready) => lf = NoFile
  /\ alive /\ ~ready => \A m \in DOMAIN disk : opener[m] # life
  /\ alive /\ ready => Given(disk, opener, lf.idx)
  /\ StaysOpen
  /\ alive /\ life \notin bad /\ lf.idx <= NameRoom =>
       Written(disk, lf.buf, opener, Len(handed))

\* This is the invariant of the files as Logger states it.
LEMMA FilesInvIs ==
  FilesInv => DiskTypeOK /\ NamesInv /\ OpenInv /\ StaysOpen /\ LogsKept
<1> SUFFICES ASSUME FilesInv
             PROVE  DiskTypeOK /\ NamesInv /\ OpenInv /\ StaysOpen /\ LogsKept
  OBVIOUS
<1>1. FilesOk(disk, lf, opener, sure, Len(handed), bad) /\ Counters
  BY DEF FilesInv
<1>2. DiskTypeOK
  BY <1>1 DEF DiskTypeOK, FilesOk, Counters
<1>3. NamesInv
  <2>1. \A n \in DOMAIN disk : opener[n] <= life
    BY <1>1 DEF FilesOk, OwnLines
  <2>2. \A n \in DOMAIN disk :
          alive /\ opener[n] = life => ready /\ (~Cut(n) => n[3] <= lf.idx)
    BY DEF FilesInv, Given
  <2>3. (\A x \in sure : x[2][1] <= opener[x[1]]) /\ (~lf.open => lf.buf = <<>>)
    BY <1>1 DEF FilesOk, KeptFile
  <2>4. ~(alive /\ ready) => lf = NoFile
    BY DEF FilesInv
  <2>5. QED
    BY <2>1, <2>2, <2>3, <2>4 DEF NamesInv
<1>4. OpenInv
  BY <1>1 DEF OpenInv, FilesOk, GoesOn
<1>5. StaysOpen
  BY DEF FilesInv
<1>6. FilesKept
  <2>1. \A x \in sure : x[2] \in ToSet(disk[x[1]]) \/ opener[x[1]] > x[2][1] \/ Cut(x[1])
    BY <1>1 DEF FilesOk, KeptFile
  <2>2. \A n \in DOMAIN disk : /\ \A line \in ToSet(disk[n]) : line[1] = opener[n]
                               /\ opener[n] \notin bad => Ordered(disk[n])
    BY <1>1 DEF FilesOk, OwnLines
  <2>3. QED
    BY <2>1, <2>2 DEF FilesKept
<1>7. LogsWritten
  BY DEF FilesInv, LogsWritten, Written, Arrived
<1>8. QED
  BY <1>2, <1>3, <1>4, <1>5, <1>6, <1>7 DEF LogsKept

\* A failure, and more lines handed over, take nothing from it; lines that are
\* handed over and do not arrive need a failure.
LEMMA BadGrows ==
  ASSUME NEW d, NEW f, NEW o, NEW s, NEW n \in Nat, NEW b, NEW b2,
         FilesOk(d, f, o, s, n, b), b \subseteq b2
  PROVE  FilesOk(d, f, o, s, n, b2)
<1>1. \A m \in DOMAIN d : OwnLines(d[m], o[m], b2)
  BY DEF FilesOk, OwnLines
<1>2. f.open => GoesOn(d[f.name], f.buf, n, b2)
  BY DEF FilesOk, GoesOn
<1>3. QED
  BY <1>1, <1>2 DEF FilesOk

\* What the first k elements of a sequence are.
LEMMA FirstOnes ==
  ASSUME NEW S, NEW t \in Seq(S), NEW k \in 0..Len(t)
  PROVE  /\ SubSeq(t, 1, k) \in Seq(S) /\ Len(SubSeq(t, 1, k)) = k
         /\ \A i \in 1..k : SubSeq(t, 1, k)[i] = t[i]
         /\ ToSet(SubSeq(t, 1, k)) \subseteq ToSet(t)
         /\ k = Len(t) => SubSeq(t, 1, k) = t
<1>1. PICK b : b = SubSeq(t, 1, k)
  OBVIOUS
<1>2. b \in Seq(S) /\ Len(b) = k /\ \A i \in 1..k : b[i] = t[i]
  <2>1. k \in Int /\ \A i \in 1..k : t[i] \in S
    OBVIOUS
  <2>2. /\ SubSeq(t, 1, k) \in Seq(S)
        /\ Len(SubSeq(t, 1, k)) = IF 1 <= k THEN k - 1 + 1 ELSE 0
        /\ \A i \in 1..k - 1 + 1 : SubSeq(t, 1, k)[i] = t[1 + i - 1]
    BY <2>1, SubSeqProperties
  <2>3. /\ b \in Seq(S) /\ Len(b) = IF 1 <= k THEN k - 1 + 1 ELSE 0
        /\ \A i \in 1..k - 1 + 1 : b[i] = t[1 + i - 1]
    BY <1>1, <2>2, Zenon
  <2>4. QED
    BY <2>3
<1>3. ToSet(b) \subseteq ToSet(t)
  <2>1. \A i \in DOMAIN b : i \in DOMAIN t /\ b[i] = t[i]
    BY <1>2
  <2>2. QED
    BY <2>1 DEF ToSet
<1>4. k = Len(t) => b = t
  <2>1. ASSUME k = Len(t) PROVE b = t
    <3>1. Len(b) = Len(t) /\ \A i \in 1..Len(b) : b[i] = t[i]
      BY <1>2, <2>1
    <3>2. QED
      BY <1>2, <3>1, SeqEqual
  <2>2. QED
    BY <2>1
<1>5. QED
  BY <1>1, <1>2, <1>3, <1>4

\* The flushed lines after fflush of the first k of the lines that f holds back.
Flushes(f, s, k, s2) == s2 = s \/ (k = Len(f.buf) /\ s2 = s \cup FlushedLines(f))

\* No file has lost a line by it, and if all were taken the open one has them.
Reached(d, f, k, d2) ==
  /\ DOMAIN d2 = DOMAIN d /\ \A m \in DOMAIN d : ToSet(d[m]) \subseteq ToSet(d2[m])
  /\ f.open /\ k = Len(f.buf) => ToSet(f.buf) \subseteq ToSet(d2[f.name])

\* fflush of the first k of the lines that f holds back, or of all.
LEMMA SyncKeeps ==
  ASSUME NEW d, NEW f, NEW o, NEW s, NEW n \in Nat, NEW b, NEW k \in 0..Len(f.buf), NEW s2,
         FilesOk(d, f, o, s, n, b), life \in Nat,
         Flushes(f, s, k, s2)
  PROVE  FilesOk(Synced(d, f, k), Emptied(f), o, s2, n, b) /\ Reached(d, f, k, Synced(d, f, k))
<1>1. /\ d \in [DOMAIN d -> Seq(Lines)] /\ DOMAIN d \subseteq Names
      /\ o \in [DOMAIN d -> Nat] /\ s \subseteq (DOMAIN d) \X Lines
      /\ f \in FileType /\ (~f.open => f.buf = <<>>)
  BY DEF FilesOk
<1>2. PICK e : e = Emptied(f)
  OBVIOUS
<1>3. e \in FileType /\ e.open = f.open /\ e.name = f.name /\ e.buf = <<>>
  <2>1. e = [f EXCEPT !.buf = <<>>] /\ <<>> \in Seq(Lines)
    BY <1>2, EmptySeq DEF Emptied
  <2>2. QED
    BY <1>1, <2>1 DEF FileType
<1>4. PICK d2 : d2 = Synced(d, f, k)
  OBVIOUS
<1>5. CASE ~f.open
  <2>1. d2 = d
    BY <1>4, <1>5 DEF Synced
  <2>2. s2 = s
    BY <1>5 DEF Flushes, FlushedLines
  <2>3. FilesOk(d, e, o, s, n, b)
    BY <1>3, <1>5 DEF FilesOk
  <2>4. QED
    BY <1>2, <1>4, <1>5, <2>1, <2>2, <2>3 DEF Reached
<1>6. CASE f.open
  <2>1. /\ f.name \in DOMAIN d /\ o[f.name] = life /\ f.buf \in Seq(Lines)
        /\ d[f.name] \in Seq(Lines)
    BY <1>1, <1>6 DEF FilesOk, FileType
  <2>2. GoesOn(d[f.name], f.buf, n, b)
    BY <1>6 DEF FilesOk
  <2>3. PICK old \in Seq(Lines), buf \in Seq(Lines) : old = d[f.name] /\ buf = f.buf
    BY <2>1
  <2>4. PICK t : t = SubSeq(buf, 1, k)
    OBVIOUS
  <2>5. /\ t \in Seq(Lines) /\ ToSet(t) \subseteq ToSet(buf) /\ (k = Len(buf) => t = buf)
        /\ (Ordered(old \o buf) => Ordered(old \o t))
    <3>1. k \in 0..Len(buf)
      BY <2>3
    <3>2. t \in Seq(Lines) /\ ToSet(t) \subseteq ToSet(buf) /\ (k = Len(buf) => t = buf)
      BY <2>4, <3>1, FirstOnes
    <3>3. Ordered(old \o buf) => Ordered(old \o t)
      BY <2>4, <3>1, OrderedPrefix
    <3>4. QED
      BY <3>2, <3>3
  <2>6. PICK c : c = old \o t
    OBVIOUS
  <2>7. /\ c \in Seq(Lines) /\ ToSet(old) \subseteq ToSet(c) /\ ToSet(t) \subseteq ToSet(c)
        /\ ToSet(c) \subseteq ToSet(old) \cup ToSet(t)
    BY <2>5, <2>6, ConcatSet
  <2>8. d2 = [d EXCEPT ![f.name] = c]
    BY <1>4, <1>6, <2>3, <2>4, <2>6 DEF Synced
  <2>9. /\ DOMAIN d2 = DOMAIN d /\ d2 \in [DOMAIN d -> Seq(Lines)] /\ d2[f.name] = c
        /\ \A m \in DOMAIN d : m # f.name => d2[m] = d[m]
    BY <1>1, <2>1, <2>7, <2>8
  <2>10. \A x \in ToSet(c) : x[1] = life /\ x[2] <= n
    BY <2>2, <2>3, <2>5, <2>7 DEF GoesOn
  <2>11. life \notin b => Ordered(c)
    BY <2>2, <2>3, <2>5, <2>6 DEF GoesOn
  <2>12. \A m \in DOMAIN d : OwnLines(d2[m], o[m], b)
    <3>1. TAKE m \in DOMAIN d
    <3>2. CASE m = f.name
      BY <2>1, <2>9, <2>10, <2>11, <3>2 DEF OwnLines
    <3>3. CASE m # f.name
      <4>1. d2[m] = d[m] /\ OwnLines(d[m], o[m], b)
        BY <2>9, <3>3 DEF FilesOk
      <4>2. QED
        BY <4>1
    <3>4. QED
      BY <3>2, <3>3
  <2>13. \A m \in DOMAIN d : ToSet(d[m]) \subseteq ToSet(d2[m])
    <3>1. TAKE m \in DOMAIN d
    <3>2. CASE m = f.name
      BY <2>3, <2>7, <2>9, <3>2
    <3>3. CASE m # f.name
      BY <2>9, <3>3
    <3>4. QED
      BY <3>2, <3>3
  <2>14. k = Len(f.buf) => ToSet(f.buf) \subseteq ToSet(d2[f.name])
    BY <2>3, <2>5, <2>7, <2>9
  <2>15. s2 \subseteq (DOMAIN d2) \X Lines
    <3>1. FlushedLines(f) \subseteq (DOMAIN d) \X Lines
      <4>1. \A x \in ToSet(f.buf) : x \in Lines
        BY <2>1 DEF ToSet
      <4>2. QED
        BY <1>6, <2>1, <4>1 DEF FlushedLines
    <3>2. QED
      BY <1>1, <2>9, <3>1 DEF Flushes
  <2>16. \A x \in s2 : KeptFile(x, d2, o)
    <3>1. ASSUME NEW x \in s PROVE KeptFile(x, d2, o)
      <4>1. KeptFile(x, d, o) /\ x[1] \in DOMAIN d
        BY <1>1 DEF FilesOk
      <4>2. QED
        BY <2>13, <4>1 DEF KeptFile
    <3>2. ASSUME NEW x \in FlushedLines(f), k = Len(f.buf) PROVE KeptFile(x, d2, o)
      <4>1. PICK line \in ToSet(f.buf) : x = <<f.name, line>>
        BY <1>6 DEF FlushedLines
      <4>2. line \in ToSet(d2[f.name]) /\ line[1] = life
        BY <2>2, <2>14, <3>2 DEF GoesOn
      <4>3. x[1] = f.name /\ x[2] = line
        BY <4>1
      <4>4. QED
        BY <2>1, <4>2, <4>3 DEF KeptFile
    <3>3. QED
      BY <3>1, <3>2 DEF Flushes
  <2>17. GoesOn(c, <<>>, n, b)
    <3>1. c \o <<>> = c
      BY <2>7, ConcatEmptySeq
    <3>2. ToSet(<<>>) = {}
      BY DEF ToSet
    <3>3. QED
      BY <2>10, <2>11, <3>1, <3>2 DEF GoesOn
  <2>18. FilesOk(d2, e, o, s2, n, b)
    BY <1>1, <1>3, <2>1, <2>9, <2>12, <2>15, <2>16, <2>17 DEF FilesOk
  <2>19. QED
    BY <1>2, <1>4, <2>9, <2>13, <2>14, <2>18 DEF Reached
<1>7. f.open \in BOOLEAN
  BY <1>1 DEF FileType
<1>8. QED
  BY <1>5, <1>6, <1>7

\* What waited is in a file after fflush, and what was in one still is.
LEMMA SyncArrives ==
  ASSUME NEW d, NEW f, NEW o, NEW s, NEW n \in Nat, NEW b, FilesOk(d, f, o, s, n, b),
         life \in Nat, Written(d, f.buf, o, n)
  PROVE  Written(Synced(d, f, Len(f.buf)), <<>>, o, n)
<1>1. PICK d2 : d2 = Synced(d, f, Len(f.buf))
  OBVIOUS
<1>2. f.buf \in Seq(Lines) /\ (~f.open => f.buf = <<>>)
  BY DEF FilesOk, FileType
<1>3. Len(f.buf) \in 0..Len(f.buf)
  BY <1>2
<1>4. /\ DOMAIN d2 = DOMAIN d
      /\ \A m \in DOMAIN d : ToSet(d[m]) \subseteq ToSet(d2[m])
      /\ f.open => ToSet(f.buf) \subseteq ToSet(d2[f.name])
  <2>1. PICK k \in 0..Len(f.buf) : k = Len(f.buf)
    BY <1>3
  <2>2. Flushes(f, s, k, s)
    BY DEF Flushes
  <2>3. Reached(d, f, k, Synced(d, f, k))
    BY <2>1, <2>2, SyncKeeps
  <2>4. QED
    BY <1>1, <2>1, <2>3 DEF Reached
<1>5. f.open => f.name \in DOMAIN d /\ o[f.name] = life
  BY DEF FilesOk
<1>6. ~f.open => ToSet(f.buf) = {}
  BY <1>2 DEF ToSet
<1>7. ASSUME NEW i \in 1..n PROVE Arrived(i, d2, <<>>, o)
  <2>1. Arrived(i, d, f.buf, o)
    BY DEF Written
  <2>2. CASE <<life, i>> \in ToSet(f.buf)
    BY <1>4, <1>5, <1>6, <2>2 DEF Arrived
  <2>3. CASE \E m \in DOMAIN d : o[m] = life /\ <<life, i>> \in ToSet(d[m])
    BY <1>4, <2>3 DEF Arrived
  <2>4. QED
    BY <2>1, <2>2, <2>3 DEF Arrived
<1>8. QED
  BY <1>1, <1>7 DEF Written

\* The files d2 and their openers o2 when g has been opened: its file is empty.
Opens(d, o, g, d2, o2) ==
  LET names == IF g.open THEN {g.name} ELSE {}
  IN  /\ d2 = [m \in DOMAIN d \cup names |-> IF m \in names THEN <<>> ELSE d[m]]
      /\ o2 = [m \in DOMAIN d \cup names |-> IF m \in names THEN life ELSE o[m]]
      /\ \A m \in DOMAIN d : o[m] = life /\ ~Cut(m) => m # g.name

\* A file that is opened, if it can be: under a name that this process has not
\* opened yet, unless it is cut.  What another process's file of this name held
\* is gone.
LEMMA NewFileKeeps ==
  ASSUME NEW d, NEW f, NEW o, NEW s, NEW n \in Nat, NEW b, FilesOk(d, f, o, s, n, b),
         life \in Nat, NEW g \in FileType, g.buf = <<>>, NEW d2, NEW o2,
         Opens(d, o, g, d2, o2)
  PROVE  FilesOk(d2, g, o2, s, n, b)
<1> DEFINE names == IF g.open THEN {g.name} ELSE {}
<1>1. /\ d2 = [m \in DOMAIN d \cup names |-> IF m \in names THEN <<>> ELSE d[m]]
      /\ o2 = [m \in DOMAIN d \cup names |-> IF m \in names THEN life ELSE o[m]]
      /\ \A m \in DOMAIN d : o[m] = life /\ ~Cut(m) => m # g.name
  BY DEF Opens
<1>2. /\ d \in [DOMAIN d -> Seq(Lines)] /\ DOMAIN d \subseteq Names
      /\ o \in [DOMAIN d -> Nat] /\ s \subseteq (DOMAIN d) \X Lines
  BY DEF FilesOk
<1>3. names \subseteq Names /\ (g.open => names = {g.name}) /\ \A m \in names : m = g.name
  BY DEF FileType
<1> HIDE DEF names
<1>4. <<>> \in Seq(Lines) /\ ToSet(<<>>) = {} /\ Ordered(<<>>) /\ <<>> \o <<>> = <<>>
  BY EmptySeq DEF ToSet, Ordered
<1>5. /\ DOMAIN d2 = DOMAIN d \cup names /\ DOMAIN o2 = DOMAIN d2
      /\ \A m \in names : d2[m] = <<>> /\ o2[m] = life
      /\ \A m \in DOMAIN d : m \notin names => d2[m] = d[m] /\ o2[m] = o[m]
  BY <1>1
<1>6. d2 \in [DOMAIN d2 -> Seq(Lines)] /\ o2 \in [DOMAIN d2 -> Nat]
  BY <1>1, <1>2, <1>4
<1>7. \A m \in DOMAIN d2 : OwnLines(d2[m], o2[m], b)
  <2>1. TAKE m \in DOMAIN d2
  <2>2. CASE m \in names
    <3>1. d2[m] = <<>> /\ o2[m] = life
      BY <1>5, <2>2
    <3>2. OwnLines(<<>>, life, b)
      BY <1>4 DEF OwnLines
    <3>3. QED
      BY <3>1, <3>2
  <2>3. CASE m \notin names
    <3>1. m \in DOMAIN d /\ d2[m] = d[m] /\ o2[m] = o[m]
      BY <1>5, <2>3
    <3>2. OwnLines(d[m], o[m], b)
      BY <3>1 DEF FilesOk
    <3>3. QED
      BY <3>1, <3>2
  <2>4. QED
    BY <2>2, <2>3
<1>8. \A x \in s : KeptFile(x, d2, o2)
  <2>1. TAKE x \in s
  <2>2. KeptFile(x, d, o) /\ x[1] \in DOMAIN d /\ x[2] \in Lines
    BY <1>2 DEF FilesOk
  <2>3. CASE x[1] \notin names
    <3>1. d2[x[1]] = d[x[1]] /\ o2[x[1]] = o[x[1]]
      BY <1>5, <2>2, <2>3
    <3>2. QED
      BY <2>2, <3>1 DEF KeptFile
  <2>4. CASE x[1] \in names
    <3>1. o2[x[1]] = life /\ x[1] = g.name
      BY <1>3, <1>5, <2>4
    <3>2. o[x[1]] <= life /\ o[x[1]] \in Nat /\ x[2][1] \in Nat
      BY <1>2, <2>2 DEF FilesOk, OwnLines, Lines
    <3>3. x[2][1] <= o[x[1]] /\ x[2][1] <= life
      BY <2>2, <3>2 DEF KeptFile
    <3>4. x[2][1] = life => Cut(x[1])
      <4>1. x[2][1] = life => o[x[1]] = life
        BY <3>2, <3>3
      <4>2. QED
        BY <1>1, <2>2, <3>1, <4>1
    <3>5. QED
      BY <3>1, <3>2, <3>3, <3>4 DEF KeptFile
  <2>5. QED
    BY <2>3, <2>4
<1>9. g.open => /\ g.name \in DOMAIN d2 /\ o2[g.name] = life
                /\ GoesOn(d2[g.name], g.buf, n, b)
  <2>1. GoesOn(<<>>, <<>>, n, b)
    BY <1>4 DEF GoesOn
  <2>2. QED
    BY <1>3, <1>5, <2>1
<1>10. s \subseteq (DOMAIN d2) \X Lines /\ DOMAIN d2 \subseteq Names
  BY <1>2, <1>3, <1>5
<1>11. QED
  BY <1>6, <1>7, <1>8, <1>9, <1>10 DEF FilesOk

\* Putting sequences of lines behind one another is associative.
LEMMA Associative ==
  ASSUME NEW s \in Seq(Lines), NEW t \in Seq(Lines), NEW u \in Seq(Lines)
  PROVE  (s \o t) \o u = s \o (t \o u)
BY ConcatAssociative

\* Lines that are put behind those held back.  They are in order and later than
\* those handed over before, unless a call fails.
LEMMA AppendKeeps ==
  ASSUME NEW d, NEW f, NEW o, NEW s, NEW n \in Nat, NEW b, FilesOk(d, f, o, s, n, b),
         life \in Nat, f.open, NEW new \in Seq(Lines), NEW n2 \in Nat, n <= n2,
         \A y \in ToSet(new) : y[1] = life /\ y[2] <= n2,
         life \notin b => Ordered(new) /\ \A y \in ToSet(new) : n < y[2],
         NEW g \in FileType, g.open, g.name = f.name, g.buf = f.buf \o new
  PROVE  FilesOk(d, g, o, s, n2, b)
<1>1. PICK old : old = d[f.name]
  OBVIOUS
<1>2. PICK buf : buf = f.buf
  OBVIOUS
<1>3. old \in Seq(Lines) /\ buf \in Seq(Lines) /\ f.name \in DOMAIN d /\ o[f.name] = life
  BY <1>1, <1>2 DEF FilesOk, FileType
<1>4. GoesOn(old, buf, n, b)
  BY <1>1, <1>2 DEF FilesOk
<1>5. PICK b2 : b2 = buf \o new
  OBVIOUS
<1>6. b2 \in Seq(Lines) /\ ToSet(b2) \subseteq ToSet(buf) \cup ToSet(new)
  BY <1>3, <1>5, ConcatSet
<1>7. \A x \in ToSet(old) \cup ToSet(buf) : x[1] = life /\ x[2] <= n /\ x[2] \in Nat
  <2>1. \A x \in ToSet(old) \cup ToSet(buf) : x \in Lines
    BY <1>3 DEF ToSet
  <2>2. \A x \in ToSet(old) \cup ToSet(buf) : x[2] \in Nat
    BY <2>1 DEF Lines
  <2>3. QED
    BY <1>4, <2>2 DEF GoesOn
<1>8. \A x \in ToSet(old) \cup ToSet(b2) : x[1] = life /\ x[2] <= n2
  <2>1. \A x \in ToSet(old) \cup ToSet(buf) : x[1] = life /\ x[2] <= n2
    BY <1>7
  <2>2. QED
    BY <1>6, <2>1
<1>9. life \notin b => Ordered(old \o b2)
  <2>1. SUFFICES ASSUME life \notin b PROVE Ordered(old \o b2)
    OBVIOUS
  <2>2. PICK c : c = old \o buf
    OBVIOUS
  <2>3. /\ c \in Seq(Lines) /\ ToSet(c) \subseteq ToSet(old) \cup ToSet(buf) /\ Ordered(c)
    BY <1>3, <1>4, <2>1, <2>2, ConcatSet DEF GoesOn
  <2>4. \A x \in ToSet(c), y \in ToSet(new) : x[2] < y[2]
    <3>1. \A y \in ToSet(new) : y \in Lines
      BY DEF ToSet
    <3>2. \A y \in ToSet(new) : y[2] \in Nat /\ n < y[2]
      BY <2>1, <3>1 DEF Lines
    <3>3. QED
      BY <1>7, <2>3, <3>2
  <2>5. Ordered(c \o new)
    BY <2>1, <2>3, <2>4, OrderedConcat
  <2>6. old \o b2 = c \o new
    BY <1>3, <1>5, <2>2, Associative
  <2>7. QED
    BY <2>5, <2>6
<1>10. GoesOn(old, b2, n2, b)
  BY <1>8, <1>9 DEF GoesOn
<1>11. QED
  BY <1>1, <1>2, <1>3, <1>5, <1>10 DEF FilesOk

\* The name of a file: it has its index at its end, unless it is cut, and it is
\* not as long as there is room.
LEMMA NameIs ==
  ASSUME NEW w \in BOOLEAN, NEW idx \in Nat, today \in Nat, pid \in Nat
  PROVE  /\ LogName(today, w, idx) \in Names
         /\ ~Cut(LogName(today, w, idx)) => LogName(today, w, idx)[3] = idx
         /\ idx <= NameRoom => ~Cut(LogName(today, w, idx))
<1>1. PICK p \in Nat : p = IF w THEN pid ELSE 0
  OBVIOUS
<1>2. PICK parts \in Seq(Nat) : parts = <<today, p, idx>> /\ Len(parts) = 3 /\ parts[3] = idx
  <2>1. /\ <<today, p, idx>> \in Seq(Nat) /\ Len(<<today, p, idx>>) = 3
        /\ <<today, p, idx>>[3] = idx
    OBVIOUS
  <2>2. QED
    BY <2>1
<1>3. PICK k \in 0..Len(parts) : k = IF idx <= NameRoom THEN 3 ELSE 2
  BY <1>2
<1>4. PICK name : name = SubSeq(parts, 1, k)
  OBVIOUS
<1>5. LogName(today, w, idx) = name
  BY <1>1, <1>2, <1>3, <1>4 DEF LogName
<1>6. name \in Seq(Nat) /\ Len(name) = k /\ \A i \in 1..k : name[i] = parts[i]
  BY <1>4, FirstOnes
<1>7. k = 3 => name[3] = idx
  <2>1. k = 3 => 3 \in 1..k
    OBVIOUS
  <2>2. QED
    BY <1>2, <1>6, <2>1
<1>8. QED
  BY <1>3, <1>5, <1>6, <1>7 DEF Names, Cut

\* The members of the logfile object after it has rolled over.
LEMMA RolledIs ==
  ASSUME NEW f \in FileType, NEW newday \in BOOLEAN, NEW opens \in BOOLEAN,
         NEW idx \in Nat, idx = NextIdx(f, newday), today \in Nat, pid \in Nat
  PROVE  LET g == Rolled(f, newday, opens)
         IN  /\ g \in FileType /\ g.open = opens /\ g.idx = idx /\ g.buf = <<>>
             /\ g.name = LogName(today, f.withpid, idx) /\ g.writesize = 0
<1>1. PICK w \in BOOLEAN : w = f.withpid
  BY DEF FileType
<1>2. PICK name \in Names : name = LogName(today, w, idx)
  BY NameIs
<1>3. PICK e \in Seq(Lines) : e = <<>>
  BY EmptySeq
<1>4. PICK g : g = Rolled(f, newday, opens)
  OBVIOUS
<1>5. g = [open |-> opens, name |-> name, withpid |-> w, writesize |-> 0, idx |-> idx,
           rollday |-> today, buf |-> e]
  BY <1>1, <1>2, <1>3, <1>4 DEF Rolled
<1>6. g \in FileType
  BY <1>5 DEF FileType
<1>7. QED
  BY <1>1, <1>2, <1>3, <1>4, <1>5, <1>6

\* _roll_file: the file is flushed and closed, and a new one opened under an
\* index that this process has not given.
LEMMA RollFileKeeps ==
  ASSUME NEW f, NEW n \in Nat, NEW b, FilesOk(disk, f, opener, sure, n, b),
         today \in Nat, pid \in Nat, life \in Nat,
         NEW newday \in BOOLEAN, NEW opens \in BOOLEAN, NEW idx \in Nat,
         idx = NextIdx(f, newday), RollFile(f, newday, opens),
         \A m \in DOMAIN disk : opener[m] = life /\ ~Cut(m) => m[3] < idx
  PROVE  LET g == Rolled(f, newday, opens)
         IN  /\ g \in FileType /\ g.open = opens /\ g.idx = idx /\ g.buf = <<>>
             /\ g.writesize = 0
             /\ FilesOk(disk', g, opener', sure', n, b)
             /\ Given(disk', opener', idx)
             /\ Written(disk, f.buf, opener, n) /\ idx <= NameRoom
                  => Written(disk', <<>>, opener', n)
<1>1. f \in FileType
  BY DEF FilesOk
<1>2. PICK g : g = Rolled(f, newday, opens)
  OBVIOUS
<1>3. PICK w \in BOOLEAN : w = f.withpid
  BY <1>1 DEF FileType
<1>4. PICK name \in Names : name = LogName(today, w, idx)
  BY NameIs
<1>5. /\ g \in FileType /\ g.open = opens /\ g.idx = idx /\ g.buf = <<>> /\ g.name = name
      /\ g.writesize = 0
  BY <1>1, <1>2, <1>3, <1>4, RolledIs
<1>6. (~Cut(name) => name[3] = idx) /\ (idx <= NameRoom => ~Cut(name))
  BY <1>4, NameIs
<1>7. PICK d : d = Synced(disk, f, Len(f.buf))
  OBVIOUS
<1>8. PICK e : e = Emptied(f)
  OBVIOUS
<1>9. PICK names : names = IF opens THEN {name} ELSE {}
  OBVIOUS
<1>10. /\ sure' = sure \cup FlushedLines(f)
       /\ disk' = [m \in DOMAIN disk \cup names |-> IF m \in names THEN <<>> ELSE d[m]]
       /\ opener' = [m \in DOMAIN disk \cup names |-> IF m \in names THEN life ELSE opener[m]]
  BY <1>2, <1>5, <1>7, <1>9 DEF RollFile
<1>11. FilesOk(d, e, opener, sure', n, b) /\ DOMAIN d = DOMAIN disk
  <2>1. PICK k \in 0..Len(f.buf) : k = Len(f.buf)
    BY <1>1 DEF FileType
  <2>2. PICK s2 : s2 = sure \cup FlushedLines(f)
    OBVIOUS
  <2>3. Flushes(f, sure, k, s2)
    BY <2>1, <2>2 DEF Flushes
  <2>4. /\ FilesOk(Synced(disk, f, k), Emptied(f), opener, s2, n, b)
        /\ Reached(disk, f, k, Synced(disk, f, k))
    BY <2>1, <2>3, SyncKeeps
  <2>5. QED
    BY <1>7, <1>8, <1>10, <2>1, <2>2, <2>4 DEF Reached
<1>12. \A m \in DOMAIN d : opener[m] = life /\ ~Cut(m) => m # name
  <2>1. ASSUME NEW m \in DOMAIN disk, opener[m] = life, ~Cut(m) PROVE m # name
    <3>1. m[3] < idx
      BY <2>1
    <3>2. SUFFICES ASSUME m = name PROVE FALSE
      OBVIOUS
    <3>3. name[3] = idx /\ name[3] < idx
      BY <1>6, <2>1, <3>1, <3>2
    <3>4. QED
      BY <3>3
  <2>2. QED
    BY <1>11, <2>1
<1>13. FilesOk(disk', g, opener', sure', n, b)
  <2>1. PICK d2, o2 : d2 = disk' /\ o2 = opener'
    OBVIOUS
  <2>2. PICK s2 : s2 = sure'
    OBVIOUS
  <2>3. FilesOk(d, e, opener, s2, n, b)
    BY <1>11, <2>2
  <2>4. Opens(d, opener, g, d2, o2)
    <3>1. names = IF g.open THEN {g.name} ELSE {}
      BY <1>5, <1>9
    <3>2. /\ d2 = [m \in DOMAIN d \cup names |-> IF m \in names THEN <<>> ELSE d[m]]
          /\ o2 = [m \in DOMAIN d \cup names |-> IF m \in names THEN life ELSE opener[m]]
      BY <1>10, <1>11, <2>1
    <3>3. \A m \in DOMAIN d : opener[m] = life /\ ~Cut(m) => m # g.name
      BY <1>5, <1>12
    <3>4. QED
      BY <3>1, <3>2, <3>3 DEF Opens
  <2>5. FilesOk(d2, g, o2, s2, n, b)
    BY <1>5, <2>3, <2>4, NewFileKeeps
  <2>6. QED
    BY <2>1, <2>2, <2>5
<1>14. Given(disk', opener', idx)
  <2>1. ASSUME NEW m \in DOMAIN disk', opener'[m] = life, ~Cut(m) PROVE m[3] <= idx
    <3>1. m[3] \in Nat
      <4>1. m \in Seq(Nat)
        BY <1>13, <2>1 DEF FilesOk, Names
      <4>2. 3 \in 1..Len(m)
        BY <2>1, <4>1 DEF Cut
      <4>3. QED
        BY <4>1, <4>2
    <3>2. CASE m \in names
      <4>1. m = name
        BY <1>9, <3>2
      <4>2. QED
        BY <1>6, <2>1, <4>1
    <3>3. CASE m \notin names
      <4>1. m \in DOMAIN disk /\ opener[m] = life
        BY <1>10, <2>1, <3>3
      <4>2. m[3] < idx
        BY <2>1, <4>1
      <4>3. QED
        BY <3>1, <4>2
    <3>4. QED
      BY <3>2, <3>3
  <2>2. QED
    BY <2>1 DEF Given
<1>15. ASSUME Written(disk, f.buf, opener, n), idx <= NameRoom
       PROVE  Written(disk', <<>>, opener', n)
  <2>1. Written(d, <<>>, opener, n)
    BY <1>7, <1>15, SyncArrives
  <2>2. \A m \in DOMAIN disk : opener[m] = life => m \notin names
    <3>1. ~Cut(name)
      BY <1>6, <1>15
    <3>2. QED
      BY <1>9, <1>11, <1>12, <3>1
  <2>3. ASSUME NEW i \in 1..n PROVE Arrived(i, disk', <<>>, opener')
    <3>1. Arrived(i, d, <<>>, opener) /\ <<life, i>> \notin ToSet(<<>>)
      BY <2>1 DEF Written, ToSet
    <3>2. PICK m \in DOMAIN disk : opener[m] = life /\ <<life, i>> \in ToSet(d[m])
      BY <1>11, <3>1 DEF Arrived
    <3>3. m \in DOMAIN disk' /\ disk'[m] = d[m] /\ opener'[m] = opener[m]
      BY <1>10, <2>2, <3>2
    <3>4. QED
      BY <3>2, <3>3 DEF Arrived
  <2>4. QED
    BY <2>3 DEF Written
<1>16. QED
  BY <1>2, <1>5, <1>13, <1>14, <1>15


\* The lines that write hands to stdio: of this process and among those handed
\* over; without a failure, all the lines handed over with this call, in order.
Fits(new, n, n2, b) ==
  /\ \A y \in ToSet(new) : y[1] = life /\ y[2] <= n2
  /\ life \notin b => /\ Ordered(new) /\ \A y \in ToSet(new) : n < y[2]
                      /\ \A i \in n + 1..n2 : <<life, i>> \in ToSet(new)

\* Numbers as lines.
LEMMA LinesOfAre ==
  ASSUME NEW numbers \in Seq(Nat), NEW n2 \in Nat, life \in Nat,
         \A j \in 1..Len(numbers) : numbers[j] <= n2
  PROVE  /\ LinesOf(numbers) \in Seq(Lines) /\ Len(LinesOf(numbers)) = Len(numbers)
         /\ \A j \in 1..Len(numbers) : LinesOf(numbers)[j] = <<life, numbers[j]>>
         /\ \A y \in ToSet(LinesOf(numbers)) : y[1] = life /\ y[2] <= n2
<1>1. PICK m \in Nat : m = Len(numbers)
  OBVIOUS
<1>2. DOMAIN numbers = 1..m /\ \A j \in 1..m : numbers[j] \in Nat
  BY <1>1
<1>3. PICK all : all = LinesOf(numbers)
  OBVIOUS
<1>4. all = [i \in 1..m |-> <<life, numbers[i]>>]
  BY <1>2, <1>3 DEF LinesOf
<1>5. \A j \in 1..m : all[j] = <<life, numbers[j]>>
  BY <1>4
<1>6. \A j \in 1..m : all[j] \in Lines
  <2>1. \A j \in 1..m : <<life, numbers[j]>> \in Lines
    BY <1>2 DEF Lines
  <2>2. QED
    BY <1>5, <2>1
<1>7. all \in Seq(Lines) /\ Len(all) = m
  BY <1>4, <1>6
<1>8. \A y \in ToSet(all) : y[1] = life /\ y[2] <= n2
  <2>1. \A j \in 1..m : all[j][1] = life /\ all[j][2] <= n2
    BY <1>1, <1>5
  <2>2. DOMAIN all = 1..m
    BY <1>4
  <2>3. QED
    BY <2>1, <2>2 DEF ToSet
<1>9. QED
  BY <1>1, <1>3, <1>5, <1>7, <1>8

\* The lines of a node follow those handed over before.
LEMMA NodeFits ==
  ASSUME NEW numbers \in Seq(Nat), NEW n \in Nat, NEW n2 \in Nat, n2 = n + Len(numbers),
         life \in Nat, \A j \in 1..Len(numbers) : numbers[j] = n + j, NEW b
  PROVE  LinesOf(numbers) \in Seq(Lines) /\ Fits(LinesOf(numbers), n, n2, b)
<1>1. PICK m \in Nat : m = Len(numbers)
  OBVIOUS
<1>2. PICK all : all = LinesOf(numbers)
  OBVIOUS
<1>3. \A j \in 1..m : numbers[j] <= n2
  BY <1>1
<1>4. /\ all \in Seq(Lines) /\ Len(all) = m /\ \A j \in 1..m : all[j] = <<life, numbers[j]>>
      /\ \A y \in ToSet(all) : y[1] = life /\ y[2] <= n2
  BY <1>1, <1>2, <1>3, LinesOfAre
<1>5. DOMAIN all = 1..m /\ \A j \in 1..m : all[j] = <<life, n + j>>
  BY <1>1, <1>4
<1>6. \A j \in 1..m : all[j][2] = n + j
  BY <1>5
<1>7. Ordered(all)
  BY <1>5, <1>6 DEF Ordered
<1>8. \A y \in ToSet(all) : n < y[2]
  BY <1>5, <1>6 DEF ToSet
<1>9. ASSUME NEW i \in n + 1..n2 PROVE <<life, i>> \in ToSet(all)
  <2>1. i - n \in 1..m /\ n + (i - n) = i
    BY <1>1, <1>9
  <2>2. i - n \in DOMAIN all /\ all[i - n] = <<life, i>>
    BY <1>5, <2>1
  <2>3. QED
    BY <2>2 DEF ToSet
<1>10. QED
  BY <1>2, <1>4, <1>7, <1>8, <1>9 DEF Fits

\* So are those of a write that falls short, with some of them twice.
LEMMA ShortFits ==
  ASSUME NEW numbers \in Seq(Nat), NEW n \in Nat, NEW n2 \in Nat, n2 = n + Len(numbers),
         life \in Nat, \A j \in 1..Len(numbers) : numbers[j] = n + j,
         NEW k \in 0..Len(numbers) - 1, NEW m \in 0..Len(numbers) - 1,
         NEW b, life \in b
  PROVE  LET new == TakenAgain(numbers, k, m)
         IN  new \in Seq(Nat) /\ LinesOf(new) \in Seq(Lines) /\ Fits(LinesOf(new), n, n2, b)
<1>1. k \in 0..Len(numbers) /\ m \in 0..Len(numbers)
  OBVIOUS
<1>2. PICK s, t : s = SubSeq(numbers, 1, k) /\ t = SubSeq(numbers, 1, m)
  OBVIOUS
<1>3. s \in Seq(Nat) /\ ToSet(s) \subseteq ToSet(numbers)
  BY <1>1, <1>2, FirstOnes
<1>4. t \in Seq(Nat) /\ ToSet(t) \subseteq ToSet(numbers)
  BY <1>1, <1>2, FirstOnes
<1>5. PICK new : new = s \o t
  OBVIOUS
<1>6. new \in Seq(Nat) /\ ToSet(new) \subseteq ToSet(numbers)
  BY <1>3, <1>4, <1>5, ConcatSet
<1>7. \A x \in ToSet(numbers) : x <= n2
  <2>1. \A j \in 1..Len(numbers) : numbers[j] <= n2
    OBVIOUS
  <2>2. DOMAIN numbers = 1..Len(numbers)
    OBVIOUS
  <2>3. QED
    BY <2>1, <2>2 DEF ToSet
<1>8. \A j \in 1..Len(new) : new[j] <= n2
  <2>1. \A j \in 1..Len(new) : new[j] \in ToSet(new)
    BY <1>6 DEF ToSet
  <2>2. QED
    BY <1>6, <1>7, <2>1
<1>9. LinesOf(new) \in Seq(Lines) /\ \A y \in ToSet(LinesOf(new)) : y[1] = life /\ y[2] <= n2
  BY <1>6, <1>8, LinesOfAre
<1>10. TakenAgain(numbers, k, m) = new
  BY <1>2, <1>5 DEF TakenAgain
<1>11. QED
  BY <1>6, <1>9, <1>10 DEF Fits

\* The object h is g with these lines, size bytes, in its buffer.
Longer(g, new, size, h) == h = [g EXCEPT !.buf = @ \o new, !.writesize = @ + size]

\* Such lines, put behind those held back in the open file.
LEMMA LinesBehind ==
  ASSUME NEW d, NEW g, NEW o, NEW s, NEW n \in Nat, NEW b, FilesOk(d, g, o, s, n, b),
         life \in Nat, g.open, NEW new \in Seq(Lines), NEW n2 \in Nat, n <= n2,
         Fits(new, n, n2, b), NEW size \in Nat,
         NEW h, Longer(g, new, size, h)
  PROVE  /\ h.open /\ h.idx = g.idx /\ FilesOk(d, h, o, s, n2, b)
         /\ life \notin b /\ Written(d, g.buf, o, n) => Written(d, h.buf, o, n2)
<1>1. g \in FileType
  BY DEF FilesOk
<1>2. PICK buf \in Seq(Lines) : buf = g.buf
  BY <1>1 DEF FileType
<1>3. PICK c : c = buf \o new
  OBVIOUS
<1>4. c \in Seq(Lines) /\ ToSet(buf) \subseteq ToSet(c) /\ ToSet(new) \subseteq ToSet(c)
  BY <1>2, <1>3, ConcatSet
<1>5. PICK w \in Nat : w = g.writesize + size
  BY <1>1 DEF FileType
<1>6. h = [g EXCEPT !.buf = c, !.writesize = w]
  BY <1>2, <1>3, <1>5 DEF Longer
<1>7. h \in FileType /\ h.open = g.open /\ h.name = g.name /\ h.idx = g.idx /\ h.buf = c
  BY <1>1, <1>4, <1>5, <1>6 DEF FileType
<1>8. FilesOk(d, h, o, s, n2, b)
  <2>1. /\ \A y \in ToSet(new) : y[1] = life /\ y[2] <= n2
        /\ life \notin b => Ordered(new) /\ \A y \in ToSet(new) : n < y[2]
    BY DEF Fits
  <2>2. h.buf = g.buf \o new
    BY <1>2, <1>3, <1>7
  <2>3. QED
    BY <1>7, <2>1, <2>2, AppendKeeps
<1>9. ASSUME life \notin b, Written(d, g.buf, o, n) PROVE Written(d, c, o, n2)
  <2>1. ASSUME NEW i \in 1..n2 PROVE Arrived(i, d, c, o)
    <3>1. CASE i \in 1..n
      <4>1. Arrived(i, d, g.buf, o)
        BY <1>9, <3>1 DEF Written
      <4>2. QED
        BY <1>2, <1>4, <4>1 DEF Arrived
    <3>2. CASE i \in n + 1..n2
      BY <1>4, <1>9, <3>2 DEF Arrived, Fits
    <3>3. QED
      BY <3>1, <3>2
  <2>2. QED
    BY <2>1 DEF Written
<1>10. QED
  BY <1>7, <1>8, <1>9

\* What is to be shown of a step after which the process is alive and ready.
AfterStep(d, f, o, s, n, b) ==
  /\ FilesOk(d, f, o, s, n, b) /\ Given(d, o, f.idx) /\ (f.open \/ life \in b)
  /\ life \notin b /\ f.idx <= NameRoom => Written(d, f.buf, o, n)

\* It is the invariant after that step.
LEMMA StepDone ==
  ASSUME life' = life, alive', ready', Counters', NEW n, n = Len(handed'), NEW b, b = bad',
         AfterStep(disk', lf', opener', sure', n, b)
  PROVE  FilesInv'
<1>1. AfterStep(disk, lf, opener, sure, Len(handed), bad)'
  BY DEF AfterStep, FilesOk, OwnLines, KeptFile, GoesOn, Given, Written, Arrived
<1>2. QED
  BY <1>1 DEF AfterStep, FilesInv, StaysOpen

\* logfile::write with lines that fit, in the file that is open or in a new one.
LEMMA WriteLinesKeeps ==
  ASSUME FilesInv, alive, ready, NEW numbers \in Seq(Nat), NEW size \in Nat,
         WriteLines(numbers, size), UNCHANGED <<alive, ready>>,
         NEW n2 \in Nat, n2 = Len(handed'), NEW n \in Nat, n = Len(handed), n <= n2,
         NEW b, b = bad', bad \subseteq b, b \subseteq 1..life,
         LinesOf(numbers) \in Seq(Lines), Fits(LinesOf(numbers), n, n2, b)
  PROVE  FilesInv'
<1>1. today \in Nat /\ pid \in Nat /\ life \in Nat
  BY DEF FilesInv, Counters
<1>2. FilesOk(disk, lf, opener, sure, n, b)
  BY BadGrows DEF FilesInv
<1>3. UNCHANGED <<today, pid, life, alive, ready>>
  BY DEF WriteLines
<1>4. Counters'
  BY <1>3 DEF FilesInv, Counters
<1>5. Given(disk, opener, lf.idx)
  BY DEF FilesInv
<1>6. SUFFICES AfterStep(disk', lf', opener', sure', n2, b)
  BY <1>3, <1>4, StepDone
<1>7. CASE ~lf.open
  <2>1. life \in b
    BY <1>7 DEF FilesInv, StaysOpen
  <2>2. UNCHANGED <<disk, opener, sure, lf>>
    BY <1>7 DEF WriteLines
  <2>3. FilesOk(disk, lf, opener, sure, n2, b)
    BY <1>2, <1>7 DEF FilesOk
  <2>4. QED
    BY <1>5, <2>1, <2>2, <2>3 DEF AfterStep
<1>8. CASE lf.open
  <2>1. PICK new \in Seq(Lines) : new = LinesOf(numbers)
    OBVIOUS
  <2>2. PICK g : g = IF MustRoll THEN Rolled(lf, FALSE, TRUE) ELSE lf
    OBVIOUS
  <2>3. lf' = [g EXCEPT !.buf = @ \o new, !.writesize = @ + size]
    BY <1>8, <2>1, <2>2 DEF WriteLines
  <2>4. /\ g.open /\ FilesOk(disk', g, opener', sure', n, b) /\ Given(disk', opener', g.idx)
        /\ life \notin b /\ g.idx <= NameRoom => Written(disk', g.buf, opener', n)
    <3>1. life \notin b /\ lf.idx <= NameRoom => Written(disk, lf.buf, opener, n)
      BY DEF FilesInv
    <3>2. CASE ~MustRoll
      <4>1. g = lf /\ UNCHANGED <<disk, opener, sure>>
        BY <2>2, <3>2 DEF WriteLines
      <4>2. QED
        BY <1>2, <1>5, <1>8, <3>1, <4>1
    <3>3. CASE MustRoll
      <4>1. g = Rolled(lf, FALSE, TRUE) /\ RollFile(lf, FALSE, TRUE)
        BY <1>8, <2>2, <3>3 DEF WriteLines
      <4>2. PICK idx \in Nat : idx = lf.idx + 1
        BY <1>2 DEF FilesOk, FileType
      <4>3. idx = NextIdx(lf, FALSE)
        BY <4>2 DEF NextIdx
      <4>4. lf.idx \in Nat
        BY <1>2 DEF FilesOk, FileType
      <4>5. \A m \in DOMAIN disk : opener[m] = life /\ ~Cut(m) => m[3] < idx
        <5>1. TAKE m \in DOMAIN disk
        <5>2. HAVE opener[m] = life /\ ~Cut(m)
        <5>3. m[3] <= lf.idx
          BY <1>5, <5>2 DEF Given
        <5>4. m[3] \in Nat
          <6>1. m \in Seq(Nat)
            BY <1>2 DEF FilesOk, Names
          <6>2. 3 \in 1..Len(m)
            BY <5>2, <6>1 DEF Cut
          <6>3. QED
            BY <6>1, <6>2
        <5>5. QED
          BY <4>2, <4>4, <5>3, <5>4
      <4>6. /\ g.open = TRUE /\ g.idx = idx /\ g.buf = <<>>
            /\ FilesOk(disk', g, opener', sure', n, b) /\ Given(disk', opener', idx)
            /\ Written(disk, lf.buf, opener, n) /\ idx <= NameRoom
                 => Written(disk', <<>>, opener', n)
        BY <1>1, <1>2, <4>1, <4>3, <4>5, RollFileKeeps
      <4>7. idx <= NameRoom => lf.idx <= NameRoom
        BY <4>2, <4>4, FileAssumption
      <4>8. QED
        BY <3>1, <4>6, <4>7
    <3>4. QED
      BY <3>2, <3>3
  <2>5. PICK d, h, o, s : d = disk' /\ h = lf' /\ o = opener' /\ s = sure'
    OBVIOUS
  <2>6. FilesOk(d, g, o, s, n, b) /\ Fits(new, n, n2, b)
    BY <2>1, <2>4, <2>5
  <2>7. Longer(g, new, size, h)
    BY <2>3, <2>5 DEF Longer
  <2>8. /\ h.open /\ h.idx = g.idx /\ FilesOk(d, h, o, s, n2, b)
        /\ life \notin b /\ Written(d, g.buf, o, n) => Written(d, h.buf, o, n2)
    <3>1. g.open
      BY <2>4
    <3>2. QED
      BY <1>1, <2>1, <2>6, <2>7, <3>1, LinesBehind
  <2>9. QED
    BY <2>4, <2>5, <2>8 DEF AfterStep
<1>9. QED
  BY <1>7, <1>8

\* A step of the ring that writes nothing leaves the files as they are.
LEMMA FilesStay ==
  ASSUME FilesInv, UNCHANGED <<disk, lf, pid, life, opener, sure, alive, ready, handed, bad>>,
         today' \in Nat
  PROVE  FilesInv'
<1>1. Counters'
  BY DEF FilesInv, Counters
<1>2. FilesOk(disk, lf, opener, sure, Len(handed), bad)'
  BY DEF FilesInv, FilesOk, OwnLines, KeptFile, GoesOn
<1>3. QED
  BY <1>1, <1>2 DEF FilesInv, StaysOpen, Given, Written, Arrived

\* fflush: what was held back is in its file, unless it fails.
LEMMA FlushKeeps ==
  ASSUME FilesInv, NEW k \in 0..Len(lf.buf), Flush(k), UNCHANGED <<alive, ready, handed>>,
         NEW b, b = bad', bad \subseteq b, b \subseteq 1..life, k < Len(lf.buf) => life \in b,
         NEW n \in Nat, n = Len(handed)
  PROVE  FilesInv'
<1>1. life \in Nat /\ UNCHANGED <<today, pid, life, opener>>
  BY DEF FilesInv, Counters, Flush
<1>2. Counters'
  BY <1>1 DEF FilesInv, Counters
<1>3. FilesOk(disk, lf, opener, sure, n, b)
  BY BadGrows DEF FilesInv
<1>4. PICK s : s = sure'
  OBVIOUS
<1>5. Flushes(lf, sure, k, s)
  BY <1>4 DEF Flush, Flushes
<1>6. /\ disk' = Synced(disk, lf, k) /\ lf' = Emptied(lf)
      /\ FilesOk(disk', lf', opener, s, n, b) /\ DOMAIN disk' = DOMAIN disk
  <2>1. /\ FilesOk(Synced(disk, lf, k), Emptied(lf), opener, s, n, b)
        /\ Reached(disk, lf, k, Synced(disk, lf, k))
    BY <1>1, <1>3, <1>5, SyncKeeps
  <2>2. disk' = Synced(disk, lf, k) /\ lf' = Emptied(lf)
    BY DEF Flush
  <2>3. QED
    BY <2>1, <2>2 DEF Reached
<1>7. /\ lf'.open = lf.open /\ lf'.idx = lf.idx /\ lf'.buf = <<>>
      /\ (lf = NoFile => lf' = NoFile)
  <2>1. lf \in FileType
    BY <1>3 DEF FilesOk
  <2>2. lf' = [lf EXCEPT !.buf = <<>>]
    BY <1>6 DEF Emptied
  <2>3. lf = NoFile => lf' = NoFile
    BY <2>2 DEF NoFile
  <2>4. lf'.open = lf.open /\ lf'.idx = lf.idx /\ lf'.buf = <<>>
    BY <2>1, <2>2 DEF FileType
  <2>5. QED
    BY <2>3, <2>4
<1>8. life \notin b /\ Written(disk, lf.buf, opener, n) => Written(disk', <<>>, opener, n)
  <2>1. Len(lf.buf) \in Nat
    BY <1>3 DEF FilesOk, FileType
  <2>2. life \notin b => k = Len(lf.buf)
    BY <2>1
  <2>3. Written(disk, lf.buf, opener, n)
          => Written(Synced(disk, lf, Len(lf.buf)), <<>>, opener, n)
    BY <1>1, <1>3, SyncArrives
  <2>4. QED
    BY <1>6, <2>2, <2>3
<1>9. FilesOk(disk, lf, opener, sure, Len(handed), bad)'
  <2>1. FilesOk(disk', lf', opener', sure', Len(handed'), bad')
    BY <1>1, <1>4, <1>6
  <2>2. QED
    BY <1>1, <2>1 DEF FilesOk, OwnLines, KeptFile, GoesOn
<1>10. QED
  <2>1. ~(alive' /\ ready') => lf' = NoFile
    BY <1>7 DEF FilesInv
  <2>2. alive' /\ ~ready' => \A m \in DOMAIN disk' : opener'[m] # life'
    BY <1>1, <1>6 DEF FilesInv
  <2>3. alive' /\ ready' => Given(disk, opener, lf.idx)'
    BY <1>1, <1>6, <1>7 DEF FilesInv, Given
  <2>4. StaysOpen'
    BY <1>1, <1>7 DEF FilesInv, StaysOpen
  <2>5. alive' /\ life' \notin bad' /\ lf'.idx <= NameRoom
          => Written(disk, lf.buf, opener, Len(handed))'
    <3>1. alive /\ life \notin b /\ lf.idx <= NameRoom => Written(disk', <<>>, opener, n)
      BY <1>8 DEF FilesInv
    <3>2. QED
      BY <1>1, <1>7, <3>1 DEF Written, Arrived
  <2>6. QED
    BY <1>2, <1>9, <2>1, <2>2, <2>3, <2>4, <2>5 DEF FilesInv

\* setfilename opens the first file of the process, if it can.
LEMMA OpenKeeps ==
  ASSUME FilesInv, alive, ~ready, ready' = TRUE, NEW withpid \in BOOLEAN,
         NEW opens \in BOOLEAN, Open(withpid, opens), UNCHANGED <<alive, handed>>,
         NEW b, b = bad', bad \subseteq b, b \subseteq 1..life, ~opens => life \in b,
         NEW n \in Nat, n = Len(handed)
  PROVE  FilesInv'
<1>1. /\ today \in Nat /\ pid \in Nat /\ life \in Nat /\ UNCHANGED <<today, pid, life>>
      /\ lf = NoFile
  BY DEF FilesInv, Counters, Open
<1>2. Counters'
  BY <1>1 DEF FilesInv, Counters
<1>3. PICK f : f = [lf EXCEPT !.withpid = withpid]
  OBVIOUS
<1>4. f \in FileType /\ f.open = FALSE /\ f.buf = <<>> /\ lf.idx = 0 /\ lf.buf = <<>>
  <2>1. <<>> \in Names /\ <<>> \in Seq(Lines)
    BY EmptySeq DEF Names
  <2>2. QED
    BY <1>1, <1>3, <2>1 DEF NoFile, FileType
<1>5. FilesOk(disk, f, opener, sure, n, b)
  <2>1. FilesOk(disk, lf, opener, sure, n, b)
    BY BadGrows DEF FilesInv
  <2>2. QED
    BY <1>4, <2>1 DEF FilesOk
<1>6. PICK g : g = Rolled(f, TRUE, opens)
  OBVIOUS
<1>7. RollFile(f, TRUE, opens) /\ lf' = g
  BY <1>3, <1>6 DEF Open
<1>8. \A m \in DOMAIN disk : opener[m] = life /\ ~Cut(m) => m[3] < 1
  BY DEF FilesInv
<1>9. PICK idx \in Nat : idx = 1 /\ idx = NextIdx(f, TRUE)
  BY DEF NextIdx
<1>10. /\ g.open = opens /\ g.idx = 1 /\ g.buf = <<>>
       /\ FilesOk(disk', g, opener', sure', n, b) /\ Given(disk', opener', 1)
       /\ Written(disk, <<>>, opener, n) /\ 1 <= NameRoom => Written(disk', <<>>, opener', n)
  <2>1. \A m \in DOMAIN disk : opener[m] = life /\ ~Cut(m) => m[3] < idx
    BY <1>8, <1>9
  <2>2. PICK newday \in BOOLEAN : newday = TRUE
    OBVIOUS
  <2>3. /\ g.open = opens /\ g.idx = idx /\ g.buf = <<>>
        /\ FilesOk(disk', g, opener', sure', n, b) /\ Given(disk', opener', idx)
        /\ Written(disk, f.buf, opener, n) /\ idx <= NameRoom => Written(disk', <<>>, opener', n)
    <3>1. /\ g = Rolled(f, newday, opens) /\ RollFile(f, newday, opens)
          /\ idx = NextIdx(f, newday)
      BY <1>6, <1>7, <1>9, <2>2
    <3>2. QED
      BY <1>1, <1>5, <1>9, <2>1, <3>1, RollFileKeeps
  <2>4. QED
    BY <1>4, <1>9, <2>3
<1>11. life \notin b => Written(disk, <<>>, opener, n)
  <2>1. 0 <= NameRoom
    BY FileAssumption
  <2>2. QED
    BY <1>4, <2>1 DEF FilesInv
<1>12. AfterStep(disk', lf', opener', sure', n, b)
  BY <1>7, <1>10, <1>11 DEF AfterStep
<1>13. QED
  BY <1>1, <1>2, <1>12, StepDone

\* The process ends: some of what was held back is in its file.
LEMMA AbandonKeeps ==
  ASSUME FilesInv, Abandon, alive' = FALSE, UNCHANGED handed,
         NEW b, b = bad', bad \subseteq b, b \subseteq 1..life,
         NEW n \in Nat, n = Len(handed)
  PROVE  FilesInv'
<1>1. life \in Nat /\ lf' = NoFile /\ UNCHANGED <<today, pid, life, opener, sure>>
  BY DEF FilesInv, Counters, Abandon
<1>2. Counters'
  BY <1>1 DEF FilesInv, Counters
<1>3. FilesOk(disk, lf, opener, sure, n, b)
  BY BadGrows DEF FilesInv
<1>4. PICK k \in 0..Len(lf.buf) : disk' = Synced(disk, lf, k)
  BY DEF Abandon
<1>5. FilesOk(disk', Emptied(lf), opener, sure, n, b)
  <2>1. Flushes(lf, sure, k, sure)
    BY DEF Flushes
  <2>2. QED
    BY <1>1, <1>3, <1>4, <2>1, SyncKeeps
<1>6. NoFile \in FileType /\ NoFile.open = FALSE /\ NoFile.buf = <<>>
  BY EmptySeq DEF NoFile, FileType, Names
<1>7. FilesOk(disk', NoFile, opener, sure, n, b)
  BY <1>5, <1>6 DEF FilesOk
<1>8. FilesOk(disk, lf, opener, sure, Len(handed), bad)'
  BY <1>1, <1>7 DEF FilesOk, OwnLines, KeptFile, GoesOn
<1>9. QED
  BY <1>1, <1>2, <1>8 DEF FilesInv, StaysOpen

\* The next process has opened nothing.
LEMMA RestartKeeps ==
  ASSUME FilesInv, lf' = NoFile, life' = life + 1, pid' \in Nat, handed' = <<>>,
         UNCHANGED <<disk, today, opener, sure, bad>>, alive' = TRUE, ready' = FALSE,
         NEW n \in Nat, n = Len(handed)
  PROVE  FilesInv'
<1>1. life \in Nat
  BY DEF FilesInv, Counters
<1>2. Counters'
  BY <1>1 DEF FilesInv, Counters
<1>3. FilesOk(disk, lf, opener, sure, n, bad)
  BY DEF FilesInv
<1>4. NoFile \in FileType /\ NoFile.open = FALSE /\ NoFile.buf = <<>> /\ Len(<<>>) = 0
  BY EmptySeq DEF NoFile, FileType, Names
<1>5. \A m \in DOMAIN disk : opener[m] \in Nat /\ opener[m] <= life
  BY <1>3 DEF FilesOk, OwnLines
<1>6. \A m \in DOMAIN disk : opener[m] <= life + 1 /\ opener[m] # life + 1
  BY <1>1, <1>5
<1>7. FilesOk(disk, lf, opener, sure, Len(handed), bad)'
  <2>1. (\A m \in DOMAIN disk : OwnLines(disk[m], opener[m], bad))'
    BY <1>3, <1>6 DEF FilesOk, OwnLines
  <2>2. (\A x \in sure : KeptFile(x, disk, opener))'
    BY <1>3 DEF FilesOk, KeptFile
  <2>3. QED
    BY <1>3, <1>4, <2>1, <2>2 DEF FilesOk
<1>8. Written(disk, lf.buf, opener, Len(handed))'
  BY <1>4 DEF Written
<1>9. QED
  BY <1>2, <1>6, <1>7, <1>8 DEF FilesInv, StaysOpen

-----------------------------------------------------------------------------
(* The whole logger.                                                       *)

\* A step of the ring alone keeps what is said of it.
LEMMA RingStepKeeps ==
  ASSUME ProcessInv, alive, [Next]_vars, UNCHANGED alive
  PROVE  ProcessInv'
<1>1. OrderInv /\ ThreadInv
  BY DEF ProcessInv
<1>2. OrderInv' /\ ThreadInv'
  BY <1>1, OrderStep
<1>3. QED
  BY <1>2 DEF ProcessInv

\* What the dump thread and the threads that log do are steps of the ring.
LEMMA DumpsIsStep == Dumps => alive /\ Dump /\ UNCHANGED alive
BY DEF Dumps, DumpCheck, DumpWrite, DumpMoves, Dump

\* A log statement is a call of log().
LEMMA LogIsStep ==
  ASSUME NEW s \in Statements, LogStatement(s)
  PROVE  alive /\ (\E len \in Sizes : Log(len)) /\ UNCHANGED <<alive, fileVars>>
BY StatementsAssumption DEF LogStatement

\* A fresh ring is in order, the one of the next process as well.
LEMMA OrderAgain == Init' => OrderInv' /\ ThreadInv'
BY OrderInit, PTL

\* The ring of the first process.
LEMMA ProcessInit == LoggerInit => ProcessInv
BY OrderInit DEF LoggerInit, ProcessInv

\* What is said of the ring survives every step, the end of a process and the
\* start of the next one.
LEMMA ProcessStep == ProcessInv /\ [LoggerNext]_loggerVars => ProcessInv'
<1> SUFFICES ASSUME ProcessInv, [LoggerNext]_loggerVars PROVE ProcessInv'
  OBVIOUS
<1>1. CASE SetFile
  BY <1>1, RingStepKeeps DEF SetFile, Next
<1>2. CASE StopAsk
  BY <1>2, RingStepKeeps DEF StopAsk, Next
<1>3. CASE StopJoin
  BY <1>3, RingStepKeeps DEF StopJoin, Next
<1>4. ASSUME NEW s \in Statements, LogStatement(s) PROVE ProcessInv'
  <2>1. alive /\ Next /\ UNCHANGED alive
    BY <1>4, LogIsStep DEF Next
  <2>2. QED
    BY <2>1, RingStepKeeps
<1>5. CASE Dumps
  <2>1. alive /\ Next /\ UNCHANGED alive
    BY <1>5, DumpsIsStep DEF Next
  <2>2. QED
    BY <2>1, RingStepKeeps
<1>6. CASE Crash \/ RollCrash
  <2>1. alive /\ Dies
    BY <1>6 DEF Crash, RollCrash
  <2>2. OrderInv
    BY <2>1 DEF ProcessInv
  <2>3. TypeOK /\ WrittenInOrder /\ NothingLost
    BY <2>2, OrderIsWritten DEF OrderInv, RingInv
  <2>4. /\ alive' = FALSE /\ run' = FALSE /\ at' = "none"
        /\ UNCHANGED <<content, used, status, producer, consumer, ready, handed, console,
                       accepted, dropped>>
    BY <2>1 DEF Dies, nodeVars
  <2>5. TypeOK'
    BY <2>3, <2>4 DEF TypeOK
  <2>6. WrittenInOrder' /\ NothingLost'
    BY <2>3, <2>4 DEF WrittenInOrder, NothingLost
  <2>7. QED
    BY <2>4, <2>5, <2>6 DEF ProcessInv
<1>7. CASE Restart
  <2>1. Init' /\ alive' = TRUE
    BY <1>7 DEF Restart, Init
  <2>2. QED
    BY <2>1, OrderAgain DEF ProcessInv
<1>8. CASE NewDay \/ UNCHANGED loggerVars
  <2>1. UNCHANGED vars /\ UNCHANGED alive
    BY <1>8 DEF NewDay, loggerVars
  <2>2. CASE alive
    BY <2>1, <2>2, RingStepKeeps
  <2>3. CASE ~alive
    BY <2>1, <2>3 DEF ProcessInv, vars, nodeVars, TypeOK, WrittenInOrder, NothingLost
  <2>4. QED
    BY <2>2, <2>3
<1>9. QED
  BY <1>1, <1>2, <1>3, <1>4, <1>5, <1>6, <1>7, <1>8 DEF LoggerNext

\* It holds at every instant, of every process.
LEMMA ProcessInvariant == LoggerSpec => []ProcessInv
<1>1. QED
  BY ProcessInit, ProcessStep, PTL DEF LoggerSpec

\* In every process, also one that ended in the middle of a step, dump has handed
\* the accepted lines to logfile::write in their order, without a gap and none
\* twice, and the console got the same lines.  What the file has of them is what
\* LoggerLogsKept says.
THEOREM LoggerWrittenInOrder == LoggerSpec => []WrittenInOrder
<1>1. ProcessInv => WrittenInOrder
  BY OrderIsWritten DEF ProcessInv
<1>2. QED
  BY <1>1, ProcessInvariant, PTL

\* A line that the process accepted has been handed to logfile::write or is in a
\* node, also when the process ends: of what was not handed over, a crash loses
\* what was in the nodes, and no more.
THEOREM LoggerNothingLost == LoggerSpec => []NothingLost
<1>1. ProcessInv => NothingLost
  BY DEF ProcessInv, OrderInv
<1>2. QED
  BY <1>1, ProcessInvariant, PTL

\* No step of the logger touches the node that is being written without the
\* mutex; the node of a process that has ended is not being written.
THEOREM LoggerUndisturbed == LoggerSpec => WrittenUndisturbed
<1>1. ProcessInv /\ [LoggerNext]_loggerVars
        => [(at \in {"write", "print"}) => content'[consumer] = content[consumer]]_vars
  <2> SUFFICES ASSUME ProcessInv, [LoggerNext]_loggerVars, at \in {"write", "print"}
               PROVE  content'[consumer] = content[consumer]
    OBVIOUS
  <2>1. alive /\ RingInv
    BY DEF ProcessInv, OrderInv
  <2>2. CASE [Next]_vars
    BY <2>1, <2>2, WrittenStays DEF vars, nodeVars
  <2>3. CASE Crash \/ RollCrash
    BY <2>3 DEF Crash, RollCrash, Dies, nodeVars
  <2>4. ~Restart
    BY <2>1 DEF Restart
  <2>5. CASE SetFile \/ StopAsk \/ StopJoin \/ NewDay \/ UNCHANGED loggerVars
    <3>1. [Next]_vars
      BY <2>5 DEF SetFile, StopAsk, StopJoin, NewDay, loggerVars, Next
    <3>2. QED
      BY <2>2, <3>1
  <2>6. CASE Dumps
    <3>1. Next
      BY <2>6, DumpsIsStep DEF Next
    <3>2. QED
      BY <2>2, <3>1
  <2>7. ASSUME NEW s \in Statements, LogStatement(s)
        PROVE  content'[consumer] = content[consumer]
    <3>1. Next
      BY <2>7, LogIsStep DEF Next
    <3>2. QED
      BY <2>2, <3>1
  <2>8. QED
    BY <2>3, <2>4, <2>5, <2>6, <2>7 DEF LoggerNext
<1>2. QED
  BY <1>1, ProcessInvariant, PTL DEF LoggerSpec, WrittenUndisturbed

\* Nothing is on the disk and no file is open.
LEMMA FilesInit == LoggerInit => FilesInv
<1> SUFFICES ASSUME LoggerInit PROVE FilesInv
  OBVIOUS
<1>1. /\ disk = <<>> /\ lf = NoFile /\ today = 0 /\ pid = 1 /\ life = 1 /\ opener = <<>>
      /\ sure = {} /\ alive = TRUE /\ bad = {} /\ ready = FALSE /\ handed = <<>>
  BY DEF LoggerInit, FileInit, Init
<1>2. DOMAIN <<>> = {} /\ Len(<<>>) = 0 /\ <<>> \in [{} -> Seq(Lines)] /\ <<>> \in [{} -> Nat]
  <2>1. /\ <<>> \in Seq(Seq(Lines)) /\ <<>> \in Seq(Nat) /\ Len(<<>>) = 0
        /\ DOMAIN <<>> = {}
    BY EmptySeq
  <2>2. <<>> \in [1..0 -> Seq(Lines)] /\ <<>> \in [1..0 -> Nat] /\ 1..0 = {}
    BY <2>1
  <2>3. QED
    BY <2>1, <2>2
<1>3. NoFile \in FileType /\ NoFile.open = FALSE /\ NoFile.buf = <<>>
  BY EmptySeq DEF NoFile, FileType, Names
<1>4. FilesOk(disk, lf, opener, sure, Len(handed), bad)
  BY <1>1, <1>2, <1>3 DEF FilesOk
<1>5. QED
  BY <1>1, <1>2, <1>4 DEF FilesInv, Counters, StaysOpen, Written

\* A failure is noted as one of this process.
LEMMA FaultNoted ==
  ASSUME NEW is \in BOOLEAN, Fault(is), FilesInv
  PROVE  bad \subseteq bad' /\ bad' \subseteq 1..life /\ (is => life \in bad')
<1>1. bad \subseteq 1..life /\ life \in 1..life
  BY DEF FilesInv, Counters
<1>2. QED
  BY <1>1 DEF Fault, faultVars

\* The number of lines handed over.
LEMMA HandedCount == ProcessInv => Len(handed) \in Nat
<1>1. ProcessInv => TypeOK
  BY DEF ProcessInv, OrderInv, RingInv
<1>2. QED
  BY <1>1 DEF TypeOK

\* The dump thread writes its node: lines that follow those it wrote, or some of
\* them.
LEMMA DumpWriteKeeps ==
  ASSUME ProcessInv, FilesInv, alive, DumpWrite, UNCHANGED alive
  PROVE  FilesInv'
<1>1. OrderInv /\ ThreadInv
  BY DEF ProcessInv
<1>2. at = "write" /\ handed' = handed \o content[consumer] /\ UNCHANGED ready
  BY DEF DumpWrite, Write
<1>3. ready
  BY <1>1, <1>2 DEF ThreadInv
<1>4. /\ content \in [Nodes -> Seq(Nat)] /\ used \in [Nodes -> Nat] /\ consumer \in Nodes
      /\ handed \in Seq(Nat)
  BY <1>1 DEF OrderInv, RingInv, TypeOK
<1>5. FirstLine(consumer) = Len(handed) + 1
  BY <1>1, <1>2 DEF OrderInv, HandedInv
<1>6. PICK c \in Seq(Nat) : c = content[consumer]
  BY <1>4
<1>7. PICK n \in Nat : n = Len(handed)
  BY <1>4
<1>8. PICK n2 \in Nat : n2 = n + Len(c)
  BY <1>6, <1>7
<1>9. \A j \in 1..Len(c) : c[j] = n + j
  <2>1. \A j \in 1..Len(c) : c[j] = FirstLine(consumer) + j - 1
    BY <1>1, <1>4, <1>6 DEF OrderInv, LinesInv
  <2>2. QED
    BY <1>5, <1>7, <2>1
<1>10. n2 = Len(handed') /\ n <= n2
  BY <1>2, <1>4, <1>6, <1>7, <1>8, ConcatProperties
<1>11. PICK b : b = bad'
  OBVIOUS
<1>12. life \in Nat
  BY DEF FilesInv, Counters
<1>13. CASE Fault(FALSE) /\ WriteLines(content[consumer], used[consumer])
  <2>1. PICK size \in Nat : size = used[consumer]
    BY <1>4
  <2>2. WriteLines(c, size) /\ bad \subseteq b /\ b \subseteq 1..life
    BY <1>6, <1>11, <1>13, <2>1, FaultNoted
  <2>3. LinesOf(c) \in Seq(Lines) /\ Fits(LinesOf(c), n, n2, b)
    BY <1>6, <1>7, <1>8, <1>9, <1>12, NodeFits
  <2>4. QED
    BY <1>2, <1>3, <1>6, <1>7, <1>8, <1>10, <1>11, <2>1, <2>2, <2>3, WriteLinesKeeps
<1>14. CASE Fault(TRUE) /\ WriteShort(content[consumer], used[consumer])
  <2>1. PICK k \in 0..Len(c) - 1, m \in 0..Len(c) - 1, size \in 0..used[consumer] :
          WriteLines(TakenAgain(c, k, m), size)
    BY <1>6, <1>14 DEF WriteShort
  <2>2. size \in Nat /\ bad \subseteq b /\ b \subseteq 1..life /\ life \in b
    <3>1. PICK is \in BOOLEAN : is = TRUE
      OBVIOUS
    <3>2. Fault(is)
      BY <1>14, <3>1
    <3>3. bad \subseteq b /\ b \subseteq 1..life /\ life \in b
      BY <1>11, <3>1, <3>2, FaultNoted
    <3>4. size \in Nat
      BY <1>4, <2>1
    <3>5. QED
      BY <3>3, <3>4
  <2>3. PICK new : new = TakenAgain(c, k, m)
    OBVIOUS
  <2>4. new \in Seq(Nat) /\ LinesOf(new) \in Seq(Lines) /\ Fits(LinesOf(new), n, n2, b)
    BY <1>6, <1>7, <1>8, <1>9, <1>12, <2>1, <2>2, <2>3, ShortFits
  <2>5. QED
    BY <1>2, <1>3, <1>7, <1>8, <1>10, <1>11, <2>1, <2>2, <2>3, <2>4, WriteLinesKeeps
<1>15. QED
  BY <1>13, <1>14 DEF DumpWrite

\* Some flush, of DumpCheck or StopJoin.
LEMMA FlushSomeKeeps ==
  ASSUME ProcessInv, FilesInv, FlushSome, UNCHANGED <<alive, ready, handed>>
  PROVE  FilesInv'
<1>1. PICK k \in 0..Len(lf.buf) : Fault(k < Len(lf.buf)) /\ Flush(k)
  BY DEF FlushSome
<1>2. PICK b : b = bad'
  OBVIOUS
<1>3. bad \subseteq b /\ b \subseteq 1..life /\ (k < Len(lf.buf) => life \in b)
  <2>1. CASE k < Len(lf.buf)
    <3>1. Fault(TRUE)
      BY <1>1, <2>1 DEF Fault
    <3>2. QED
      BY <1>2, <3>1, FaultNoted
  <2>2. CASE ~(k < Len(lf.buf))
    <3>1. Fault(FALSE)
      BY <1>1, <2>2 DEF Fault
    <3>2. QED
      BY <1>2, <2>2, <3>1, FaultNoted
  <2>3. QED
    BY <2>1, <2>2
<1>4. PICK n \in Nat : n = Len(handed)
  BY HandedCount
<1>5. QED
  BY <1>1, <1>2, <1>3, <1>4, FlushKeeps

\* Every step of the logger keeps the files.
LEMMA FilesStep ==
  ASSUME ProcessInv, FilesInv, [LoggerNext]_loggerVars
  PROVE  FilesInv'
<1>1. today \in Nat
  BY DEF FilesInv, Counters
<1>2. PICK n \in Nat : n = Len(handed)
  BY HandedCount
<1>3. PICK b : b = bad'
  OBVIOUS
<1>4. CASE SetFile
  <2>1. alive /\ ~ready /\ ready' = TRUE /\ UNCHANGED <<alive, handed>>
    BY <1>4 DEF SetFile, SetFilename
  <2>2. PICK withpid \in BOOLEAN, opens \in BOOLEAN : Fault(~opens) /\ Open(withpid, opens)
    BY <1>4 DEF SetFile
  <2>3. bad \subseteq b /\ b \subseteq 1..life /\ (~opens => life \in b)
    BY <1>3, <2>2, FaultNoted
  <2>4. QED
    BY <1>2, <1>3, <2>1, <2>2, <2>3, OpenKeeps
<1>5. CASE StopAsk
  <2>1. UNCHANGED <<disk, lf, pid, life, opener, sure, alive, ready, handed, bad, today>>
    BY <1>5 DEF StopAsk, StopAsked, fileVars, faultVars
  <2>2. QED
    BY <1>1, <2>1, FilesStay
<1>6. CASE StopJoin
  BY <1>6, FlushSomeKeeps DEF StopJoin, StopJoined
<1>7. ASSUME NEW s \in Statements, LogStatement(s) PROVE FilesInv'
  <2>1. UNCHANGED <<disk, lf, pid, life, opener, sure, alive, ready, handed, bad, today>>
    BY <1>7 DEF LogStatement, Log, fileVars, faultVars
  <2>2. QED
    BY <1>1, <2>1, FilesStay
<1>8. CASE Dumps
  <2>1. alive /\ UNCHANGED alive
    BY <1>8 DEF Dumps
  <2>2. CASE DumpCheck
    BY <2>1, <2>2, FlushSomeKeeps DEF DumpCheck, Check
  <2>3. CASE DumpWrite
    BY <2>1, <2>3, DumpWriteKeeps
  <2>4. CASE DumpMoves
    <3>1. UNCHANGED <<disk, lf, pid, life, opener, sure, ready, handed, bad, today>>
      BY <2>4 DEF DumpMoves, Look, Take, PrintOut, Release, fileVars, faultVars
    <3>2. QED
      BY <1>1, <2>1, <3>1, FilesStay
  <2>5. QED
    BY <1>8, <2>2, <2>3, <2>4 DEF Dumps
<1>9. CASE Crash \/ RollCrash
  <2>1. Abandon /\ alive' = FALSE /\ UNCHANGED handed
    BY <1>9 DEF Crash, RollCrash, Dies
  <2>2. bad \subseteq b /\ b \subseteq 1..life
    BY <1>3, <1>9, FaultNoted DEF Crash, RollCrash, faultVars, FilesInv, Counters
  <2>3. QED
    BY <1>2, <1>3, <2>1, <2>2, AbandonKeeps
<1>10. CASE Restart
  <2>1. /\ lf' = NoFile /\ life' = life + 1 /\ pid' \in Nat /\ handed' = <<>>
        /\ UNCHANGED <<disk, today, opener, sure, bad>> /\ alive' = TRUE /\ ready' = FALSE
    BY <1>10 DEF Restart, faultVars
  <2>2. QED
    BY <1>2, <2>1, RestartKeeps
<1>11. CASE NewDay \/ UNCHANGED loggerVars
  <2>1. /\ UNCHANGED <<disk, lf, pid, life, opener, sure, alive, ready, handed, bad>>
        /\ today' \in Nat
    BY <1>1, <1>11 DEF NewDay, Midnight, vars, loggerVars, fileVars, faultVars
  <2>2. QED
    BY <2>1, FilesStay
<1>12. QED
  BY <1>4, <1>5, <1>6, <1>7, <1>8, <1>9, <1>10, <1>11 DEF LoggerNext

\* The invariant of the whole logger, for names with the process and without,
\* however often the system repeats a number: of the ring, the disk, the names of
\* the files and the open one, and of what was handed to logfile::write.
THEOREM LoggerInvariant == LoggerSpec => []LoggerInv
<1>1. LoggerInit => ProcessInv /\ FilesInv
  BY ProcessInit, FilesInit
<1>2. ProcessInv /\ FilesInv /\ [LoggerNext]_loggerVars => ProcessInv' /\ FilesInv'
  BY ProcessStep, FilesStep
<1>3. ProcessInv /\ FilesInv => LoggerInv
  BY FilesInvIs DEF LoggerInv
<1>4. QED
  BY <1>1, <1>2, <1>3, PTL DEF LoggerSpec

\* A flushed line stays in its file until a later process opens a file of this
\* name, unless the names are cut; no file mixes the lines of two processes, and
\* those of a process that met no failure are in order; and every line that such a
\* process handed to logfile::write is in one of its files or held back for the next
\* flush, as long as its names are not cut: over any number of files rolled over,
\* days, failed writes and flushes, crashes and restarts.
THEOREM LoggerLogsKept == LoggerSpec => []LogsKept
<1>1. LoggerInv => LogsKept
  BY DEF LoggerInv
<1>2. QED
  BY <1>1, LoggerInvariant, PTL
=============================================================================
