--------------------------- MODULE CircularQueue ---------------------------
(***************************************************************************)
(* base::circular_queue: a ring of _cap slots, one of which stays free so  *)
(* that _head = _tail means empty.  The operations of the class as         *)
(* operators on a record of its members; Contents is the sequence that the *)
(* record stands for.                                                      *)
(***************************************************************************)
EXTENDS Integers, Sequences

Raw == 0        \* a slot that holds no element

CqNew(n) == [cap |-> n + 1, head |-> 0, tail |-> 0, elem |-> [i \in 0..n |-> Raw]]

CqCapacity(q) == q.cap - 1
CqEmpty(q)    == q.head = q.tail
CqSize(q)     == (q.cap - q.head + q.tail) % q.cap
CqFull(q)     == CqSize(q) = q.cap - 1

CqNext(q, i)  == (i + 1) % q.cap

CqFront(q)    == q.elem[q.head]

\* A pop from an empty ring and a push to a full one change nothing.
CqPopFront(q) ==
  IF CqEmpty(q) THEN q
  ELSE [q EXCEPT !.elem[q.head] = Raw, !.head = CqNext(q, q.head)]

\* The last slot is used too: a ring that is filled looks empty.
CqPushBackAll(q, x) ==
  [q EXCEPT !.elem[q.tail] = x, !.tail = CqNext(q, q.tail)]
CqPushBack(q, x) ==
  IF CqFull(q) THEN q
  ELSE [q EXCEPT !.elem[q.tail] = x, !.tail = CqNext(q, q.tail)]

CqClear(q) == [q EXCEPT !.head = q.tail, !.elem = [i \in 0..CqCapacity(q) |-> Raw]]

-----------------------------------------------------------------------------
\* Rings for n elements.
Rings(n) == [cap : {n + 1}, head : 0..n, tail : 0..n, elem : [0..n -> Int]]

\* The sequence that a ring stands for.
Contents(q) ==
  [i \in 1..CqSize(q) |-> q.elem[(q.head + i - 1) % q.cap]]

=============================================================================
