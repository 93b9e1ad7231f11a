-------------------------- MODULE Coroutine_proofs --------------------------
(***************************************************************************)
(* Proofs about a thread in coroutine mode, for any jobs, ring and memory. *)
(* Its invariant says where every id is (free, pooled, or with a job on    *)
(* its stack), that the two lists of ids lie in the memory as chains side  *)
(* by side, and that a queued id is that of a job that waits, once.  From  *)
(* it follow CoroutinesAccounted and QueuedOnce, and, step by step, that   *)
(* the thread implements the schedule of jobs of module JobSchedule.       *)
(*                                                                         *)
(* The last part is about a coroutine's remote calls (module CoSyncCall),  *)
(* for any number of calls and connections: while it waits there is        *)
(* exactly one thing that can wake it, and a call that returns 0 has its   *)
(* own reply.                                                              *)
(***************************************************************************)
EXTENDS Coroutine, CoSyncCall,
        FiniteSetTheorems, SequenceTheorems, WellFoundedInduction, TLAPS

-----------------------------------------------------------------------------
(* Sequences without repetition.                                           *)

\* Something new at the end keeps a sequence without repetition.
LEMMA DistinctAppend ==
  ASSUME NEW S, NEW s \in Seq(S), NEW x \in S, Distinct(s), x \notin SeqRange(s)
  PROVE  /\ Append(s, x) \in Seq(S) /\ Distinct(Append(s, x))
         /\ SeqRange(Append(s, x)) = SeqRange(s) \cup {x}
<1>1. /\ Append(s, x) \in Seq(S) /\ Len(Append(s, x)) = Len(s) + 1 /\ Len(s) \in Nat
      /\ \A i \in 1..Len(s) : Append(s, x)[i] = s[i]
      /\ Append(s, x)[Len(s) + 1] = x
  BY AppendProperties
<1> DEFINE t == Append(s, x)
<1> HIDE DEF t
<1>2. /\ t \in Seq(S) /\ Len(t) = Len(s) + 1 /\ Len(s) \in Nat
      /\ \A i \in 1..Len(s) : t[i] = s[i]
      /\ t[Len(s) + 1] = x
  BY <1>1 DEF t
<1>3. Distinct(t)
  BY <1>2 DEF Distinct, SeqRange
<1>4. SeqRange(t) = SeqRange(s) \cup {x}
  BY <1>2 DEF SeqRange
<1>5. QED
  BY <1>2, <1>3, <1>4 DEF t

\* The rest of a sequence without repetition has all but its first element.
LEMMA DistinctTail ==
  ASSUME NEW S, NEW s \in Seq(S), s # <<>>, Distinct(s)
  PROVE  /\ Head(s) \in SeqRange(s) /\ Head(s) = s[1]
         /\ Tail(s) \in Seq(S) /\ Distinct(Tail(s))
         /\ SeqRange(Tail(s)) = SeqRange(s) \ {Head(s)}
<1>1. /\ Tail(s) \in Seq(S) /\ Len(Tail(s)) = Len(s) - 1 /\ Len(s) \in Nat \ {0}
      /\ \A i \in 1..Len(s) - 1 : Tail(s)[i] = s[i + 1]
  BY HeadTailProperties, EmptySeq
<1>2. Head(s) = s[1]
  BY <1>1
<1> DEFINE t == Tail(s) h == Head(s)
<1> HIDE DEF t, h
<1>3. /\ t \in Seq(S) /\ Len(t) = Len(s) - 1 /\ Len(s) \in Nat \ {0}
      /\ \A i \in 1..Len(s) - 1 : t[i] = s[i + 1]
      /\ h = s[1]
  BY <1>1, <1>2 DEF t, h
<1>4. Distinct(t)
  BY <1>3 DEF Distinct
<1>5. h \in SeqRange(s)
  BY <1>3 DEF SeqRange
<1>6. \A i \in 1..Len(t) : t[i] \in SeqRange(s) \ {h}
  BY <1>3 DEF SeqRange, Distinct
<1>7. \A i \in 1..Len(s) : s[i] # h => s[i] \in SeqRange(t)
  <2>1. TAKE i \in 1..Len(s)
  <2>2. HAVE s[i] # h
  <2>3. i - 1 \in 1..Len(t) /\ t[i - 1] = s[i]
    BY <1>3, <2>2
  <2>4. QED
    BY <2>3 DEF SeqRange
<1>8. SeqRange(t) = SeqRange(s) \ {h}
  BY <1>6, <1>7 DEF SeqRange
<1>9. QED
  BY <1>3, <1>4, <1>5, <1>8 DEF t, h

\* All but the last element of a sequence without repetition.
LEMMA DistinctFront ==
  ASSUME NEW S, NEW s \in Seq(S), Len(s) # 0, Distinct(s)
  PROVE  LET t == SubSeq(s, 1, Len(s) - 1)
         IN  /\ s[Len(s)] \in SeqRange(s) /\ s[Len(s)] \in S
             /\ t \in Seq(S) /\ Len(t) = Len(s) - 1 /\ Distinct(t)
             /\ SeqRange(t) = SeqRange(s) \ {s[Len(s)]}
<1>1. Len(s) \in Nat /\ \A i \in 1..Len(s) : s[i] \in S
  BY LenProperties, ElementOfSeq
<1> DEFINE t == SubSeq(s, 1, Len(s) - 1)
<1>2. /\ t \in Seq(S) /\ Len(t) = Len(s) - 1
      /\ \A i \in 1..Len(s) - 1 : t[i] = s[i]
  <2>1. PICK n \in Nat : n = Len(s) - 1
    BY <1>1
  <2>2. \A i \in 1..n : s[i] \in S
    BY <1>1, <2>1
  <2>3. /\ SubSeq(s, 1, n) \in Seq(S) /\ Len(SubSeq(s, 1, n)) = n
        /\ \A i \in 1..n : SubSeq(s, 1, n)[i] = s[i]
    BY <2>2
  <2>4. QED
    BY <2>1, <2>3
<1> HIDE DEF t
<1>3. s[Len(s)] \in SeqRange(s) /\ s[Len(s)] \in S
  BY <1>1 DEF SeqRange
<1>4. Distinct(t)
  BY <1>1, <1>2 DEF Distinct
<1>5. SeqRange(t) = SeqRange(s) \ {s[Len(s)]}
  <2>1. \A i \in 1..Len(t) : t[i] = s[i] /\ i \in 1..Len(s) /\ i # Len(s)
    BY <1>1, <1>2
  <2>2. \A i \in 1..Len(s) : i # Len(s) => i \in 1..Len(t) /\ t[i] = s[i]
    BY <1>1, <1>2
  <2>3. Len(s) \in 1..Len(s)
    BY <1>1
  <2>4. QED
    BY <2>1, <2>2, <2>3 DEF SeqRange, Distinct
<1>6. QED
  BY <1>2, <1>3, <1>4, <1>5 DEF t

\* A sequence without repetition is no longer than the set it is drawn from.
LEMMA DistinctLen ==
  ASSUME NEW S, IsFiniteSet(S), NEW s \in Seq(S), Distinct(s)
  PROVE  Len(s) <= Cardinality(S)
<1>1. Len(s) \in Nat /\ s \in [1..Len(s) -> S]
  BY LenProperties
<1>2. s \in Injection(1..Len(s), S)
  BY <1>1 DEF Injection, IsInjective, Distinct
<1>3. Cardinality(1..Len(s)) <= Cardinality(S)
  BY <1>2, FS_Injection
<1>4. Cardinality(1..Len(s)) = Len(s)
  BY <1>1, FS_Interval
<1>5. QED
  BY <1>3, <1>4

-----------------------------------------------------------------------------
(* The ring of ids.                                                        *)

\* The slots of the ring, once around it.
LEMMA Around ==
  ASSUME NEW c \in Nat \ {0}, NEW x \in 0..2 * c - 1
  PROVE  x % c = IF x < c THEN x ELSE x - c
OBVIOUS

\* Where the elements of a ring are.
LEMMA RingSlots ==
  ASSUME NEW n \in Nat, NEW q \in Rings(n)
  PROVE  /\ q.cap = n + 1 /\ q.head \in 0..n /\ q.tail \in 0..n
         /\ CqSize(q) = IF q.tail >= q.head THEN q.tail - q.head ELSE n + 1 + q.tail - q.head
         /\ CqSize(q) \in 0..n
         /\ \A i \in 0..n : CqNext(q, i) = IF i = n THEN 0 ELSE i + 1
         /\ \A i \in 1..CqSize(q) :
              (q.head + i - 1) % q.cap = IF q.head + i - 1 <= n THEN q.head + i - 1 ELSE q.head + i - n - 2
         /\ Contents(q) \in Seq(Int) /\ Len(Contents(q)) = CqSize(q)
<1>1. /\ q.cap = n + 1 /\ q.head \in 0..n /\ q.tail \in 0..n
      /\ \A i \in 0..n : q.elem[i] \in Int
  BY DEF Rings
<1>2. PICK c \in Nat \ {0}, h \in 0..n, t \in 0..n : c = n + 1 /\ c = q.cap /\ h = q.head /\ t = q.tail
  BY <1>1
<1>3. CqSize(q) = IF t >= h THEN t - h ELSE n + 1 + t - h
  <2>1. c - h + t \in 0..2 * c - 1
    BY <1>2
  <2>2. (c - h + t) % c = IF c - h + t < c THEN c - h + t ELSE (c - h + t) - c
    BY <2>1, Around
  <2>3. QED
    BY <1>2, <2>2 DEF CqSize
<1>4. PICK k \in 0..n : k = CqSize(q)
  BY <1>2, <1>3
<1>5. \A i \in 0..n : CqNext(q, i) = IF i = n THEN 0 ELSE i + 1
  <2>1. TAKE i \in 0..n
  <2>2. i + 1 \in 0..2 * c - 1
    BY <1>2
  <2>3. (i + 1) % c = IF i + 1 < c THEN i + 1 ELSE (i + 1) - c
    BY <2>2, Around
  <2>4. QED
    BY <1>2, <2>3 DEF CqNext
<1>6. \A i \in 1..k : (h + i - 1) % c = IF h + i - 1 <= n THEN h + i - 1 ELSE h + i - n - 2
  <2>1. TAKE i \in 1..k
  <2>2. h + i - 1 \in 0..2 * c - 1
    BY <1>2, <1>4
  <2>3. (h + i - 1) % c = IF h + i - 1 < c THEN h + i - 1 ELSE (h + i - 1) - c
    BY <2>2, Around
  <2>4. QED
    BY <1>2, <2>3
<1>7. \A i \in 1..k : (h + i - 1) % c \in 0..n
  BY <1>2, <1>4, <1>6
<1>8. Contents(q) \in Seq(Int) /\ Len(Contents(q)) = k
  <2>1. \A i \in 1..k : q.elem[(h + i - 1) % c] \in Int
    BY <1>1, <1>7
  <2>2. Contents(q) = [i \in 1..k |-> q.elem[(h + i - 1) % c]]
    BY <1>2, <1>4 DEF Contents
  <2> DEFINE v(i) == q.elem[(h + i - 1) % c]
  <2>3. /\ \A i \in 1..k : v(i) \in Int
        /\ Contents(q) = [i \in 1..k |-> v(i)] /\ k \in Nat
    BY <2>1, <2>2
  <2> HIDE DEF v
  <2>4. QED
    BY <2>3
<1>9. QED
  BY <1>2, <1>3, <1>4, <1>5, <1>6, <1>8

\* A pop takes the first element.
LEMMA RingPop ==
  ASSUME NEW n \in Nat, NEW q \in Rings(n), ~CqEmpty(q)
  PROVE  /\ CqPopFront(q) \in Rings(n) /\ Contents(q) # <<>>
         /\ CqFront(q) = Head(Contents(q)) /\ Contents(CqPopFront(q)) = Tail(Contents(q))
<1> DEFINE p == CqPopFront(q)
<1>1. PICK h \in 0..n, t \in 0..n : h = q.head /\ t = q.tail
  BY RingSlots
<1>2. PICK g \in 0..n : g = (IF h = n THEN 0 ELSE h + 1) /\ g = CqNext(q, h)
  BY <1>1, RingSlots
<1>3. /\ p \in Rings(n) /\ p.head = g /\ p.tail = t /\ h # t
      /\ \A i \in 0..n : i # h => p.elem[i] = q.elem[i]
  <2>1. h # t
    BY <1>1 DEF CqEmpty
  <2>2. q \in [cap : {n + 1}, head : 0..n, tail : 0..n, elem : [0..n -> Int]]
    BY DEF Rings
  <2>3. PICK e \in [0..n -> Int] : e = [q.elem EXCEPT ![h] = 0] /\ \A i \in 0..n : i # h => e[i] = q.elem[i]
    <3>1. q.elem \in [0..n -> Int] /\ 0 \in Int
      BY <2>2
    <3>2. [q.elem EXCEPT ![h] = 0] \in [0..n -> Int]
      BY <3>1
    <3>3. \A i \in 0..n : i # h => [q.elem EXCEPT ![h] = 0][i] = q.elem[i]
      BY <3>1
    <3>4. QED
      BY <3>2, <3>3
  <2>4. p = [q EXCEPT !.elem = e, !.head = g]
    BY <1>1, <1>2, <2>3 DEF CqPopFront, CqEmpty, Raw
  <2>5. [q EXCEPT !.elem = e, !.head = g] \in Rings(n)
    BY <2>2 DEF Rings
  <2>6. p.head = g /\ p.tail = t /\ p.elem = e
    BY <1>1, <2>2, <2>4
  <2>7. QED
    BY <2>1, <2>3, <2>4, <2>5, <2>6
<1> HIDE DEF p
<1>4. /\ q.cap = n + 1 /\ p.cap = n + 1
      /\ CqSize(q) = IF t >= h THEN t - h ELSE n + 1 + t - h
      /\ CqSize(p) = IF t >= g THEN t - g ELSE n + 1 + t - g
  BY <1>1, <1>3, RingSlots
<1>5. CqSize(p) = CqSize(q) - 1 /\ CqSize(q) \in 1..n
  BY <1>1, <1>2, <1>3, <1>4
<1>6. PICK k \in 1..n : k = CqSize(q)
  BY <1>5
<1>7. /\ Contents(q) \in Seq(Int) /\ Len(Contents(q)) = k
      /\ Contents(p) \in Seq(Int) /\ Len(Contents(p)) = k - 1
  BY <1>3, <1>5, <1>6, RingSlots
<1>8. \A i \in 1..k :
        Contents(q)[i] = q.elem[IF h + i - 1 <= n THEN h + i - 1 ELSE h + i - n - 2]
  BY <1>1, <1>6, RingSlots DEF Contents
<1>9. \A i \in 1..k - 1 :
        Contents(p)[i] = p.elem[IF g + i - 1 <= n THEN g + i - 1 ELSE g + i - n - 2]
  BY <1>3, <1>5, <1>6, RingSlots, ZenonT(30) DEF Contents
<1>10. \A i \in 1..k - 1 : Contents(p)[i] = Contents(q)[i + 1]
  <2>1. TAKE i \in 1..k - 1
  <2>2. PICK x \in 0..n : x = IF h + i <= n THEN h + i ELSE h + i - n - 1
    <3>1. i \in Int /\ 1 <= i /\ i <= n - 1
      BY <1>6
    <3>2. CASE h + i <= n
      BY <3>1, <3>2
    <3>3. CASE h + i > n
      <4>1. h + i - n - 1 \in 0..n
        BY <3>1, <3>3
      <4>2. QED
        BY <3>1, <3>3, <4>1
    <3>4. QED
      BY <3>1, <3>2, <3>3
  <2>3. x = IF g + i - 1 <= n THEN g + i - 1 ELSE g + i - n - 2
    BY <1>2, <2>2
  <2>4. x # h
    BY <1>6, <2>2
  <2>5. Contents(p)[i] = p.elem[x]
    BY <1>9, <2>3
  <2>6. Contents(q)[i + 1] = q.elem[x]
    <3>1. i + 1 \in 1..k
      BY <1>6
    <3>2. x = IF h + (i + 1) - 1 <= n THEN h + (i + 1) - 1 ELSE h + (i + 1) - n - 2
      BY <1>6, <2>2
    <3>3. QED
      BY <1>8, <3>1, <3>2
  <2>7. QED
    BY <1>3, <2>4, <2>5, <2>6
<1>11. Contents(q) # <<>>
  BY <1>6, <1>7
<1>12. CqFront(q) = Head(Contents(q))
  <2>1. Head(Contents(q)) = Contents(q)[1]
    BY <1>7, <1>11
  <2>2. Contents(q)[1] = q.elem[h]
    BY <1>6, <1>8
  <2>3. QED
    BY <1>1, <2>1, <2>2 DEF CqFront
<1>13. Contents(p) = Tail(Contents(q))
  <2> DEFINE a == Contents(q) b == Contents(p)
  <2>1. /\ Tail(a) \in Seq(Int) /\ Len(Tail(a)) = k - 1
        /\ \A i \in 1..k - 1 : Tail(a)[i] = a[i + 1]
    BY <1>7, <1>11, HeadTailProperties
  <2>2. b \in Seq(Int) /\ Len(b) = k - 1 /\ \A i \in 1..k - 1 : b[i] = a[i + 1]
    BY <1>7, <1>10
  <2> HIDE DEF a, b
  <2>3. b = Tail(a)
    BY <1>6, <2>1, <2>2, SeqEqual
  <2>4. QED
    BY <2>3 DEF a, b
<1>14. QED
  BY <1>3, <1>11, <1>12, <1>13 DEF p

\* A push to a ring with room puts the element behind the last one.
LEMMA RingPush ==
  ASSUME NEW n \in Nat, NEW q \in Rings(n), NEW x \in Int, ~CqFull(q)
  PROVE  /\ CqPushBack(q, x) \in Rings(n)
         /\ Contents(CqPushBack(q, x)) = Append(Contents(q), x)
<1> DEFINE p == CqPushBack(q, x)
<1>1. PICK h \in 0..n, t \in 0..n : h = q.head /\ t = q.tail
  BY RingSlots
<1>2. PICK g \in 0..n : g = (IF t = n THEN 0 ELSE t + 1) /\ g = CqNext(q, t)
  BY <1>1, RingSlots
<1>3. /\ p \in Rings(n) /\ p.head = h /\ p.tail = g
      /\ \A i \in 0..n : i # t => p.elem[i] = q.elem[i]
      /\ p.elem[t] = x
  BY <1>1, <1>2 DEF CqPushBack, Rings
<1> HIDE DEF p
<1>4. /\ q.cap = n + 1 /\ p.cap = n + 1
      /\ CqSize(q) = IF t >= h THEN t - h ELSE n + 1 + t - h
      /\ CqSize(p) = IF g >= h THEN g - h ELSE n + 1 + g - h
      /\ CqSize(q) # n
  <2>1. q.cap = n + 1 /\ CqSize(q) = IF t >= h THEN t - h ELSE n + 1 + t - h
    BY <1>1, RingSlots
  <2>2. p.cap = n + 1 /\ CqSize(p) = IF g >= h THEN g - h ELSE n + 1 + g - h
    BY <1>3, RingSlots
  <2>3. CqSize(q) # n
    BY <2>1 DEF CqFull
  <2>4. QED
    BY <2>1, <2>2, <2>3
<1>5. CqSize(p) = CqSize(q) + 1 /\ CqSize(q) \in 0..n - 1
  BY <1>1, <1>2, <1>3, <1>4
<1>6. PICK k \in 0..n - 1 : k = CqSize(q)
  BY <1>5
<1>7. /\ Contents(q) \in Seq(Int) /\ Len(Contents(q)) = k
      /\ Contents(p) \in Seq(Int) /\ Len(Contents(p)) = k + 1
  BY <1>3, <1>5, <1>6, RingSlots
<1>8. \A i \in 1..k :
        Contents(q)[i] = q.elem[IF h + i - 1 <= n THEN h + i - 1 ELSE h + i - n - 2]
  BY <1>1, <1>6, RingSlots DEF Contents
<1>9. \A i \in 1..k + 1 :
        Contents(p)[i] = p.elem[IF h + i - 1 <= n THEN h + i - 1 ELSE h + i - n - 2]
  <2>1. CqSize(p) = k + 1 /\ p.head = h /\ p \in Rings(n)
    BY <1>3, <1>5, <1>6
  <2>2. \A i \in 1..k + 1 :
          (h + i - 1) % p.cap = IF h + i - 1 <= n THEN h + i - 1 ELSE h + i - n - 2
    BY <2>1, RingSlots
  <2>3. Contents(p) = [i \in 1..k + 1 |-> p.elem[(h + i - 1) % p.cap]]
    BY <2>1 DEF Contents
  <2>4. TAKE i \in 1..k + 1
  <2>5. Contents(p)[i] = p.elem[(h + i - 1) % p.cap]
    BY <2>3
  <2>6. QED
    BY <2>2, <2>5
<1>10. \A i \in 1..k : Contents(p)[i] = Contents(q)[i]
  <2>1. TAKE i \in 1..k
  <2>2. PICK y \in 0..n : y = IF h + i - 1 <= n THEN h + i - 1 ELSE h + i - n - 2
    <3>1. i \in Int /\ 1 <= i /\ i <= n - 1
      BY <1>6
    <3>2. CASE h + i - 1 <= n
      BY <3>1, <3>2
    <3>3. CASE h + i - 1 > n
      <4>1. h + i - n - 2 \in 0..n
        BY <3>1, <3>3
      <4>2. QED
        BY <3>1, <3>3, <4>1
    <3>4. QED
      BY <3>1, <3>2, <3>3
  <2>3. y # t
    BY <1>4, <1>6, <2>2
  <2>4. QED
    BY <1>3, <1>6, <1>8, <1>9, <2>2, <2>3
<1>11. Contents(p)[k + 1] = x
  <2>1. t = IF h + (k + 1) - 1 <= n THEN h + (k + 1) - 1 ELSE h + (k + 1) - n - 2
    BY <1>4, <1>6
  <2>2. QED
    BY <1>3, <1>6, <1>9, <2>1
<1>12. Contents(p) = Append(Contents(q), x)
  <2> DEFINE a == Contents(q) b == Contents(p)
  <2>1. /\ Append(a, x) \in Seq(Int) /\ Len(Append(a, x)) = k + 1
        /\ \A i \in 1..k : Append(a, x)[i] = a[i]
        /\ Append(a, x)[k + 1] = x
    BY <1>7, AppendProperties
  <2>2. /\ b \in Seq(Int) /\ Len(b) = k + 1 /\ \A i \in 1..k : b[i] = a[i]
        /\ b[k + 1] = x
    BY <1>7, <1>10, <1>11
  <2> HIDE DEF a, b
  <2>3. \A i \in 1..k + 1 : b[i] = Append(a, x)[i]
    BY <1>6, <2>1, <2>2
  <2>4. b = Append(a, x)
    BY <2>1, <2>2, <2>3, SeqEqual
  <2>5. QED
    BY <2>4 DEF a, b
<1>13. QED
  BY <1>3, <1>12 DEF p

-----------------------------------------------------------------------------
(* The lists of ids.                                                       *)

\* A set of numbers has a least one.
LEMMA LeastOf ==
  ASSUME NEW T \in SUBSET Nat, T # {}
  PROVE  \E x \in T : \A y \in T : x <= y
<1>1. PICK x \in T : \A y \in T : ~ (<<y, x>> \in OpToRel(<, Nat))
  BY WFMin, NatLessThanWellFounded
<1>2. \A y \in T : ~ (y < x)
  BY <1>1 DEF OpToRel
<1>3. QED
  BY <1>2

\* The values of a list are those of the nodes along its chain.
LEMMA ValuesAlong ==
  ASSUME NEW m \in Memory, NEW l \in Lists, NEW path, IsChain(m, l, path)
  PROVE  /\ Values(m, l) = [k \in 1..l.count |-> m[path[k]].val]
         /\ Values(m, l) \in Seq(Int) /\ Len(Values(m, l)) = l.count
<1> DEFINE n == l.count
           Follows(f) == f = [k \in 1..n |-> IF k = 1 THEN l.head ELSE m[f[k - 1]].next]
<1>1. n \in Nat /\ path \in [1..n -> Addresses]
  BY DEF Lists, IsChain
<1>2. Follows(path)
  <2>1. \A k \in 1..n : path[k] = IF k = 1 THEN l.head ELSE m[path[k - 1]].next
    BY <1>1 DEF IsChain
  <2>2. QED
    BY <1>1, <2>1
<1>3. ASSUME NEW f, Follows(f) PROVE f = path
  <2>1. \A k \in 1..n : f[k] = IF k = 1 THEN l.head ELSE m[f[k - 1]].next
    BY <1>3
  <2>2. \A k \in 1..n : path[k] = IF k = 1 THEN l.head ELSE m[path[k - 1]].next
    BY <1>2
  <2> DEFINE T == {k \in 1..n : f[k] # path[k]}
  <2>3. CASE T # {}
    <3>1. T \in SUBSET Nat
      BY <1>1
    <3> HIDE DEF T
    <3>2. PICK x \in T : \A y \in T : x <= y
      BY <2>3, <3>1, LeastOf
    <3> USE DEF T
    <3>3. x \in 1..n /\ (x = 1 \/ (x - 1 \in 1..n /\ x - 1 \notin T))
      BY <1>1, <3>2
    <3>4. f[x] = path[x]
      BY <2>1, <2>2, <3>3
    <3>5. QED
      BY <3>2, <3>4
  <2>4. CASE T = {}
    <3>1. \A k \in 1..n : f[k] = path[k]
      BY <2>4
    <3>2. f = [k \in 1..n |-> f[k]]
      BY <1>3
    <3>3. QED
      BY <1>1, <3>1, <3>2
  <2>5. QED
    BY <2>3, <2>4
<1>4. (CHOOSE f : Follows(f)) = path
  <2> HIDE DEF Follows
  <2>1. QED
    BY <1>2, <1>3
<1> DEFINE node == CHOOSE f : Follows(f)
<1>5. Values(m, l) = [k \in 1..l.count |-> m[node[k]].val]
  BY DEF Values
<1> HIDE DEF Follows, node
<1>6. Values(m, l) = [k \in 1..n |-> m[path[k]].val]
  BY <1>4, <1>5 DEF node
<1>7. \A k \in 1..n : m[path[k]].val \in Int
  BY <1>1 DEF Memory
<1>8. QED
  BY <1>1, <1>6, <1>7

\* A chain whose nodes a step does not touch stays what it is.
LEMMA ChainAside ==
  ASSUME NEW m \in Memory, NEW w \in Memory, NEW l \in Lists, NEW path,
         IsChain(m, l, path), \A k \in 1..l.count : w[path[k]] = m[path[k]]
  PROVE  IsChain(w, l, path) /\ Values(w, l) = Values(m, l)
<1>1. IsChain(w, l, path)
  BY DEF IsChain
<1>2. \A k \in 1..l.count : w[path[k]].val = m[path[k]].val
  OBVIOUS
<1>3. /\ Values(m, l) = [k \in 1..l.count |-> m[path[k]].val]
      /\ Values(w, l) = [k \in 1..l.count |-> w[path[k]].val]
  BY <1>1, ValuesAlong
<1>4. QED
  BY <1>1, <1>2, <1>3

\* The ends of a chain.
LEMMA ChainEnds ==
  ASSUME NEW m \in Memory, NEW l \in Lists, NEW path, IsChain(m, l, path)
  PROVE  /\ l.count \in Nat /\ \A k \in 1..l.count : path[k] \in Addresses /\ path[k] \in Nat \ {0}
         /\ l.head = Null <=> l.count = 0
         /\ l.tail = Null <=> l.count = 0
         /\ l.count > 0 => l.head = path[1] /\ l.tail = path[l.count]
<1>1. l.count \in Nat /\ \A k \in 1..l.count : path[k] \in Addresses /\ path[k] \in Nat \ {0}
  BY AddressesAssumption DEF IsChain, Lists
<1>2. CASE l.count = 0
  BY <1>1, <1>2 DEF IsChain, Null
<1>3. CASE l.count > 0
  <2>1. path[1] # 0 /\ path[l.count] # 0
    BY <1>1, <1>3
  <2>2. l.head = path[1] /\ l.tail = path[l.count]
    BY <1>1, <1>3 DEF IsChain
  <2>3. QED
    BY <1>1, <1>3, <2>1, <2>2 DEF Null
<1>4. QED
  BY <1>1, <1>2, <1>3

\* A pop takes the first node and its value.
LEMMA ChainPop ==
  ASSUME NEW m \in Memory, NEW l \in Lists, NEW path, IsChain(m, l, path), l.count > 0
  PROVE  LET r == PopFront(m, l)
             rest == [k \in 1..l.count - 1 |-> path[k + 1]]
         IN  /\ r.mem \in Memory /\ r.list \in Lists /\ r.list.count = l.count - 1
             /\ r.mem = [m EXCEPT ![path[1]] = Free]
             /\ rest \in [1..r.list.count -> Addresses] /\ IsChain(r.mem, r.list, rest)
             /\ Values(m, l) # <<>> /\ Front(m, l) = Head(Values(m, l))
             /\ Values(r.mem, r.list) = Tail(Values(m, l))
<1> DEFINE r == PopFront(m, l)
           rest == [k \in 1..l.count - 1 |-> path[k + 1]]
           w == [m EXCEPT ![path[1]] = Free]
           o == [head |-> m[l.head].next, tail |-> IF l.head = l.tail THEN m[l.head].next ELSE l.tail,
                 count |-> l.count - 1]
<1>1. /\ l.count \in Nat \ {0} /\ \A k \in 1..l.count : path[k] \in Addresses /\ path[k] \in Nat \ {0}
      /\ l.head = path[1] /\ l.tail = path[l.count] /\ l.head # Null
  BY ChainEnds
<1>2. \A k \in 1..l.count :
        m[path[k]].used /\ m[path[k]].next = IF k = l.count THEN Null ELSE path[k + 1]
  BY DEF IsChain
<1>3. \A i, k \in 1..l.count : path[i] = path[k] => i = k
  BY DEF IsChain
<1>4. r.mem = w /\ r.list = o
  BY <1>1 DEF PopFront
<1>5. Free \in [used : BOOLEAN, val : Int, next : Nat]
  BY DEF Free, Null
<1>6. w \in Memory /\ \A a \in Addresses : w[a] = IF a = path[1] THEN Free ELSE m[a]
  BY <1>5 DEF Memory
<1>7. o.head = IF l.count = 1 THEN Null ELSE path[2]
  BY <1>1, <1>2
<1>8. o.tail = IF l.count = 1 THEN Null ELSE path[l.count]
  <2>1. l.head = l.tail <=> l.count = 1
    BY <1>1, <1>3
  <2>2. QED
    BY <1>1, <1>2, <2>1
<1>9. o.count = l.count - 1 /\ o.head \in Nat /\ o.tail \in Nat /\ o \in Lists
  <2>1. o.head \in Nat /\ o.tail \in Nat
    BY <1>1, <1>7, <1>8 DEF Null
  <2>2. QED
    BY <1>1, <2>1 DEF Lists
<1>10. rest \in [1..o.count -> Addresses]
  BY <1>1, <1>9
<1>11. IsChain(w, o, rest)
  <2> HIDE DEF w, o
  <2>1. \A k \in 1..o.count : rest[k] = path[k + 1] /\ k + 1 \in 1..l.count /\ w[rest[k]] = m[path[k + 1]]
    <3>1. TAKE k \in 1..o.count
    <3>2. rest[k] = path[k + 1] /\ k + 1 \in 1..l.count
      BY <1>1, <1>9
    <3>3. path[k + 1] # path[1]
      BY <1>1, <1>3, <1>9, <3>2
    <3>4. QED
      BY <1>1, <1>6, <3>2, <3>3
  <2> HIDE DEF rest
  <2>2. \A k \in 1..o.count :
          w[rest[k]].used /\ w[rest[k]].next = IF k = o.count THEN Null ELSE rest[k + 1]
    BY <1>1, <1>2, <1>9, <2>1
  <2>3. \A i, k \in 1..o.count : rest[i] = rest[k] => i = k
    BY <1>1, <1>3, <1>9, <2>1
  <2>4. o.head = IF o.count = 0 THEN Null ELSE rest[1]
    BY <1>1, <1>7, <1>9, <2>1
  <2>5. o.tail = IF o.count = 0 THEN Null ELSE rest[o.count]
    BY <1>1, <1>8, <1>9, <2>1
  <2>6. QED
    BY <1>10, <2>2, <2>3, <2>4, <2>5 DEF IsChain
<1>12. /\ Values(m, l) = [k \in 1..l.count |-> m[path[k]].val]
       /\ Values(m, l) \in Seq(Int) /\ Len(Values(m, l)) = l.count
  BY ValuesAlong
<1>13. /\ Values(w, o) = [k \in 1..o.count |-> w[rest[k]].val]
       /\ Values(w, o) \in Seq(Int) /\ Len(Values(w, o)) = o.count
  <2> HIDE DEF w, o, rest
  <2>1. QED
    BY <1>6, <1>9, <1>11, ValuesAlong
<1>14. Values(m, l) # <<>> /\ Front(m, l) = Head(Values(m, l))
  <2>1. Values(m, l) # <<>>
    BY <1>1, <1>12
  <2>2. Values(m, l)[1] = m[l.head].val
    BY <1>1, <1>12
  <2>3. QED
    BY <2>1, <2>2, <1>12 DEF Front
<1>15. Values(w, o) = Tail(Values(m, l))
  <2> DEFINE a == Values(m, l) b == Values(w, o)
  <2>1. \A k \in 1..o.count : b[k] = a[k + 1]
    <3>1. TAKE k \in 1..o.count
    <3>2. k + 1 \in 1..l.count /\ path[k + 1] # path[1] /\ rest[k] = path[k + 1]
      BY <1>1, <1>3, <1>9
    <3>3. w[rest[k]] = m[path[k + 1]]
      BY <1>1, <1>6, <3>2
    <3>4. b[k] = w[rest[k]].val /\ a[k + 1] = m[path[k + 1]].val
      BY <1>12, <1>13, <3>2
    <3>5. QED
      BY <3>3, <3>4
  <2>2. a \in Seq(Int) /\ a # <<>> /\ b \in Seq(Int) /\ Len(b) = Len(a) - 1 /\ o.count = Len(b)
    BY <1>9, <1>12, <1>13, <1>14
  <2> HIDE DEF a, b
  <2>3. /\ Tail(a) \in Seq(Int) /\ Len(Tail(a)) = Len(a) - 1
        /\ \A k \in 1..Len(Tail(a)) : Tail(a)[k] = a[k + 1]
    BY <2>2, HeadTailProperties
  <2>4. b = Tail(a)
    BY <2>1, <2>2, <2>3, SeqEqual
  <2>5. QED
    BY <2>4 DEF a, b
<1>16. QED
  BY <1>4, <1>6, <1>9, <1>10, <1>11, <1>14, <1>15

\* A push puts a node that was free, and its value, behind the last one.
LEMMA ChainPush ==
  ASSUME NEW m \in Memory, NEW l \in Lists, NEW path, IsChain(m, l, path),
         NEW x \in Int, CanPush(m)
  PROVE  LET r == PushBack(m, l, x)
             a == FreshAddress(m)
             longer == [k \in 1..l.count + 1 |-> IF k = l.count + 1 THEN a ELSE path[k]]
         IN  /\ r.mem \in Memory /\ r.list \in Lists /\ r.list.count = l.count + 1
             /\ a \in Addresses /\ ~m[a].used
             /\ \A b \in Addresses : b # a /\ b # l.tail => r.mem[b] = m[b]
             /\ longer \in [1..r.list.count -> Addresses] /\ IsChain(r.mem, r.list, longer)
             /\ Values(r.mem, r.list) = Append(Values(m, l), x)
<1> DEFINE r == PushBack(m, l, x)
           a == FreshAddress(m)
           longer == [k \in 1..l.count + 1 |-> IF k = l.count + 1 THEN a ELSE path[k]]
           v == [m EXCEPT ![a] = [used |-> TRUE, val |-> x, next |-> Null]]
           w == IF l.tail = Null THEN v ELSE [v EXCEPT ![l.tail].next = a]
           o == [head |-> IF l.head = Null THEN a ELSE l.head, tail |-> a, count |-> l.count + 1]
<1>1. a \in Addresses /\ ~m[a].used /\ a \in Nat \ {0}
  <2> DEFINE T == {b \in Addresses : ~m[b].used}
  <2>1. T \in SUBSET Nat /\ T # {}
    BY AddressesAssumption DEF CanPush
  <2> HIDE DEF T
  <2>2. PICK b \in T : \A y \in T : b <= y
    BY <2>1, LeastOf
  <2> USE DEF T
  <2>3. \E c \in Addresses : ~m[c].used /\ \A y \in Addresses : m[y].used \/ c <= y
    BY <2>2
  <2>4. QED
    BY <2>3, AddressesAssumption DEF FreshAddress
<1> HIDE DEF a
<1>2. /\ l.count \in Nat /\ \A k \in 1..l.count : path[k] \in Addresses /\ path[k] \in Nat \ {0}
      /\ l.head = Null <=> l.count = 0
      /\ l.tail = Null <=> l.count = 0
      /\ l.count > 0 => l.head = path[1] /\ l.tail = path[l.count]
  BY ChainEnds
<1>3. \A k \in 1..l.count :
        m[path[k]].used /\ m[path[k]].next = IF k = l.count THEN Null ELSE path[k + 1]
  BY DEF IsChain
<1>4. \A i, k \in 1..l.count : path[i] = path[k] => i = k
  BY DEF IsChain
<1>5. \A k \in 1..l.count : path[k] # a
  BY <1>1, <1>3
<1>6. r.mem = w /\ r.list = o
  BY DEF PushBack, a
<1>7. /\ v \in Memory /\ v[a] = [used |-> TRUE, val |-> x, next |-> Null]
      /\ \A b \in Addresses : b # a => v[b] = m[b]
  <2>1. [used |-> TRUE, val |-> x, next |-> Null] \in [used : BOOLEAN, val : Int, next : Nat]
    BY DEF Null
  <2>2. QED
    BY <1>1, <2>1 DEF Memory
<1> HIDE DEF v
<1>8. \A c \in Addresses : \A n \in Nat : \A u \in Memory :
        /\ [u EXCEPT ![c].next = n] \in Memory
        /\ [u EXCEPT ![c].next = n][c] = [u[c] EXCEPT !.next = n]
        /\ \A b \in Addresses : b # c => [u EXCEPT ![c].next = n][b] = u[b]
  <2>1. \A c \in Addresses : \A n \in Nat : \A u \in Memory :
          [u[c] EXCEPT !.next = n] \in [used : BOOLEAN, val : Int, next : Nat]
    BY DEF Memory
  <2>2. QED
    BY <2>1 DEF Memory
<1>9. /\ w \in Memory /\ w[a].used /\ w[a].val = x /\ w[a].next = Null
      /\ \A b \in Addresses : b # a /\ b # l.tail => w[b] = m[b]
      /\ l.count > 0 => /\ w[l.tail].used = m[l.tail].used /\ w[l.tail].val = m[l.tail].val
                        /\ w[l.tail].next = a
  <2>1. CASE l.count = 0
    BY <1>2, <1>7, <2>1
  <2>2. CASE l.count > 0
    <3>1. l.tail \in Addresses /\ l.tail # a /\ w = [v EXCEPT ![l.tail].next = a]
      BY <1>2, <1>5, <2>2
    <3>2. /\ w \in Memory /\ w[l.tail] = [v[l.tail] EXCEPT !.next = a]
          /\ \A b \in Addresses : b # l.tail => w[b] = v[b]
      BY <1>1, <1>7, <1>8, <3>1
    <3>3. v[l.tail] = m[l.tail] /\ m[l.tail] \in [used : BOOLEAN, val : Int, next : Nat]
      BY <1>7, <3>1 DEF Memory
    <3> HIDE DEF w
    <3>4. /\ w[l.tail].used = m[l.tail].used /\ w[l.tail].val = m[l.tail].val
          /\ w[l.tail].next = a
      BY <3>2, <3>3
    <3>5. QED
      BY <1>1, <1>7, <3>1, <3>2, <3>4
  <2>3. QED
    BY <1>2, <2>1, <2>2
<1> HIDE DEF w
<1>10. /\ o.count = l.count + 1 /\ o.tail = a /\ o \in Lists
       /\ o.head = IF l.count = 0 THEN a ELSE path[1]
  <2>1. l.head \in Nat
    BY DEF Lists
  <2>2. QED
    BY <1>1, <1>2, <2>1 DEF Lists
<1> HIDE DEF o
<1>11. /\ longer \in [1..o.count -> Addresses] /\ longer[l.count + 1] = a
       /\ \A k \in 1..l.count : longer[k] = path[k]
  BY <1>1, <1>2, <1>10
<1> HIDE DEF longer
<1>12. \A k \in 1..l.count : k < l.count => w[path[k]] = m[path[k]]
  BY <1>2, <1>4, <1>5, <1>9
<1>13. IsChain(w, o, longer)
  <2>1. \A k \in 1..o.count :
          w[longer[k]].used /\ w[longer[k]].next = IF k = o.count THEN Null ELSE longer[k + 1]
    <3>1. TAKE k \in 1..o.count
    <3>2. CASE k = l.count + 1
      BY <1>9, <1>10, <1>11, <3>2
    <3>3. CASE k = l.count
      BY <1>2, <1>3, <1>9, <1>10, <1>11, <3>3
    <3>4. CASE k < l.count
      BY <1>2, <1>3, <1>10, <1>11, <1>12, <3>4
    <3>5. QED
      BY <1>2, <1>10, <3>2, <3>3, <3>4
  <2>2. \A i, k \in 1..o.count : longer[i] = longer[k] => i = k
    <3>1. TAKE i, k \in 1..o.count
    <3>2. i \in 1..l.count \/ i = l.count + 1
      BY <1>2, <1>10
    <3>3. k \in 1..l.count \/ k = l.count + 1
      BY <1>2, <1>10
    <3>4. QED
      BY <1>4, <1>5, <1>11, <3>2, <3>3
  <2>3. o.head = IF o.count = 0 THEN Null ELSE longer[1]
    BY <1>2, <1>10, <1>11
  <2>4. o.tail = IF o.count = 0 THEN Null ELSE longer[o.count]
    BY <1>2, <1>10, <1>11
  <2>5. QED
    BY <1>11, <2>1, <2>2, <2>3, <2>4 DEF IsChain
<1>14. /\ Values(m, l) = [k \in 1..l.count |-> m[path[k]].val]
       /\ Values(m, l) \in Seq(Int) /\ Len(Values(m, l)) = l.count
  BY ValuesAlong
<1>15. /\ Values(w, o) = [k \in 1..o.count |-> w[longer[k]].val]
       /\ Values(w, o) \in Seq(Int) /\ Len(Values(w, o)) = o.count
  BY <1>9, <1>10, <1>13, ValuesAlong
<1>16. Values(w, o) = Append(Values(m, l), x)
  <2> DEFINE s == Values(m, l) t == Values(w, o)
  <2>1. \A k \in 1..l.count : t[k] = s[k]
    <3>1. TAKE k \in 1..l.count
    <3>2. t[k] = w[path[k]].val /\ s[k] = m[path[k]].val
      BY <1>2, <1>10, <1>11, <1>14, <1>15
    <3>3. CASE k < l.count
      BY <1>12, <3>2, <3>3
    <3>4. CASE k = l.count
      BY <1>2, <1>9, <3>2, <3>4
    <3>5. QED
      BY <1>2, <3>3, <3>4
  <2>2. t[l.count + 1] = x
    BY <1>2, <1>9, <1>10, <1>11, <1>15
  <2>3. s \in Seq(Int) /\ t \in Seq(Int) /\ Len(s) = l.count /\ Len(t) = l.count + 1
    BY <1>10, <1>14, <1>15
  <2> HIDE DEF s, t
  <2>4. /\ Append(s, x) \in Seq(Int) /\ Len(Append(s, x)) = l.count + 1
        /\ \A k \in 1..l.count : Append(s, x)[k] = s[k]
        /\ Append(s, x)[l.count + 1] = x
    BY <2>3, AppendProperties
  <2>5. \A k \in 1..l.count + 1 : t[k] = Append(s, x)[k]
    <3>1. \A k \in 1..l.count + 1 : k \in 1..l.count \/ k = l.count + 1
      BY <1>2
    <3>2. QED
      BY <2>1, <2>2, <2>4, <3>1
  <2>6. t = Append(s, x)
    BY <2>3, <2>4, <2>5, SeqEqual
  <2>7. QED
    BY <2>6 DEF s, t
<1>17. QED
  BY <1>1, <1>6, <1>9, <1>10, <1>11, <1>13, <1>16 DEF a, longer

-----------------------------------------------------------------------------
(* The queues of a thread, step by step.                                   *)

\* The two lists after a step that takes the other threads' ids.
LEMMA QueueTaken ==
  ASSUME QueueTypeOK, ChainsInv, tmp.count = 0,
         mem' = Join(mem, tmp, list).mem, tmp' = Join(mem, tmp, list).list,
         list' = Join(mem, tmp, list).rest, ring' = ring
  PROVE  /\ QueueTypeOK' /\ ChainsInv'
         /\ OwnIds' = OwnIds /\ BatchIds' = OtherIds /\ OtherIds' = <<>> /\ BatchIds = <<>>
<1>1. PICK s \in [1..tmp.count -> Addresses], t \in [1..list.count -> Addresses] :
        /\ IsChain(mem, tmp, s) /\ IsChain(mem, list, t)
        /\ \A i \in 1..tmp.count, k \in 1..list.count : s[i] # t[k]
  BY DEF ChainsInv
<1>2. mem \in Memory /\ list \in Lists /\ tmp \in Lists
  BY DEF QueueTypeOK
<1>3. tmp.tail = Null
  BY <1>1, <1>2, ChainEnds
<1>4. mem' = mem /\ list' = NewList
  BY <1>3 DEF Join
<1>5. tmp' = list
  <2>1. tmp' = [head |-> list.head, tail |-> list.tail, count |-> 0 + list.count]
    BY <1>3 DEF Join
  <2>2. QED
    BY <1>2, <2>1 DEF Lists
<1>6. NewList \in Lists /\ NewList.count = 0
  BY DEF NewList, Null, Lists
<1>7. QueueTypeOK'
  BY <1>2, <1>4, <1>5, <1>6 DEF QueueTypeOK
<1>8. PICK none \in [1..NewList.count -> Addresses] : IsChain(mem, NewList, none)
  <2> DEFINE none == [i \in 1..0 |-> 1]
  <2>1. none \in [1..NewList.count -> Addresses]
    BY <1>6
  <2>2. IsChain(mem, NewList, none)
    BY <1>6, <2>1 DEF IsChain, NewList
  <2> HIDE DEF none
  <2>3. QED
    BY <2>1, <2>2
<1>9. ChainsInv'
  <2>1. /\ t \in [1..tmp'.count -> Addresses] /\ none \in [1..list'.count -> Addresses]
        /\ IsChain(mem', tmp', t) /\ IsChain(mem', list', none)
        /\ \A i \in 1..tmp'.count, k \in 1..list'.count : t[i] # none[k]
    <3>1. t \in [1..tmp'.count -> Addresses] /\ none \in [1..list'.count -> Addresses]
      BY <1>1, <1>4, <1>5, <1>8
    <3>2. IsChain(mem', tmp', t) /\ IsChain(mem', list', none)
      BY <1>1, <1>4, <1>5, <1>8
    <3>3. list'.count = 0
      BY <1>4, <1>6
    <3>4. QED
      BY <3>1, <3>2, <3>3
  <2>2. QED
    BY ONLY <2>1 DEF ChainsInv
<1>10. Values(mem, NewList) \in Seq(Int) /\ Len(Values(mem, NewList)) = 0
  BY <1>2, <1>6, <1>8, ValuesAlong
<1>11. Values(mem, tmp) \in Seq(Int) /\ Len(Values(mem, tmp)) = 0
  BY <1>1, <1>2, ValuesAlong
<1>12. OwnIds' = OwnIds /\ BatchIds' = OtherIds /\ OtherIds' = <<>> /\ BatchIds = <<>>
  BY <1>4, <1>5, <1>10, <1>11, EmptySeq DEF OwnIds, BatchIds, OtherIds
<1>13. QED
  BY <1>7, <1>9, <1>12

\* The lists after the first of the taken ids was popped.
LEMMA QueuePopped ==
  ASSUME QueueTypeOK, ChainsInv, tmp.count > 0,
         mem' = PopFront(mem, tmp).mem, tmp' = PopFront(mem, tmp).list,
         list' = list, ring' = ring
  PROVE  /\ QueueTypeOK' /\ ChainsInv' /\ BatchIds # <<>> /\ Front(mem, tmp) = Head(BatchIds)
         /\ OwnIds' = OwnIds /\ BatchIds' = Tail(BatchIds) /\ OtherIds' = OtherIds
<1>1. PICK s \in [1..tmp.count -> Addresses], t \in [1..list.count -> Addresses] :
        /\ IsChain(mem, tmp, s) /\ IsChain(mem, list, t)
        /\ \A i \in 1..tmp.count, k \in 1..list.count : s[i] # t[k]
  BY DEF ChainsInv
<1>2. mem \in Memory /\ list \in Lists /\ tmp \in Lists
  BY DEF QueueTypeOK
<1> DEFINE rest == [k \in 1..tmp.count - 1 |-> s[k + 1]]
<1>3. /\ mem' \in Memory /\ tmp' \in Lists /\ tmp'.count = tmp.count - 1
      /\ mem' = [mem EXCEPT ![s[1]] = Free]
      /\ rest \in [1..tmp'.count -> Addresses] /\ IsChain(mem', tmp', rest)
      /\ Values(mem, tmp) # <<>> /\ Front(mem, tmp) = Head(Values(mem, tmp))
      /\ Values(mem', tmp') = Tail(Values(mem, tmp))
  <2>1. IsChain(mem, tmp, s) /\ mem \in Memory /\ tmp \in Lists /\ tmp.count > 0
    BY <1>1, <1>2
  <2> HIDE DEF rest
  <2> DEFINE w == PopFront(mem, tmp).mem o == PopFront(mem, tmp).list
  <2>2. /\ w \in Memory /\ o \in Lists /\ o.count = tmp.count - 1
        /\ w = [mem EXCEPT ![s[1]] = Free]
        /\ rest \in [1..o.count -> Addresses] /\ IsChain(w, o, rest)
        /\ Values(mem, tmp) # <<>> /\ Front(mem, tmp) = Head(Values(mem, tmp))
        /\ Values(w, o) = Tail(Values(mem, tmp))
    BY ONLY <2>1, ChainPop DEF rest
  <2>3. QED
    BY <2>2
<1>4. tmp.count \in Nat \ {0} /\ list.count \in Nat
  BY <1>2 DEF Lists
<1>5. \A k \in 1..list.count : mem'[t[k]] = mem[t[k]]
  <2>1. \A k \in 1..list.count : t[k] \in Addresses /\ s[1] # t[k]
    BY <1>1, <1>4
  <2>2. \A b \in Addresses : b # s[1] => mem'[b] = mem[b]
    BY <1>2, <1>3 DEF Memory
  <2>3. QED
    BY <2>1, <2>2
<1>6. IsChain(mem', list, t) /\ Values(mem', list) = Values(mem, list)
  BY <1>1, <1>2, <1>3, <1>5, ChainAside
<1>7. \A i \in 1..tmp'.count, k \in 1..list.count : rest[i] # t[k]
  BY <1>1, <1>3, <1>4
<1> HIDE DEF rest
<1>8. ChainsInv'
  <2>1. /\ rest \in [1..tmp'.count -> Addresses] /\ t \in [1..list'.count -> Addresses]
        /\ IsChain(mem', tmp', rest) /\ IsChain(mem', list', t)
        /\ \A i \in 1..tmp'.count, k \in 1..list'.count : rest[i] # t[k]
    BY <1>1, <1>3, <1>6, <1>7
  <2>2. QED
    BY ONLY <2>1 DEF ChainsInv
<1>9. QueueTypeOK'
  BY <1>2, <1>3 DEF QueueTypeOK
<1>10. QED
  BY <1>3, <1>6, <1>8, <1>9 DEF OwnIds, BatchIds, OtherIds

\* The lists after another thread's push.
LEMMA QueuePushed ==
  ASSUME QueueTypeOK, ChainsInv, NEW x \in Int, CanPush(mem),
         mem' = PushBack(mem, list, x).mem, list' = PushBack(mem, list, x).list,
         tmp' = tmp, ring' = ring
  PROVE  /\ QueueTypeOK' /\ ChainsInv'
         /\ OwnIds' = OwnIds /\ BatchIds' = BatchIds /\ OtherIds' = Append(OtherIds, x)
<1>1. PICK s \in [1..tmp.count -> Addresses], t \in [1..list.count -> Addresses] :
        /\ IsChain(mem, tmp, s) /\ IsChain(mem, list, t)
        /\ \A i \in 1..tmp.count, k \in 1..list.count : s[i] # t[k]
  BY DEF ChainsInv
<1>2. mem \in Memory /\ list \in Lists /\ tmp \in Lists /\ list.count \in Nat
  BY DEF QueueTypeOK, Lists
<1> DEFINE a == FreshAddress(mem)
           longer == [k \in 1..list.count + 1 |-> IF k = list.count + 1 THEN a ELSE t[k]]
<1>3. /\ mem' \in Memory /\ list' \in Lists /\ list'.count = list.count + 1
      /\ a \in Addresses /\ ~mem[a].used
      /\ \A b \in Addresses : b # a /\ b # list.tail => mem'[b] = mem[b]
      /\ longer \in [1..list'.count -> Addresses] /\ IsChain(mem', list', longer)
      /\ Values(mem', list') = Append(Values(mem, list), x)
  BY <1>1, <1>2, ChainPush
<1>4. /\ list.tail = Null <=> list.count = 0
      /\ list.count > 0 => list.tail = t[list.count]
  BY <1>1, <1>2, ChainEnds
<1>5. \A k \in 1..tmp.count : s[k] \in Addresses /\ s[k] # 0 /\ mem[s[k]].used
  BY <1>1, AddressesAssumption DEF IsChain
<1>6. \A k \in 1..tmp.count : s[k] # a /\ s[k] # list.tail
  <2>1. TAKE k \in 1..tmp.count
  <2>2. s[k] # list.tail
    BY <1>1, <1>2, <1>4, <1>5 DEF Null
  <2>3. QED
    BY <1>3, <1>5, <2>2
<1>7. IsChain(mem', tmp, s) /\ Values(mem', tmp) = Values(mem, tmp)
  <2>1. \A k \in 1..tmp.count : mem'[s[k]] = mem[s[k]]
    BY <1>3, <1>5, <1>6
  <2>2. QED
    BY <1>1, <1>2, <1>3, <2>1, ChainAside
<1>8. \A i \in 1..tmp.count, k \in 1..list'.count : s[i] # longer[k]
  BY <1>1, <1>2, <1>3, <1>6
<1> HIDE DEF longer, a
<1>9. ChainsInv'
  <2>1. /\ s \in [1..tmp'.count -> Addresses] /\ longer \in [1..list'.count -> Addresses]
        /\ IsChain(mem', tmp', s) /\ IsChain(mem', list', longer)
        /\ \A i \in 1..tmp'.count, k \in 1..list'.count : s[i] # longer[k]
    BY <1>1, <1>3, <1>7, <1>8
  <2>2. QED
    BY ONLY <2>1 DEF ChainsInv
<1>10. QueueTypeOK'
  BY <1>2, <1>3 DEF QueueTypeOK
<1>11. QED
  BY <1>3, <1>7, <1>9, <1>10 DEF OwnIds, BatchIds, OtherIds

\* The queues are sequences.
LEMMA QueuesType ==
  ASSUME QueueTypeOK, ChainsInv
  PROVE  OwnIds \in Seq(Int) /\ BatchIds \in Seq(Int) /\ OtherIds \in Seq(Int)
<1>1. OwnIds \in Seq(Int)
  BY RingSlots, CapsAssumption DEF QueueTypeOK, OwnIds
<1>2. BatchIds \in Seq(Int) /\ OtherIds \in Seq(Int)
  BY ValuesAlong DEF QueueTypeOK, ChainsInv, BatchIds, OtherIds
<1>3. QED
  BY <1>1, <1>2

\* The lists are chains as long as nothing moves.
LEMMA ChainsAside ==
  ASSUME ChainsInv, mem' = mem, list' = list, tmp' = tmp
  PROVE  ChainsInv'
<1>1. PICK s \in [1..tmp.count -> Addresses], t \in [1..list.count -> Addresses] :
        /\ IsChain(mem, tmp, s) /\ IsChain(mem, list, t)
        /\ \A i \in 1..tmp.count, k \in 1..list.count : s[i] # t[k]
  BY DEF ChainsInv
<1>2. /\ s \in [1..tmp'.count -> Addresses] /\ t \in [1..list'.count -> Addresses]
      /\ IsChain(mem', tmp', s) /\ IsChain(mem', list', t)
      /\ \A i \in 1..tmp'.count, k \in 1..list'.count : s[i] # t[k]
  BY <1>1
<1>3. QED
  BY ONLY <1>2 DEF ChainsInv

\* A step that leaves the queues alone, and those who were woken.
LEMMA QueuesAside ==
  ASSUME QueueTypeOK, ChainsInv, QueueInv, UNCHANGED wakeVars,
         \A id \in Ids : WokenId(id) => WokenId(id)'
  PROVE  QueueTypeOK' /\ ChainsInv' /\ QueueInv'
<1>1. ring' = ring /\ mem' = mem /\ list' = list /\ tmp' = tmp
  BY DEF wakeVars
<1>2. QueueTypeOK' /\ ChainsInv'
  <2>1. ChainsInv'
    BY <1>1, ChainsAside
  <2>2. QED
    BY <1>1, <2>1 DEF QueueTypeOK
<1>3. OwnIds' = OwnIds /\ BatchIds' = BatchIds /\ OtherIds' = OtherIds
  BY <1>1 DEF OwnIds, BatchIds, OtherIds
<1>4. \A id : WokenId(id) => WokenId(id)'
  BY DEF WokenId
<1>5. QueueInv'
  BY <1>3, <1>4 DEF QueueInv
<1>6. QED
  BY <1>2, <1>5

-----------------------------------------------------------------------------
(* Vectors and ids.                                                        *)

\* There are as many ids as jobs, and None is not one of them.
LEMMA IdsFinite ==
  /\ Cardinality(Jobs) \in Nat /\ IsFiniteSet(Ids) /\ Cardinality(Ids) = Cardinality(Jobs)
  /\ Ids = 0..Cardinality(Jobs) - 1 /\ Ids \subseteq Nat /\ None \notin Ids
<1>1. Cardinality(Jobs) \in Nat
  BY JobsAssumption, FS_CardinalityType
<1>2. PICK n \in Nat : n = Cardinality(Jobs)
  BY <1>1
<1>3. Ids = 0..n - 1
  BY <1>2 DEF Ids
<1>4. IsFiniteSet(0..n - 1) /\ Cardinality(0..n - 1) = IF 0 > n - 1 THEN 0 ELSE (n - 1) - 0 + 1
  <2>1. n - 1 \in Int /\ 0 \in Int
    BY <1>2
  <2> HIDE DEF Ids
  <2>2. QED
    BY ONLY <2>1, FS_Interval
<1>5. QED
  BY <1>2, <1>3, <1>4 DEF None

\* An svector with room takes one more element.
LEMMA VectorPush ==
  ASSUME NEW v, VectorOK(v), Distinct(v.elem), NEW x \in Ids, x \notin SeqRange(v.elem)
  PROVE  /\ VectorOK(SvPushBack(v, x)) /\ Distinct(SvPushBack(v, x).elem)
         /\ SeqRange(SvPushBack(v, x).elem) = SeqRange(v.elem) \cup {x}
<1> DEFINE w == SvPushBack(v, x)
<1>1. /\ v.elem \in Seq(Ids) /\ v.cap = VecCap /\ v.alloc \in {VecCap, 2 * VecCap}
      /\ Len(v.elem) > VecCap => v.alloc = 2 * VecCap
  BY DEF VectorOK
<1>2. PICK s \in Seq(Ids) : s = v.elem
  BY <1>1
<1>3. /\ Append(s, x) \in Seq(Ids) /\ Distinct(Append(s, x))
      /\ SeqRange(Append(s, x)) = SeqRange(s) \cup {x}
  BY <1>2, DistinctAppend
<1>4. Len(Append(s, x)) = Len(s) + 1 /\ Len(s) \in Nat
  BY AppendProperties, LenProperties
<1>5. PICK k : k = IF Len(s) >= VecCap THEN 2 * VecCap ELSE v.alloc
  OBVIOUS
<1>6. w = [cap |-> VecCap, alloc |-> k, elem |-> Append(s, x)]
  <2>1. v = [cap |-> VecCap, alloc |-> v.alloc, elem |-> s]
    BY <1>1, <1>2 DEF VectorOK
  <2>2. w = [[v EXCEPT !.alloc = k] EXCEPT !.elem = Append(s, x)]
    BY <1>1, <1>2, <1>5 DEF SvPushBack, SvSize
  <2> HIDE DEF w
  <2>3. PICK a, e : a = v.alloc /\ e = Append(s, x)
    OBVIOUS
  <2>4. v = [cap |-> VecCap, alloc |-> a, elem |-> s]
    BY <2>1, <2>3
  <2>5. w = [[v EXCEPT !.alloc = k] EXCEPT !.elem = e]
    BY <2>2, <2>3
  <2>6. w = [cap |-> VecCap, alloc |-> k, elem |-> e]
    BY ONLY <2>4, <2>5
  <2>7. QED
    BY <2>3, <2>6
<1>7. k \in {VecCap, 2 * VecCap} /\ (Len(s) + 1 > VecCap => k = 2 * VecCap)
  BY <1>1, <1>4, <1>5, CapsAssumption
<1>8. VectorOK(w)
  BY <1>3, <1>4, <1>6, <1>7 DEF VectorOK
<1>9. QED
  BY <1>2, <1>3, <1>6, <1>8

\* An svector gives its last element back.
LEMMA VectorPop ==
  ASSUME NEW v, VectorOK(v), Distinct(v.elem), ~SvEmpty(v)
  PROVE  /\ SvBack(v) \in Ids /\ SvBack(v) \in SeqRange(v.elem)
         /\ VectorOK(SvPopBack(v)) /\ Distinct(SvPopBack(v).elem)
         /\ SeqRange(SvPopBack(v).elem) = SeqRange(v.elem) \ {SvBack(v)}
<1> DEFINE w == SvPopBack(v)
<1>1. /\ v.elem \in Seq(Ids) /\ v.cap = VecCap /\ v.alloc \in {VecCap, 2 * VecCap}
      /\ Len(v.elem) > VecCap => v.alloc = 2 * VecCap
  BY DEF VectorOK
<1>2. PICK s \in Seq(Ids) : s = v.elem
  BY <1>1
<1>3. Len(s) # 0 /\ Len(s) \in Nat /\ SvBack(v) = s[Len(s)]
  BY <1>2 DEF SvEmpty, SvSize, SvBack
<1>4. PICK t \in Seq(Ids) :
        /\ t = SubSeq(s, 1, Len(s) - 1) /\ Len(t) = Len(s) - 1 /\ Distinct(t)
        /\ SeqRange(t) = SeqRange(s) \ {s[Len(s)]}
        /\ s[Len(s)] \in SeqRange(s) /\ s[Len(s)] \in Ids
  BY <1>2, <1>3, DistinctFront, ZenonT(30)
<1>5. w = [cap |-> VecCap, alloc |-> v.alloc, elem |-> t]
  BY <1>1, <1>2, <1>3, <1>4 DEF SvPopBack, SvSize, SvEmpty, VectorOK
<1>6. VectorOK(w)
  BY <1>1, <1>2, <1>3, <1>4, <1>5, CapsAssumption DEF VectorOK
<1>7. QED
  BY <1>2, <1>3, <1>4, <1>5, <1>6

\* The jobs that have had a coroutine.
LEMMA JobsCounted ==
  ASSUME SchedTypeOK
  PROVE  /\ IsFiniteSet(loops) /\ IsFiniteSet(Started) /\ IsFiniteSet(Made)
         /\ Cardinality(loops) \in Nat /\ Cardinality(Started) \in Nat /\ Cardinality(Made) \in Nat
         /\ Cardinality(Started) + Cardinality(Made) <= Cardinality(Jobs)
         /\ \A j \in Jobs : j \notin Started \cup Made =>
              Cardinality(Started) + Cardinality(Made) <= Cardinality(Jobs) - 1
<1>1. /\ IsFiniteSet(loops) /\ IsFiniteSet(Started) /\ IsFiniteSet(Made)
  <2>1. loops \in SUBSET Ids
    BY DEF SchedTypeOK
  <2>2. Started \in SUBSET Jobs /\ Made \in SUBSET Jobs
    BY DEF Started, Made, Jobs
  <2>3. QED
    BY <2>1, <2>2, IdsFinite, FS_Subset, JobsAssumption
<1>2. Cardinality(loops) \in Nat /\ Cardinality(Started) \in Nat /\ Cardinality(Made) \in Nat
  BY <1>1, FS_CardinalityType
<1>3. Cardinality(Started \cup Made) = Cardinality(Started) + Cardinality(Made)
  <2>1. Started \cap Made = {}
    BY JobsAssumption DEF Started, Made
  <2>2. Cardinality(Started \cup Made) = Cardinality(Started) + Cardinality(Made) - Cardinality(Started \cap Made)
    BY <1>1, FS_Union
  <2>3. Cardinality(Started \cap Made) = 0
    BY <2>1, FS_EmptySet
  <2>4. QED
    BY <1>2, <2>2, <2>3
<1>4. Cardinality(Started \cup Made) <= Cardinality(Jobs)
  <2>1. Started \cup Made \in SUBSET Jobs
    BY DEF Started, Made, Jobs
  <2>2. QED
    BY <2>1, JobsAssumption, FS_Subset
<1>5. ASSUME NEW j \in Jobs, j \notin Started \cup Made
      PROVE  Cardinality(Started \cup Made) <= Cardinality(Jobs) - 1
  <2>1. /\ IsFiniteSet(Jobs \ {j}) /\ Cardinality(Jobs \ {j}) = Cardinality(Jobs) - 1
    BY JobsAssumption, FS_RemoveElement
  <2>2. Started \cup Made \in SUBSET (Jobs \ {j})
    BY <1>5 DEF Started, Made, Jobs
  <2>3. QED
    BY <2>1, <2>2, FS_Subset
<1>6. QED
  BY <1>1, <1>2, <1>3, <1>4, <1>5

\* A job that has had no coroutine gets an id that nobody has.
LEMMA FreshId ==
  ASSUME SchedTypeOK, AccountInv, CountInv, NEW j \in Jobs, j \notin Started \cup Made, AllocId
  PROVE  /\ NewId \in Ids /\ ~Pooled(NewId) /\ ~Busy(NewId) /\ NewId \notin loops
         /\ status[NewId] = "none" /\ NewId # curco
         /\ cap' \in Nat \ {0} /\ nco' \in Nat /\ nco' <= cap' /\ nco' <= nco + 1 /\ NewId < cap'
         /\ VectorOK(freeid)' /\ Distinct(freeid.elem)'
         /\ \A d \in Ids : /\ d < nco' <=> d < nco \/ d = NewId
                           /\ FreeId(d)' <=> FreeId(d) /\ d # NewId
<1>1. /\ nco \in Nat /\ cap \in Nat \ {0} /\ nco <= cap /\ VectorOK(freeid) /\ Distinct(freeid.elem)
      /\ \A d \in Ids : IdInv(d)
  BY DEF SchedTypeOK, AccountInv
<1>2. CASE SvEmpty(freeid)
  <2>1. NewId = nco /\ nco' = nco + 1 /\ freeid' = freeid /\ cap' = IF nco >= cap THEN 2 * cap ELSE cap
    BY <1>2 DEF AllocId, NewId
  <2>2. nco \in Ids
    <3>1. nco <= Cardinality(Started) + Cardinality(Made)
      BY <1>1, JobsCounted DEF CountInv
    <3>2. nco <= Cardinality(Jobs) - 1
      BY <1>1, <3>1, JobsCounted, IdsFinite
    <3>3. QED
      BY <1>1, <3>2, IdsFinite
  <2>3. ~FreeId(nco) /\ ~Pooled(nco) /\ ~Busy(nco) /\ nco \notin loops /\ status[nco] = "none" /\ nco # curco
    BY <1>1, <2>2 DEF IdInv
  <2>4. \A d \in Ids : d < nco' <=> d < nco \/ d = nco
    BY <1>1, <2>1, IdsFinite
  <2>5. \A d \in Ids : FreeId(d)' <=> FreeId(d) /\ d # nco
    BY <2>1, <2>3 DEF FreeId
  <2>6. cap' \in Nat \ {0} /\ nco' \in Nat /\ nco' <= cap' /\ nco' <= nco + 1 /\ nco < cap'
    BY <1>1, <2>1
  <2>7. VectorOK(freeid)' /\ Distinct(freeid.elem)'
    BY <1>1, <2>1
  <2>8. QED
    BY <2>1, <2>2, <2>3, <2>4, <2>5, <2>6, <2>7
<1>3. CASE ~SvEmpty(freeid)
  <2>1. NewId = SvBack(freeid) /\ nco' = nco /\ freeid' = SvPopBack(freeid) /\ cap' = cap
    BY <1>3 DEF AllocId, NewId
  <2>2. /\ NewId \in Ids /\ FreeId(NewId)
        /\ VectorOK(freeid') /\ Distinct(freeid'.elem)
        /\ SeqRange(freeid'.elem) = SeqRange(freeid.elem) \ {NewId}
    BY <1>1, <1>3, <2>1, VectorPop DEF FreeId
  <2>3. NewId < nco /\ ~Pooled(NewId) /\ ~Busy(NewId) /\ NewId \notin loops /\ status[NewId] = "none" /\ NewId # curco
    BY <1>1, <2>2 DEF IdInv
  <2>4. \A d \in Ids : FreeId(d)' <=> FreeId(d) /\ d # NewId
    BY <2>2 DEF FreeId
  <2>5. QED
    BY <1>1, <2>1, <2>2, <2>3, <2>4, IdsFinite
<1>4. QED
  BY <1>2, <1>3

-----------------------------------------------------------------------------
(* The coroutines and their jobs, step by step.                            *)

\* Coroutine id goes on with j.
Goes(id, j) ==
  /\ id \in Ids /\ j \in Jobs /\ inside[id] \in {NoJob, j} /\ job[j] # "done"
  /\ curco = None /\ curco' = id
  /\ inside' = [inside EXCEPT ![id] = j] /\ job' = [job EXCEPT ![j] = "running"]

\* A coroutine with a job on its stack goes on with it.
LEMMA ResumeKeeps ==
  ASSUME SchedTypeOK, AccountInv, CountInv, curco = None,
         NEW id \in Ids, Busy(id), status[id] \in {"ready", "suspend"},
         cap' = cap, ResumeId(id), UNCHANGED <<nco, freeid, poolVars>>,
         owed' \subseteq owed, inside[id] \notin owed'
  PROVE  /\ SchedTypeOK' /\ AccountInv' /\ CountInv'
         /\ Goes(id, inside[id])
         /\ \A d \in Ids : WokenId(d) /\ d # id => WokenId(d)'
<1>1. /\ nco \in Nat /\ cap \in Nat \ {0} /\ nco <= cap /\ \A d \in Ids : IdInv(d)
      /\ \A i \in Jobs : JobInv(i)
      /\ \A a, b \in Ids : inside[a] = inside[b] /\ Busy(a) => a = b
      /\ status \in [Ids -> {"none", "ready", "running", "suspend"}]
      /\ inside \in [Ids -> Jobs \cup {NoJob}]
      /\ job \in [Jobs -> {"new", "queued", "running", "waiting", "done"}]
  BY DEF SchedTypeOK, AccountInv
<1>2. PICK j \in Jobs : j = inside[id] /\ j # NoJob
  BY <1>1 DEF Busy
<1>3. id < nco /\ id \in 0..cap' - 1
  <2>1. id < nco
    BY <1>1 DEF IdInv
  <2>2. QED
    BY <1>1, <2>1, IdsFinite
<1>4. /\ curco' = id /\ status' = [status EXCEPT ![id] = "running"]
      /\ inside' = [inside EXCEPT ![id] = j] /\ job' = [job EXCEPT ![j] = "running"]
  BY <1>2, <1>3 DEF ResumeId, ResumeCo, Resumable, NextJobs
<1>5. inside' = inside
  BY <1>1, <1>2, <1>4
<1>6. nco' = nco /\ freeid' = freeid /\ loops' = loops /\ wtask' = wtask /\ pool' = pool /\ workq' = workq
  BY DEF poolVars
<1>7. /\ \A d \in Ids : status'[d] = IF d = id THEN "running" ELSE status[d]
      /\ \A i \in Jobs : job'[i] = IF i = j THEN "running" ELSE job[i]
  BY <1>1, <1>2, <1>4
<1>8. SchedTypeOK'
  <2>1. status' \in [Ids -> {"none", "ready", "running", "suspend"}]
    BY <1>1, <1>4
  <2>2. job' \in [Jobs -> {"new", "queued", "running", "waiting", "done"}]
    BY <1>1, <1>4
  <2>3. QED
    BY <1>4, <1>5, <1>6, <2>1, <2>2 DEF SchedTypeOK
<1>9. job[j] = "waiting" \/ (job[j] = "queued" /\ j \in Routines)
  BY <1>1, <1>2 DEF IdInv, JobInv, Placed
<1>10. \A d \in Ids : /\ FreeId(d)' <=> FreeId(d)
                      /\ Pooled(d)' <=> Pooled(d)
                      /\ Busy(d)' <=> Busy(d)
  BY <1>5, <1>6 DEF FreeId, Pooled, Busy
<1>11. \A d \in Ids : d # id /\ Busy(d) => inside[d] \in Jobs /\ inside[d] # j
  BY <1>1, <1>2 DEF Busy
<1>12. \A d \in Ids : IdInv(d)'
  <2>1. TAKE d \in Ids
  <2>2. IdInv(d) /\ IdInv(id)
    BY <1>1
  <2>3. CASE d = id
    BY <1>1, <1>2, <1>4, <1>5, <1>6, <1>7, <1>10, <2>2, <2>3 DEF IdInv
  <2>4. CASE d # id
    BY <1>1, <1>4, <1>5, <1>6, <1>7, <1>10, <1>11, <2>2, <2>4, IdsFinite DEF IdInv
  <2>5. QED
    BY <2>3, <2>4
<1>13. \A i \in Jobs : JobInv(i)'
  BY <1>1, <1>2, <1>5, <1>7, <1>9 DEF JobInv, Placed
<1>14. AccountInv'
  <2>1. \A i \in 1..Len(workq) : workq[i] \in Tasks
    BY DEF SchedTypeOK
  <2>2. \A i \in 1..Len(workq') : job'[workq'[i]] = "queued"
    BY <1>6, <1>7, <1>9, <2>1, JobsAssumption DEF AccountInv, Jobs
  <2>3. /\ Distinct(freeid.elem)' /\ Distinct(pool.elem)' /\ Distinct(workq)' /\ nco' <= cap'
    BY <1>6 DEF AccountInv
  <2>4. \A a, b \in Ids : inside'[a] = inside'[b] /\ Busy(a)' => a = b
    BY <1>1, <1>5, <1>10
  <2>5. QED
    BY <1>12, <1>13, <2>2, <2>3, <2>4 DEF AccountInv
<1>15. CountInv'
  <2>1. Started' = Started /\ Made' = Made
    BY <1>2, <1>7, <1>9, JobsAssumption DEF Started, Made, Jobs
  <2>2. QED
    BY <1>6, <2>1 DEF CountInv
<1>16. \A d \in Ids : WokenId(d) /\ d # id => WokenId(d)'
  BY <1>1, <1>5, <1>7, <1>10, <1>11 DEF WokenId
<1>17. QED
  BY <1>2, <1>4, <1>8, <1>9, <1>14, <1>15, <1>16 DEF Goes

\* A task that was not started yet gets a pooled coroutine, or a new one.
LEMMA StartKeeps ==
  ASSUME SchedTypeOK, AccountInv, CountInv, curco = None,
         NEW j \in Tasks, job[j] \in {"new", "queued"}, StartTask(j), owed' = owed,
         workq' \in Seq(Tasks), Distinct(workq)',
         \A i \in 1..Len(workq') : workq'[i] # j /\ job[workq'[i]] = "queued"
  PROVE  /\ SchedTypeOK' /\ AccountInv' /\ CountInv'
         /\ \E id : Goes(id, j)
         /\ \A d \in Ids : WokenId(d) => WokenId(d)'
<1>1. /\ nco \in Nat /\ cap \in Nat \ {0} /\ nco <= cap /\ \A d \in Ids : IdInv(d)
      /\ \A i \in Jobs : JobInv(i)
      /\ \A a, b \in Ids : inside[a] = inside[b] /\ Busy(a) => a = b
      /\ status \in [Ids -> {"none", "ready", "running", "suspend"}]
      /\ inside \in [Ids -> Jobs \cup {NoJob}]
      /\ job \in [Jobs -> {"new", "queued", "running", "waiting", "done"}]
      /\ wtask \in [Ids -> Jobs \cup {NoJob, Dangling}]
      /\ loops \subseteq Ids /\ owed \subseteq Jobs
      /\ VectorOK(freeid) /\ VectorOK(pool) /\ Distinct(freeid.elem) /\ Distinct(pool.elem)
  BY DEF SchedTypeOK, AccountInv
<1>2. j \in Jobs /\ j # NoJob /\ j # Dangling /\ j \notin Routines /\ j \notin Started \cup Made
  BY JobsAssumption DEF Jobs, Started, Made
<1>3. ~Placed(j) /\ j \notin owed
  BY <1>1, <1>2 DEF JobInv
<1> DEFINE Effect(id) ==
      /\ id \in Ids /\ ~Busy(id) /\ id < nco' /\ id # curco
      /\ curco' = id /\ status' = [status EXCEPT ![id] = "running"]
      /\ inside' = [inside EXCEPT ![id] = j] /\ job' = [job EXCEPT ![j] = "running"]
      /\ wtask' = [wtask EXCEPT ![id] = j] /\ loops' = loops \cup {id}
      /\ cap' \in Nat \ {0} /\ nco' \in Nat /\ nco' <= cap'
      /\ VectorOK(freeid)' /\ VectorOK(pool)' /\ Distinct(freeid.elem)' /\ Distinct(pool.elem)'
      /\ \A d \in Ids : /\ d < nco' <=> d < nco \/ d = id
                        /\ FreeId(d)' <=> FreeId(d) /\ d # id
                        /\ Pooled(d)' <=> Pooled(d) /\ d # id
<1>4. ASSUME SvEmpty(pool) PROVE CountInv' /\ \E id : Effect(id)
  <2>1. /\ AllocId /\ loops' = loops \cup {NewId} /\ pool' = pool
        /\ wtask' = [wtask EXCEPT ![NewId] = j] /\ ResumeCo(NewId, j, "ready")
    BY <1>4 DEF StartTask
  <2>2. PICK id \in Ids : id = NewId
    BY <1>2, <2>1, FreshId
  <2>3. /\ ~Pooled(id) /\ ~Busy(id) /\ id \notin loops /\ status[id] = "none" /\ id # curco
        /\ cap' \in Nat \ {0} /\ nco' \in Nat /\ nco' <= cap' /\ nco' <= nco + 1 /\ id < cap'
        /\ VectorOK(freeid)' /\ Distinct(freeid.elem)'
        /\ \A d \in Ids : /\ d < nco' <=> d < nco \/ d = id
                          /\ FreeId(d)' <=> FreeId(d) /\ d # id
    BY <1>2, <2>1, <2>2, FreshId
  <2>4. /\ curco' = id /\ status' = [status EXCEPT ![id] = "running"]
        /\ inside' = [inside EXCEPT ![id] = j] /\ job' = [job EXCEPT ![j] = "running"]
    <3>1. id \in 0..cap' - 1
      BY <2>3, IdsFinite
    <3>2. NextJobs(id, j) = {j}
      BY <1>2, <2>3 DEF NextJobs, Busy
    <3>3. QED
      BY <2>1, <2>2, <3>1, <3>2 DEF ResumeCo, Resumable
  <2>5. \A d \in Ids : Pooled(d)' <=> Pooled(d) /\ d # id
    BY <2>1, <2>3 DEF Pooled
  <2>6. Effect(id)
    BY <1>1, <2>1, <2>2, <2>3, <2>4, <2>5
  <2>7. CountInv'
    <3>1. Started' = Started \cup {j} /\ Made' = Made
      BY <1>1, <1>2, <2>4, JobsAssumption DEF Started, Made, Jobs
    <3>2. Cardinality(Started') = Cardinality(Started) + 1
      BY <1>2, <3>1, JobsCounted, FS_AddElement
    <3>3. Cardinality(loops') = Cardinality(loops) + 1
      BY <2>1, <2>2, <2>3, JobsCounted, FS_AddElement
    <3>4. QED
      BY <1>1, <2>3, <3>1, <3>2, <3>3, JobsCounted DEF CountInv
  <2>8. QED
    BY <2>6, <2>7
<1>5. ASSUME ~SvEmpty(pool) PROVE CountInv' /\ \E id : Effect(id)
  <2>1. /\ pool' = SvPopBack(pool) /\ cap' = cap /\ nco' = nco /\ freeid' = freeid /\ loops' = loops
        /\ wtask' = [wtask EXCEPT ![SvBack(pool)] = j]
        /\ ResumeCo(SvBack(pool), j, status[SvBack(pool)])
    BY <1>5 DEF StartTask
  <2>2. PICK id \in Ids : id = SvBack(pool)
    BY <1>1, <1>5, VectorPop
  <2>3. /\ Pooled(id) /\ VectorOK(pool') /\ Distinct(pool'.elem)
        /\ SeqRange(pool'.elem) = SeqRange(pool.elem) \ {id}
    BY <1>1, <1>5, <2>1, <2>2, VectorPop DEF Pooled
  <2>4. ~FreeId(id) /\ ~Busy(id) /\ id < nco /\ id \in loops /\ status[id] = "suspend" /\ id # curco
    BY <1>1, <2>3 DEF IdInv
  <2>5. /\ curco' = id /\ status' = [status EXCEPT ![id] = "running"]
        /\ inside' = [inside EXCEPT ![id] = j] /\ job' = [job EXCEPT ![j] = "running"]
    <3>1. id \in 0..cap' - 1
      BY <1>1, <2>1, <2>4, IdsFinite
    <3>2. NextJobs(id, j) = {j}
      BY <1>2, <2>4 DEF NextJobs, Busy
    <3>3. QED
      BY <2>1, <2>2, <2>4, <3>1, <3>2 DEF ResumeCo, Resumable
  <2>6. \A d \in Ids : /\ FreeId(d)' <=> FreeId(d) /\ d # id
                       /\ Pooled(d)' <=> Pooled(d) /\ d # id
    BY <2>1, <2>3, <2>4 DEF FreeId, Pooled
  <2>7. Effect(id)
    BY <1>1, <2>1, <2>2, <2>3, <2>4, <2>5, <2>6
  <2>8. CountInv'
    <3>1. Started' = Started \cup {j} /\ Made' = Made
      BY <1>1, <1>2, <2>5, JobsAssumption DEF Started, Made, Jobs
    <3>2. Cardinality(Started') = Cardinality(Started) + 1
      BY <1>2, <3>1, JobsCounted, FS_AddElement
    <3>3. QED
      BY <1>1, <2>1, <3>1, <3>2, JobsCounted DEF CountInv
  <2>9. QED
    BY <2>7, <2>8
<1>6. PICK id : CountInv' /\ Effect(id)
  BY <1>4, <1>5
<1>7. /\ \A d \in Ids : status'[d] = IF d = id THEN "running" ELSE status[d]
      /\ \A d \in Ids : inside'[d] = IF d = id THEN j ELSE inside[d]
      /\ \A i \in Jobs : job'[i] = IF i = j THEN "running" ELSE job[i]
  BY <1>1, <1>2, <1>6
<1>8. SchedTypeOK'
  <2>1. status' \in [Ids -> {"none", "ready", "running", "suspend"}]
    BY <1>1, <1>6
  <2>2. job' \in [Jobs -> {"new", "queued", "running", "waiting", "done"}]
    BY <1>1, <1>6
  <2>3. inside' \in [Ids -> Jobs \cup {NoJob}] /\ wtask' \in [Ids -> Jobs \cup {NoJob, Dangling}]
    BY <1>1, <1>2, <1>6
  <2>4. curco' \in Ids \cup {None} /\ loops' \subseteq Ids /\ owed' \subseteq Jobs
    BY <1>1, <1>6
  <2>5. QED
    BY <1>6, <2>1, <2>2, <2>3, <2>4 DEF SchedTypeOK
<1>9. \A d \in Ids : /\ Busy(d)' <=> Busy(d) \/ d = id
                     /\ Busy(d) => d # id /\ inside[d] # j /\ inside[d] \in Jobs
  BY <1>1, <1>2, <1>3, <1>6, <1>7 DEF Busy, Placed
<1>10. \A d \in Ids : IdInv(d)'
  <2>1. TAKE d \in Ids
  <2>2. IdInv(d)
    BY <1>1
  <2>3. CASE d = id
    BY <1>2, <1>6, <1>7, <1>9, <2>3 DEF IdInv
  <2>4. CASE d # id
    BY <1>6, <1>7, <1>9, <2>2, <2>4, IdsFinite DEF IdInv
  <2>5. QED
    BY <2>3, <2>4
<1>11. \A i \in Jobs : JobInv(i)'
  <2>1. TAKE i \in Jobs
  <2>2. JobInv(i)
    BY <1>1
  <2>3. CASE i = j
    BY <1>2, <1>3, <1>6, <1>7, <2>3 DEF JobInv, Placed
  <2>4. CASE i # j
    <3>1. Placed(i)' <=> Placed(i)
      <4>1. \A d \in Ids : inside[d] = i => d # id
        BY <1>6, JobsAssumption DEF Busy
      <4>2. QED
        BY <1>6, <1>7, <2>4, <4>1 DEF Placed
    <3>2. QED
      BY <1>7, <2>2, <2>4, <3>1 DEF JobInv
  <2>5. QED
    BY <2>3, <2>4
<1>12. AccountInv'
  <2>1. \A a, b \in Ids : inside'[a] = inside'[b] /\ Busy(a)' => a = b
    BY <1>1, <1>3, <1>7, <1>9 DEF Placed
  <2>2. \A i \in 1..Len(workq') : workq'[i] \in Jobs
    BY ElementOfSeq DEF Jobs
  <2>3. \A i \in 1..Len(workq') : job'[workq'[i]] = "queued"
    BY <1>7, <2>2
  <2>4. QED
    BY <1>6, <1>10, <1>11, <2>1, <2>3 DEF AccountInv
<1>13. \A d \in Ids : WokenId(d) => WokenId(d)'
  BY <1>7, <1>9 DEF WokenId
<1>14. QED
  <2>1. Goes(id, j)
    BY <1>2, <1>6 DEF Goes, Busy
  <2>2. QED
    BY <1>6, <1>8, <1>12, <1>13, <2>1

\* A routine is given a coroutine that is not started yet.
LEMMA CreateKeeps ==
  ASSUME SchedTypeOK, AccountInv, CountInv, NEW j \in Routines, Create(j)
  PROVE  /\ SchedTypeOK' /\ AccountInv' /\ CountInv' /\ \A d \in Ids : WokenId(d) => WokenId(d)'
         /\ NewId \in Ids /\ ~Busy(NewId) /\ NewId # curco
<1>1. /\ nco \in Nat /\ cap \in Nat \ {0} /\ nco <= cap /\ \A d \in Ids : IdInv(d)
      /\ \A i \in Jobs : JobInv(i)
      /\ \A a, b \in Ids : inside[a] = inside[b] /\ Busy(a) => a = b
      /\ status \in [Ids -> {"none", "ready", "running", "suspend"}]
      /\ inside \in [Ids -> Jobs \cup {NoJob}]
      /\ job \in [Jobs -> {"new", "queued", "running", "waiting", "done"}]
  BY DEF SchedTypeOK, AccountInv
<1>2. j \in Jobs /\ j # NoJob /\ j \notin Tasks /\ j \notin Started \cup Made /\ job[j] = "new"
  BY JobsAssumption DEF Jobs, Started, Made, Create
<1>3. ~Placed(j) /\ j \notin owed
  BY <1>1, <1>2 DEF JobInv
<1>4. PICK id \in Ids : id = NewId
  BY <1>2, FreshId DEF Create
<1>5. /\ ~Pooled(id) /\ ~Busy(id) /\ id \notin loops /\ status[id] = "none" /\ id # curco
      /\ cap' \in Nat \ {0} /\ nco' \in Nat /\ nco' <= cap' /\ nco' <= nco + 1 /\ id < cap'
      /\ VectorOK(freeid)' /\ Distinct(freeid.elem)'
      /\ \A d \in Ids : /\ d < nco' <=> d < nco \/ d = id
                        /\ FreeId(d)' <=> FreeId(d) /\ d # id
  BY <1>2, <1>4, FreshId DEF Create
<1>6. /\ status' = [status EXCEPT ![id] = "ready"] /\ inside' = [inside EXCEPT ![id] = j]
      /\ job' = [job EXCEPT ![j] = "queued"]
      /\ curco' = curco /\ loops' = loops /\ wtask' = wtask /\ pool' = pool /\ workq' = workq /\ owed' = owed
  BY <1>4 DEF Create, poolVars
<1>7. /\ \A d \in Ids : status'[d] = IF d = id THEN "ready" ELSE status[d]
      /\ \A d \in Ids : inside'[d] = IF d = id THEN j ELSE inside[d]
      /\ \A i \in Jobs : job'[i] = IF i = j THEN "queued" ELSE job[i]
  BY <1>1, <1>2, <1>6
<1>8. SchedTypeOK'
  <2>1. status' \in [Ids -> {"none", "ready", "running", "suspend"}]
    BY <1>1, <1>6
  <2>2. job' \in [Jobs -> {"new", "queued", "running", "waiting", "done"}]
    BY <1>1, <1>6
  <2>3. inside' \in [Ids -> Jobs \cup {NoJob}]
    BY <1>1, <1>2, <1>6
  <2>4. QED
    BY <1>5, <1>6, <2>1, <2>2, <2>3 DEF SchedTypeOK
<1>9. \A d \in Ids : /\ Busy(d)' <=> Busy(d) \/ d = id
                     /\ Busy(d) => d # id /\ inside[d] # j /\ inside[d] \in Jobs
                     /\ Pooled(d)' <=> Pooled(d)
  BY <1>1, <1>2, <1>3, <1>5, <1>6, <1>7 DEF Busy, Placed, Pooled
<1>10. \A d \in Ids : IdInv(d)'
  <2>1. TAKE d \in Ids
  <2>2. IdInv(d)
    BY <1>1
  <2>3. CASE d = id
    BY <1>2, <1>5, <1>6, <1>7, <1>9, <2>3 DEF IdInv
  <2>4. CASE d # id
    BY <1>5, <1>6, <1>7, <1>9, <2>2, <2>4, IdsFinite DEF IdInv
  <2>5. QED
    BY <2>3, <2>4
<1>11. \A i \in Jobs : JobInv(i)'
  <2>1. TAKE i \in Jobs
  <2>2. JobInv(i)
    BY <1>1
  <2>3. CASE i = j
    BY <1>2, <1>3, <1>6, <1>7, <2>3 DEF JobInv, Placed
  <2>4. CASE i # j
    <3>1. Placed(i)' <=> Placed(i)
      <4>1. \A d \in Ids : inside[d] = i => d # id
        BY <1>5, JobsAssumption DEF Busy
      <4>2. QED
        BY <1>6, <1>7, <2>4, <4>1 DEF Placed
    <3>2. QED
      BY <1>6, <1>7, <2>2, <2>4, <3>1 DEF JobInv
  <2>5. QED
    BY <2>3, <2>4
<1>12. AccountInv'
  <2>1. \A a, b \in Ids : inside'[a] = inside'[b] /\ Busy(a)' => a = b
    BY <1>1, <1>3, <1>7, <1>9 DEF Placed
  <2>2. \A i \in 1..Len(workq) : workq[i] \in Jobs /\ job[workq[i]] = "queued"
    BY ElementOfSeq DEF Jobs, SchedTypeOK, AccountInv
  <2>3. \A i \in 1..Len(workq') : job'[workq'[i]] = "queued"
    BY <1>6, <1>7, <2>2
  <2>4. Distinct(pool.elem)' /\ Distinct(workq)'
    BY <1>6 DEF AccountInv
  <2>5. QED
    BY <1>5, <1>10, <1>11, <2>1, <2>3, <2>4 DEF AccountInv
<1>13. CountInv'
  <2>1. Made' = Made \cup {j} /\ Started' = Started
    BY <1>1, <1>2, <1>6, JobsAssumption DEF Started, Made, Jobs
  <2>2. Cardinality(Made') = Cardinality(Made) + 1
    BY <1>2, <2>1, JobsCounted, FS_AddElement
  <2>3. QED
    BY <1>1, <1>5, <1>6, <2>1, <2>2, JobsCounted DEF CountInv
<1>14. \A d \in Ids : WokenId(d) => WokenId(d)'
  BY <1>6, <1>7, <1>9 DEF WokenId
<1>15. QED
  BY <1>4, <1>5, <1>8, <1>12, <1>13, <1>14

\* A task is queued for later.
LEMMA AddTaskKeeps ==
  ASSUME SchedTypeOK, AccountInv, CountInv, NEW j \in Tasks, AddTask(j)
  PROVE  SchedTypeOK' /\ AccountInv' /\ CountInv' /\ \A d \in Ids : WokenId(d) => WokenId(d)'
<1>1. /\ \A d \in Ids : IdInv(d)
      /\ \A i \in Jobs : JobInv(i)
      /\ job \in [Jobs -> {"new", "queued", "running", "waiting", "done"}]
      /\ workq \in Seq(Tasks) /\ Distinct(workq)
      /\ \A i \in 1..Len(workq) : job[workq[i]] = "queued" /\ workq[i] \in Tasks
  BY ElementOfSeq DEF SchedTypeOK, AccountInv
<1>2. j \in Jobs /\ j \notin Routines /\ job[j] = "new"
  BY JobsAssumption DEF Jobs, AddTask
<1>3. /\ job' = [job EXCEPT ![j] = "queued"] /\ workq' = Append(workq, j)
      /\ UNCHANGED <<cap, nco, freeid, status, curco, loops, wtask, pool, inside, owed>>
  BY DEF AddTask, schedVars
<1>4. \A i \in Jobs : job'[i] = IF i = j THEN "queued" ELSE job[i]
  BY <1>1, <1>2, <1>3
<1>5. ~Placed(j) /\ j \notin owed
  BY <1>1, <1>2 DEF JobInv
<1>6. j \notin SeqRange(workq)
  BY <1>1, <1>2 DEF SeqRange
<1>7. /\ workq' \in Seq(Tasks) /\ Distinct(workq)' /\ SeqRange(workq') = SeqRange(workq) \cup {j}
  BY <1>1, <1>3, <1>6, DistinctAppend
<1>8. SchedTypeOK'
  <2>1. job' \in [Jobs -> {"new", "queued", "running", "waiting", "done"}]
    BY <1>1, <1>3
  <2>2. QED
    BY <1>3, <1>7, <2>1 DEF SchedTypeOK
<1>9. \A d \in Ids : Busy(d) => inside[d] # j /\ inside[d] \in Jobs
  BY <1>5 DEF Placed, Busy, SchedTypeOK
<1>10. \A d \in Ids : IdInv(d)'
  <2>1. TAKE d \in Ids
  <2>2. IdInv(d) /\ (Busy(d) => job'[inside[d]] = job[inside[d]])
    BY <1>1, <1>4, <1>9
  <2>3. d = curco => Busy(d)
    BY <2>2 DEF IdInv
  <2>4. QED
    BY <1>3, <2>2, <2>3 DEF IdInv, Busy, FreeId, Pooled
<1>11. \A i \in Jobs : JobInv(i)'
  BY <1>1, <1>2, <1>3, <1>4, <1>5 DEF JobInv, Placed
<1>12. \A i \in 1..Len(workq') : job'[workq'[i]] = "queued"
  <2>1. TAKE i \in 1..Len(workq')
  <2>2. workq'[i] \in SeqRange(workq) \cup {j}
    BY <1>7 DEF SeqRange
  <2>3. QED
    BY <1>1, <1>2, <1>4, <2>2 DEF SeqRange, Jobs
<1>13. AccountInv'
  <2>1. /\ Distinct(freeid.elem)' /\ Distinct(pool.elem)' /\ nco' <= cap'
        /\ \A a, b \in Ids : inside'[a] = inside'[b] /\ Busy(a)' => a = b
    BY <1>3 DEF AccountInv, Busy
  <2>2. QED
    BY <1>7, <1>10, <1>11, <1>12, <2>1 DEF AccountInv
<1>14. CountInv'
  <2>1. Started' = Started /\ Made' = Made
    BY <1>2, <1>4 DEF Started, Made, Jobs
  <2>2. QED
    BY <1>3, <2>1 DEF CountInv
<1>15. \A d \in Ids : WokenId(d) => WokenId(d)'
  BY <1>3, <1>4, <1>9 DEF WokenId, Busy
<1>16. QED
  BY <1>8, <1>13, <1>14, <1>15

\* A job that was woken is not owed its wake-up any more.
LEMMA WakeKeeps ==
  ASSUME SchedTypeOK, AccountInv, CountInv, owed' \subseteq owed,
         UNCHANGED <<schedVars, poolVars, inside, job>>
  PROVE  SchedTypeOK' /\ AccountInv' /\ CountInv' /\ \A d \in Ids : WokenId(d) => WokenId(d)'
<1>1. UNCHANGED <<cap, nco, freeid, status, curco, loops, wtask, pool, workq, inside, job>>
  BY DEF schedVars, poolVars
<1>2. SchedTypeOK'
  BY <1>1 DEF SchedTypeOK
<1>3. /\ \A d \in Ids : IdInv(d)'
      /\ \A i \in Jobs : JobInv(i)'
  BY <1>1 DEF AccountInv, IdInv, JobInv, FreeId, Pooled, Busy, Placed
<1>4. AccountInv'
  BY <1>1, <1>3 DEF AccountInv, Busy
<1>5. CountInv'
  BY <1>1 DEF CountInv, Started, Made
<1>6. \A d \in Ids : WokenId(d) => WokenId(d)'
  BY <1>1 DEF WokenId, Busy
<1>7. QED
  BY <1>2, <1>4, <1>5, <1>6

\* What is known of the running job.
LEMMA RunningJob ==
  ASSUME SchedTypeOK, AccountInv, curco # None
  PROVE  /\ curco \in Ids /\ inside[curco] \in Jobs /\ Busy(curco) /\ inside[curco] # NoJob
         /\ status[curco] = "running" /\ job[inside[curco]] \in {"running", "waiting"}
         /\ ~FreeId(curco) /\ ~Pooled(curco) /\ curco < nco
         /\ curco \in loops <=> inside[curco] \in Tasks
         /\ \A d \in Ids : inside[d] = inside[curco] => d = curco
<1>1. curco \in Ids
  BY DEF SchedTypeOK
<1>2. IdInv(curco) /\ inside[curco] \in Jobs \cup {NoJob}
  BY <1>1 DEF SchedTypeOK, AccountInv
<1>3. \A a, b \in Ids : inside[a] = inside[b] /\ Busy(a) => a = b
  BY DEF AccountInv
<1>4. Busy(curco)
  BY <1>2 DEF IdInv
<1>5. QED
  BY <1>1, <1>2, <1>3, <1>4 DEF IdInv, Busy

\* A step that changes only what the running job is doing.
LEMMA GiveIdKeeps ==
  ASSUME SchedTypeOK, AccountInv, CountInv, GiveId
  PROVE  SchedTypeOK' /\ AccountInv' /\ CountInv' /\ \A d \in Ids : WokenId(d) => WokenId(d)'
<1>1. /\ \A d \in Ids : IdInv(d)
      /\ \A i \in Jobs : JobInv(i)
      /\ job \in [Jobs -> {"new", "queued", "running", "waiting", "done"}]
      /\ inside \in [Ids -> Jobs \cup {NoJob}]
      /\ \A i \in 1..Len(workq) : job[workq[i]] = "queued" /\ workq[i] \in Jobs
  BY ElementOfSeq DEF SchedTypeOK, AccountInv, Jobs
<1>2. curco # None
  BY DEF GiveId
<1>3. PICK j \in Jobs : /\ j = inside[curco] /\ j # NoJob
                        /\ \A d \in Ids : inside[d] = j => d = curco
  BY <1>2, RunningJob
<1>4. /\ curco \in Ids /\ Busy(curco) /\ status[curco] = "running"
      /\ job[j] = "running" /\ job' = [job EXCEPT ![j] = "waiting"] /\ owed' = owed \cup {j}
      /\ UNCHANGED <<cap, nco, freeid, status, curco, loops, wtask, pool, workq, inside>>
  BY <1>2, <1>3, RunningJob DEF GiveId, schedVars, poolVars
<1>5. \A i \in Jobs : job'[i] = IF i = j THEN "waiting" ELSE job[i]
  BY <1>1, <1>4
<1>6. SchedTypeOK'
  <2>1. job' \in [Jobs -> {"new", "queued", "running", "waiting", "done"}]
    BY <1>1, <1>4
  <2>2. owed' \subseteq Jobs
    BY <1>3, <1>4 DEF SchedTypeOK
  <2>3. QED
    BY <1>4, <2>1, <2>2 DEF SchedTypeOK
<1>7. \A d \in Ids : d # curco /\ Busy(d) => inside[d] # j /\ inside[d] \in Jobs
  BY <1>1, <1>3 DEF Busy
<1>8. \A d \in Ids : IdInv(d)'
  <2>1. TAKE d \in Ids
  <2>2. IdInv(d)
    BY <1>1
  <2>3. CASE d = curco
    BY <1>3, <1>4, <1>5, <2>2, <2>3 DEF IdInv, Busy, FreeId, Pooled
  <2>4. CASE d # curco
    BY <1>4, <1>5, <1>7, <2>2, <2>4 DEF IdInv, Busy, FreeId, Pooled
  <2>5. QED
    BY <2>3, <2>4
<1>9. \A i \in Jobs : JobInv(i)'
  <2>1. TAKE i \in Jobs
  <2>2. JobInv(i)
    BY <1>1
  <2>3. Placed(i)' <=> Placed(i)
    BY <1>4 DEF Placed
  <2>4. QED
    BY <1>4, <1>5, <2>2, <2>3 DEF JobInv
<1>10. AccountInv'
  <2>1. \A i \in 1..Len(workq') : job'[workq'[i]] = "queued"
    BY <1>1, <1>4, <1>5
  <2>2. /\ Distinct(freeid.elem)' /\ Distinct(pool.elem)' /\ Distinct(workq)' /\ nco' <= cap'
        /\ \A a, b \in Ids : inside'[a] = inside'[b] /\ Busy(a)' => a = b
    BY <1>4 DEF AccountInv, Busy
  <2>3. QED
    BY <1>8, <1>9, <2>1, <2>2 DEF AccountInv
<1>11. CountInv'
  <2>1. Started' = Started /\ Made' = Made
    BY <1>4, <1>5 DEF Started, Made, Jobs
  <2>2. QED
    BY <1>4, <2>1 DEF CountInv
<1>12. \A d \in Ids : WokenId(d) => WokenId(d)'
  <2>1. \A d \in Ids : WokenId(d) => inside[d] # j /\ inside[d] \in Jobs
    BY <1>1, <1>4 DEF WokenId, Busy
  <2>2. QED
    BY <1>4, <1>5, <2>1 DEF WokenId, Busy
<1>13. QED
  BY <1>6, <1>10, <1>11, <1>12

\* The running job yields.
LEMMA YieldKeeps ==
  ASSUME SchedTypeOK, AccountInv, CountInv, Yield
  PROVE  SchedTypeOK' /\ AccountInv' /\ CountInv' /\ \A d \in Ids : WokenId(d) => WokenId(d)'
<1>1. /\ \A d \in Ids : IdInv(d)
      /\ \A i \in Jobs : JobInv(i)
      /\ status \in [Ids -> {"none", "ready", "running", "suspend"}]
      /\ wtask \in [Ids -> Jobs \cup {NoJob, Dangling}]
  BY DEF SchedTypeOK, AccountInv
<1>2. curco # None /\ job[inside[curco]] = "waiting"
  BY DEF Yield
<1>3. curco \in Ids /\ Busy(curco) /\ ~Pooled(curco)
  BY <1>2, RunningJob
<1>4. /\ status' = [status EXCEPT ![curco] = "suspend"] /\ curco' = None
      /\ wtask' = [wtask EXCEPT ![curco] = Dangling]
      /\ UNCHANGED <<cap, nco, freeid, loops, pool, workq, inside, job, owed>>
  BY DEF Yield, SwitchBack, jobVars
<1>5. \A d \in Ids : status'[d] = IF d = curco THEN "suspend" ELSE status[d]
  BY <1>1, <1>4
<1>6. SchedTypeOK'
  <2>1. status' \in [Ids -> {"none", "ready", "running", "suspend"}]
    BY <1>1, <1>4
  <2>2. wtask' \in [Ids -> Jobs \cup {NoJob, Dangling}]
    BY <1>1, <1>4
  <2>3. QED
    BY <1>4, <2>1, <2>2 DEF SchedTypeOK
<1>7. \A d \in Ids : IdInv(d)'
  <2>1. TAKE d \in Ids
  <2>2. IdInv(d) /\ d # None
    BY <1>1, IdsFinite
  <2>3. CASE d = curco
    BY <1>2, <1>3, <1>4, <1>5, <2>2, <2>3 DEF IdInv, Busy, FreeId, Pooled
  <2>4. CASE d # curco
    BY <1>4, <1>5, <2>2, <2>4 DEF IdInv, Busy, FreeId, Pooled
  <2>5. QED
    BY <2>3, <2>4
<1>8. \A i \in Jobs : JobInv(i)'
  BY <1>1, <1>4 DEF JobInv, Placed
<1>9. AccountInv'
  BY <1>4, <1>7, <1>8 DEF AccountInv, Busy
<1>10. CountInv'
  BY <1>4 DEF CountInv, Started, Made
<1>11. \A d \in Ids : WokenId(d) => WokenId(d)'
  BY <1>4 DEF WokenId, Busy
<1>12. QED
  BY <1>6, <1>9, <1>10, <1>11

\* What the end of the running job does to the jobs and their coroutines.
LEMMA EndedJob ==
  ASSUME SchedTypeOK, AccountInv, CountInv, curco # None, job[inside[curco]] = "running",
         job' = [job EXCEPT ![inside[curco]] = "done"], inside' = [inside EXCEPT ![curco] = NoJob],
         workq' = workq, owed' = owed, loops' = loops, nco' = nco
  PROVE  /\ job' \in [Jobs -> {"new", "queued", "running", "waiting", "done"}]
         /\ inside' \in [Ids -> Jobs \cup {NoJob}]
         /\ \A d \in Ids : d # curco => /\ inside'[d] = inside[d]
                                        /\ Busy(d) => job'[inside[d]] = job[inside[d]]
         /\ inside'[curco] = NoJob
         /\ \A i \in Jobs : JobInv(i)'
         /\ \A i \in 1..Len(workq') : job'[workq'[i]] = "queued"
         /\ \A a, b \in Ids : inside'[a] = inside'[b] /\ Busy(a)' => a = b
         /\ CountInv' /\ \A d \in Ids : WokenId(d) => WokenId(d)'
<1>1. /\ \A d \in Ids : IdInv(d)
      /\ \A i \in Jobs : JobInv(i)
      /\ \A a, b \in Ids : inside[a] = inside[b] /\ Busy(a) => a = b
      /\ inside \in [Ids -> Jobs \cup {NoJob}]
      /\ job \in [Jobs -> {"new", "queued", "running", "waiting", "done"}]
      /\ \A i \in 1..Len(workq) : job[workq[i]] = "queued" /\ workq[i] \in Jobs
  BY ElementOfSeq DEF SchedTypeOK, AccountInv, Jobs
<1>2. PICK j \in Jobs : /\ j = inside[curco] /\ j # NoJob
                        /\ \A d \in Ids : inside[d] = j => d = curco
  BY RunningJob
<1>3. curco \in Ids /\ Busy(curco)
  BY RunningJob
<1>4. /\ job' \in [Jobs -> {"new", "queued", "running", "waiting", "done"}]
      /\ inside' \in [Ids -> Jobs \cup {NoJob}]
      /\ \A i \in Jobs : job'[i] = IF i = j THEN "done" ELSE job[i]
      /\ \A d \in Ids : inside'[d] = IF d = curco THEN NoJob ELSE inside[d]
  BY <1>1, <1>2, <1>3
<1>5. \A d \in Ids : d # curco /\ Busy(d) => inside[d] # j /\ inside[d] \in Jobs
  BY <1>1, <1>2 DEF Busy
<1>6. \A d \in Ids : Busy(d)' <=> Busy(d) /\ d # curco
  BY <1>4 DEF Busy
<1>7. \A i \in Jobs : JobInv(i)'
  <2>1. TAKE i \in Jobs
  <2>2. JobInv(i) /\ i # NoJob
    BY <1>1, JobsAssumption
  <2>3. CASE i = j
    <3>1. ~Placed(i)'
      BY <1>2, <1>4, <2>2, <2>3 DEF Placed
    <3>2. QED
      BY <1>2, <1>4, <2>2, <2>3, <3>1 DEF JobInv
  <2>4. CASE i # j
    <3>1. Placed(i)' <=> Placed(i)
      BY <1>2, <1>3, <1>4, <2>2, <2>4 DEF Placed
    <3>2. QED
      BY <1>4, <2>2, <2>4, <3>1 DEF JobInv
  <2>5. QED
    BY <2>3, <2>4
<1>8. \A i \in 1..Len(workq') : job'[workq'[i]] = "queued"
  BY <1>1, <1>2, <1>4
<1>9. \A a, b \in Ids : inside'[a] = inside'[b] /\ Busy(a)' => a = b
  BY <1>1, <1>4, <1>6 DEF Busy
<1>10. CountInv'
  <2>1. Started' = Started /\ Made' = Made
    BY <1>2, <1>4 DEF Started, Made, Jobs
  <2>2. QED
    BY <2>1 DEF CountInv
<1>11. \A d \in Ids : WokenId(d) => WokenId(d)'
  <2>1. \A d \in Ids : WokenId(d) => d # curco
    BY <1>2 DEF WokenId
  <2>2. QED
    BY <1>4, <1>5, <1>6, <2>1 DEF WokenId, Busy
<1>12. \A d \in Ids : d # curco => /\ inside'[d] = inside[d]
                                   /\ Busy(d) => job'[inside[d]] = job[inside[d]]
  <2>1. TAKE d \in Ids
  <2>2. HAVE d # curco
  <2>3. inside'[d] = inside[d]
    BY <1>4, <2>2
  <2>4. Busy(d) => inside[d] \in Jobs /\ inside[d] # j
    BY <1>5, <2>2
  <2>5. QED
    BY <1>4, <2>3, <2>4
<1>13. inside'[curco] = NoJob
  BY <1>3, <1>4
<1>14. QED
  BY <1>4, <1>7, <1>8, <1>9, <1>10, <1>11, <1>12, <1>13

\* A task ends: its coroutine is pooled.
LEMMA TaskEndsKeeps ==
  ASSUME SchedTypeOK, AccountInv, CountInv, TaskEnds
  PROVE  SchedTypeOK' /\ AccountInv' /\ CountInv' /\ \A d \in Ids : WokenId(d) => WokenId(d)'
<1>1. /\ \A d \in Ids : IdInv(d)
      /\ status \in [Ids -> {"none", "ready", "running", "suspend"}]
      /\ wtask \in [Ids -> Jobs \cup {NoJob, Dangling}] /\ inside \in [Ids -> Jobs \cup {NoJob}]
      /\ VectorOK(pool) /\ Distinct(pool.elem)
  BY DEF SchedTypeOK, AccountInv
<1>2. /\ curco \in loops /\ job[inside[curco]] = "running" /\ curco # None
      /\ job' = [job EXCEPT ![inside[curco]] = "done"] /\ inside' = [inside EXCEPT ![curco] = NoJob]
      /\ pool' = SvPushBack(pool, curco) /\ status' = [status EXCEPT ![curco] = "suspend"]
      /\ curco' = None /\ wtask' = [wtask EXCEPT ![curco] = Dangling]
      /\ UNCHANGED <<cap, nco, freeid, loops, workq, owed>>
  BY IdsFinite DEF TaskEnds, SwitchBack, SchedTypeOK
<1>3. curco \in Ids /\ ~FreeId(curco) /\ ~Pooled(curco) /\ curco < nco
  BY <1>2, RunningJob
<1>4. /\ job' \in [Jobs -> {"new", "queued", "running", "waiting", "done"}]
      /\ inside' \in [Ids -> Jobs \cup {NoJob}]
      /\ \A d \in Ids : d # curco => /\ inside'[d] = inside[d]
                                     /\ Busy(d) => job'[inside[d]] = job[inside[d]]
      /\ inside'[curco] = NoJob
      /\ \A i \in Jobs : JobInv(i)'
      /\ \A i \in 1..Len(workq') : job'[workq'[i]] = "queued"
      /\ \A a, b \in Ids : inside'[a] = inside'[b] /\ Busy(a)' => a = b
      /\ CountInv' /\ \A d \in Ids : WokenId(d) => WokenId(d)'
  BY <1>2, EndedJob
<1>5. /\ VectorOK(pool') /\ Distinct(pool'.elem)
      /\ SeqRange(pool'.elem) = SeqRange(pool.elem) \cup {curco}
  BY <1>1, <1>2, <1>3, VectorPush DEF Pooled
<1>6. \A d \in Ids : /\ status'[d] = IF d = curco THEN "suspend" ELSE status[d]
                     /\ Pooled(d)' <=> Pooled(d) \/ d = curco
                     /\ FreeId(d)' <=> FreeId(d)
  BY <1>1, <1>2, <1>5 DEF Pooled, FreeId
<1>7. SchedTypeOK'
  <2>1. status' \in [Ids -> {"none", "ready", "running", "suspend"}]
    BY <1>1, <1>2
  <2>2. wtask' \in [Ids -> Jobs \cup {NoJob, Dangling}]
    BY <1>1, <1>2
  <2>3. QED
    BY <1>2, <1>4, <1>5, <2>1, <2>2 DEF SchedTypeOK
<1>8. \A d \in Ids : IdInv(d)'
  <2>1. TAKE d \in Ids
  <2>2. IdInv(d) /\ d # None
    BY <1>1, IdsFinite
  <2>3. CASE d = curco
    <3>1. /\ ~Busy(d)' /\ Pooled(d)' /\ ~FreeId(d)' /\ status'[d] = "suspend"
          /\ d < nco' /\ d \in loops' /\ d # curco'
      BY <1>2, <1>3, <1>4, <1>6, <2>2, <2>3 DEF Busy
    <3>2. QED
      BY <3>1 DEF IdInv
  <2>4. CASE d # curco
    <3>1. (Busy(d)' <=> Busy(d)) /\ inside'[d] = inside[d] /\ (Busy(d) => job'[inside[d]] = job[inside[d]])
      BY <1>4, <2>4 DEF Busy
    <3>2. QED
      BY <1>2, <1>6, <2>2, <2>4, <3>1 DEF IdInv
  <2>5. QED
    BY <2>3, <2>4
<1>9. AccountInv'
  <2>1. Distinct(freeid.elem)' /\ Distinct(workq)' /\ nco' <= cap'
    BY <1>2 DEF AccountInv
  <2>2. QED
    BY <1>4, <1>5, <1>8, <2>1 DEF AccountInv
<1>10. QED
  BY <1>4, <1>7, <1>9

\* A routine ends: its id is given back.
LEMMA RoutineEndsKeeps ==
  ASSUME SchedTypeOK, AccountInv, CountInv, RoutineEnds
  PROVE  SchedTypeOK' /\ AccountInv' /\ CountInv' /\ \A d \in Ids : WokenId(d) => WokenId(d)'
<1>1. /\ \A d \in Ids : IdInv(d)
      /\ status \in [Ids -> {"none", "ready", "running", "suspend"}]
      /\ wtask \in [Ids -> Jobs \cup {NoJob, Dangling}] /\ inside \in [Ids -> Jobs \cup {NoJob}]
      /\ VectorOK(freeid) /\ Distinct(freeid.elem)
  BY DEF SchedTypeOK, AccountInv
<1>2. /\ curco # None /\ curco \notin loops /\ job[inside[curco]] = "running"
      /\ job' = [job EXCEPT ![inside[curco]] = "done"] /\ inside' = [inside EXCEPT ![curco] = NoJob]
      /\ freeid' = SvPushBack(freeid, curco) /\ status' = [status EXCEPT ![curco] = "none"]
      /\ curco' = None /\ wtask' = [wtask EXCEPT ![curco] = Dangling]
      /\ UNCHANGED <<cap, nco, pool, loops, workq, owed>>
  BY DEF RoutineEnds, SwitchBack
<1>3. curco \in Ids /\ ~FreeId(curco) /\ ~Pooled(curco) /\ curco < nco
  BY <1>2, RunningJob
<1>4. /\ job' \in [Jobs -> {"new", "queued", "running", "waiting", "done"}]
      /\ inside' \in [Ids -> Jobs \cup {NoJob}]
      /\ \A d \in Ids : d # curco => /\ inside'[d] = inside[d]
                                     /\ Busy(d) => job'[inside[d]] = job[inside[d]]
      /\ inside'[curco] = NoJob
      /\ \A i \in Jobs : JobInv(i)'
      /\ \A i \in 1..Len(workq') : job'[workq'[i]] = "queued"
      /\ \A a, b \in Ids : inside'[a] = inside'[b] /\ Busy(a)' => a = b
      /\ CountInv' /\ \A d \in Ids : WokenId(d) => WokenId(d)'
  BY <1>2, EndedJob
<1>5. /\ VectorOK(freeid') /\ Distinct(freeid'.elem)
      /\ SeqRange(freeid'.elem) = SeqRange(freeid.elem) \cup {curco}
  BY <1>1, <1>2, <1>3, VectorPush DEF FreeId
<1>6. \A d \in Ids : /\ status'[d] = IF d = curco THEN "none" ELSE status[d]
                     /\ FreeId(d)' <=> FreeId(d) \/ d = curco
                     /\ Pooled(d)' <=> Pooled(d)
  BY <1>1, <1>2, <1>5 DEF Pooled, FreeId
<1>7. SchedTypeOK'
  <2>1. status' \in [Ids -> {"none", "ready", "running", "suspend"}]
    BY <1>1, <1>2
  <2>2. wtask' \in [Ids -> Jobs \cup {NoJob, Dangling}]
    BY <1>1, <1>2
  <2>3. QED
    BY <1>2, <1>4, <1>5, <2>1, <2>2 DEF SchedTypeOK
<1>8. \A d \in Ids : IdInv(d)'
  <2>1. TAKE d \in Ids
  <2>2. IdInv(d) /\ d # None
    BY <1>1, IdsFinite
  <2>3. CASE d = curco
    <3>1. /\ ~Busy(d)' /\ FreeId(d)' /\ ~Pooled(d)' /\ status'[d] = "none"
          /\ d < nco' /\ d \notin loops' /\ d # curco'
      BY <1>2, <1>3, <1>4, <1>6, <2>2, <2>3 DEF Busy
    <3>2. QED
      BY <3>1 DEF IdInv
  <2>4. CASE d # curco
    <3>1. (Busy(d)' <=> Busy(d)) /\ inside'[d] = inside[d] /\ (Busy(d) => job'[inside[d]] = job[inside[d]])
      BY <1>4, <2>4 DEF Busy
    <3>2. QED
      BY <1>2, <1>6, <2>2, <2>4, <3>1 DEF IdInv
  <2>5. QED
    BY <2>3, <2>4
<1>9. AccountInv'
  <2>1. Distinct(pool.elem)' /\ Distinct(workq)' /\ nco' <= cap'
    BY <1>2 DEF AccountInv
  <2>2. QED
    BY <1>4, <1>5, <1>8, <2>1 DEF AccountInv
<1>10. QED
  BY <1>4, <1>7, <1>9

-----------------------------------------------------------------------------
(* The queues and the coroutines together.                                 *)

\* The first of the ring is resumed.
LEMMA OwnPopped ==
  ASSUME QueueInv, OwnIds \in Seq(Int), OwnIds # <<>>,
         OwnIds' = Tail(OwnIds), BatchIds' = BatchIds, OtherIds' = OtherIds,
         \A d \in Ids : WokenId(d) /\ d # Head(OwnIds) => WokenId(d)'
  PROVE  QueueInv'
<1>1. /\ Distinct(Tail(OwnIds)) /\ Head(OwnIds) \in SeqRange(OwnIds)
      /\ SeqRange(Tail(OwnIds)) = SeqRange(OwnIds) \ {Head(OwnIds)}
  BY DistinctTail DEF QueueInv
<1>2. \A d : WokenId(d) /\ d # Head(OwnIds) => WokenId(d)'
  BY DEF WokenId
<1>3. \A id \in SeqRange(OwnIds') :
        WokenId(id)' /\ id \notin SeqRange(BatchIds') \cup SeqRange(OtherIds')
  BY <1>1, <1>2 DEF QueueInv
<1>4. \A id \in SeqRange(BatchIds') : WokenId(id)' /\ id \notin SeqRange(OtherIds')
  BY <1>1, <1>2 DEF QueueInv
<1>5. \A id \in SeqRange(OtherIds') : WokenId(id)'
  BY <1>1, <1>2 DEF QueueInv
<1>6. QED
  BY <1>1, <1>3, <1>4, <1>5 DEF QueueInv

\* The first of the taken ids is resumed.
LEMMA BatchPopped ==
  ASSUME QueueInv, BatchIds \in Seq(Int), BatchIds # <<>>,
         OwnIds' = OwnIds, BatchIds' = Tail(BatchIds), OtherIds' = OtherIds,
         \A d \in Ids : WokenId(d) /\ d # Head(BatchIds) => WokenId(d)'
  PROVE  QueueInv'
<1>1. /\ Distinct(Tail(BatchIds)) /\ Head(BatchIds) \in SeqRange(BatchIds)
      /\ SeqRange(Tail(BatchIds)) = SeqRange(BatchIds) \ {Head(BatchIds)}
  BY DistinctTail DEF QueueInv
<1>2. \A d : WokenId(d) /\ d # Head(BatchIds) => WokenId(d)'
  BY DEF WokenId
<1>3. \A id \in SeqRange(OwnIds') :
        WokenId(id)' /\ id \notin SeqRange(BatchIds') \cup SeqRange(OtherIds')
  BY <1>1, <1>2 DEF QueueInv
<1>4. \A id \in SeqRange(BatchIds') : WokenId(id)' /\ id \notin SeqRange(OtherIds')
  BY <1>1, <1>2 DEF QueueInv
<1>5. \A id \in SeqRange(OtherIds') : WokenId(id)'
  BY <1>1, <1>2 DEF QueueInv
<1>6. QED
  BY <1>1, <1>3, <1>4, <1>5 DEF QueueInv

\* An id that is in no queue is pushed to one.
LEMMA IdPushed ==
  ASSUME QueueInv, OwnIds \in Seq(Int), OtherIds \in Seq(Int), NEW x \in Int,
         x \notin SeqRange(OwnIds) \cup SeqRange(BatchIds) \cup SeqRange(OtherIds),
         WokenId(x)', \A d \in Ids : WokenId(d) => WokenId(d)', BatchIds' = BatchIds,
         \/ OwnIds' = Append(OwnIds, x) /\ OtherIds' = OtherIds
         \/ OwnIds' = OwnIds /\ OtherIds' = Append(OtherIds, x)
  PROVE  QueueInv'
<1>1. \A d : WokenId(d) => WokenId(d)'
  BY DEF WokenId
<1>2. CASE OwnIds' = Append(OwnIds, x) /\ OtherIds' = OtherIds
  <2>1. Distinct(OwnIds') /\ SeqRange(OwnIds') = SeqRange(OwnIds) \cup {x}
    BY <1>2, DistinctAppend DEF QueueInv
  <2>2. QED
    BY <1>1, <1>2, <2>1 DEF QueueInv
<1>3. CASE OwnIds' = OwnIds /\ OtherIds' = Append(OtherIds, x)
  <2>1. Distinct(OtherIds') /\ SeqRange(OtherIds') = SeqRange(OtherIds) \cup {x}
    BY <1>3, DistinctAppend DEF QueueInv
  <2>2. QED
    BY <1>1, <1>3, <2>1 DEF QueueInv
<1>4. QED
  BY <1>2, <1>3

\* The id of a job that is owed its wake-up.
LEMMA OwedId ==
  ASSUME SchedTypeOK, AccountInv, QueueInv, NEW j \in owed
  PROVE  /\ IdOf(j) \in Ids /\ IdOf(j) \in Int /\ inside[IdOf(j)] = j /\ Busy(IdOf(j))
         /\ j \in Jobs /\ job[j] = "waiting" /\ status[IdOf(j)] \in {"running", "suspend"}
         /\ IdOf(j) \notin SeqRange(OwnIds) \cup SeqRange(BatchIds) \cup SeqRange(OtherIds)
<1>1. j \in Jobs /\ j # NoJob /\ JobInv(j)
  BY JobsAssumption DEF SchedTypeOK, AccountInv
<1>2. job[j] = "waiting" /\ Placed(j)
  BY <1>1 DEF JobInv
<1>3. IdOf(j) \in Ids /\ inside[IdOf(j)] = j
  BY <1>2 DEF IdOf, Placed
<1> HIDE DEF IdOf
<1>4. IdInv(IdOf(j)) /\ Busy(IdOf(j)) /\ status[IdOf(j)] \in {"none", "ready", "running", "suspend"}
  BY <1>1, <1>3 DEF SchedTypeOK, AccountInv, Busy
<1>5. status[IdOf(j)] \in {"running", "suspend"}
  BY <1>2, <1>3, <1>4 DEF IdInv
<1>6. ~WokenId(IdOf(j))
  BY <1>3 DEF WokenId
<1>7. QED
  BY <1>1, <1>2, <1>3, <1>4, <1>5, <1>6, IdsFinite DEF QueueInv

\* A queued id is that of a suspended coroutine, as long as none runs.
LEMMA WokenSleeps ==
  ASSUME SchedTypeOK, AccountInv, NEW id, WokenId(id)
  PROVE  /\ id \in Ids /\ Busy(id) /\ inside[id] \in Jobs /\ inside[id] \notin owed
         /\ job[inside[id]] = "waiting" /\ (curco = None => status[id] = "suspend")
<1>1. id \in Ids /\ Busy(id) /\ inside[id] \notin owed /\ job[inside[id]] = "waiting" /\ inside[id] \in Jobs
  BY DEF WokenId, SchedTypeOK, Busy
<1>2. IdInv(id) /\ status[id] \in {"none", "ready", "running", "suspend"}
  BY <1>1 DEF SchedTypeOK, AccountInv
<1>3. QED
  BY <1>1, <1>2, IdsFinite DEF IdInv

-----------------------------------------------------------------------------
(* Every step keeps the invariant.                                         *)

CoParts == SchedTypeOK /\ QueueTypeOK /\ AccountInv /\ CountInv /\ ChainsInv /\ QueueInv

\* A step of the schedule only.
LEMMA ScheduleStep ==
  ASSUME CoParts, UNCHANGED wakeVars, SchedTypeOK', AccountInv', CountInv',
         \A d \in Ids : WokenId(d) => WokenId(d)'
  PROVE  CoParts'
BY QueuesAside DEF CoParts

\* A task is started in a coroutine.
LEMMA StepDoTask ==
  ASSUME CoParts, NEW j \in Tasks, DoTask(j)
  PROVE  CoParts' /\ \E id : Goes(id, j)
<1>1. /\ curco = None /\ job[j] \in {"new", "queued"} /\ StartTask(j)
      /\ owed' = owed /\ workq' = workq /\ UNCHANGED wakeVars
  BY DEF DoTask, Idle, InLoop
<1>2. /\ workq' \in Seq(Tasks) /\ Distinct(workq)'
      /\ \A i \in 1..Len(workq') : workq'[i] # j /\ job[workq'[i]] = "queued"
  BY <1>1 DEF CoParts, SchedTypeOK, AccountInv, DoTask
<1>3. /\ SchedTypeOK' /\ AccountInv' /\ CountInv' /\ \E id : Goes(id, j)
      /\ \A d \in Ids : WokenId(d) => WokenId(d)'
  BY <1>1, <1>2, StartKeeps DEF CoParts
<1>4. QED
  BY <1>1, <1>3, ScheduleStep

\* The first of the queued tasks is started.
LEMMA StepDoQueuedTask ==
  ASSUME CoParts, DoQueuedTask
  PROVE  CoParts' /\ \E j, id : Goes(id, j) /\ job[j] = "queued"
<1>1. PICK j \in Tasks : GetTask(j) /\ StartTask(j)
  BY DEF DoQueuedTask
<1>2. curco = None /\ owed' = owed /\ UNCHANGED wakeVars
  BY DEF DoQueuedTask, Idle, InLoop
<1>3. workq \in Seq(Tasks) /\ Distinct(workq) /\ \A i \in 1..Len(workq) : job[workq[i]] = "queued"
  BY DEF CoParts, SchedTypeOK, AccountInv
<1>4. workq # <<>> /\ j = Head(workq) /\ workq' = Tail(workq)
  BY <1>1 DEF GetTask
<1>5. /\ workq' \in Seq(Tasks) /\ Distinct(workq') /\ j \in SeqRange(workq)
      /\ SeqRange(workq') = SeqRange(workq) \ {j}
  BY <1>3, <1>4, DistinctTail
<1>6. /\ job[j] = "queued"
      /\ \A i \in 1..Len(workq') : workq'[i] # j /\ job[workq'[i]] = "queued"
  <2>1. \A x \in SeqRange(workq) : job[x] = "queued"
    BY <1>3 DEF SeqRange
  <2>2. \A i \in 1..Len(workq') : workq'[i] \in SeqRange(workq')
    BY DEF SeqRange
  <2>3. QED
    BY <1>5, <2>1, <2>2
<1>7. /\ SchedTypeOK' /\ AccountInv' /\ CountInv' /\ \E id : Goes(id, j)
      /\ \A d \in Ids : WokenId(d) => WokenId(d)'
  BY <1>1, <1>2, <1>5, <1>6, StartKeeps DEF CoParts
<1>8. QED
  BY <1>2, <1>6, <1>7, ScheduleStep

\* The first id of the ring is resumed.
LEMMA StepDoResume ==
  ASSUME CoParts, DoResume
  PROVE  /\ CoParts' /\ OwnIds # <<>> /\ Goes(Head(OwnIds), inside[Head(OwnIds)])
         /\ OwnIds' = Tail(OwnIds) /\ BatchIds' = BatchIds /\ OtherIds' = OtherIds
<1>1. /\ curco = None /\ ~CqEmpty(ring) /\ ring' = CqPopFront(ring) /\ cap' = cap
      /\ ResumeId(CqFront(ring)) /\ UNCHANGED <<nco, freeid, poolVars, mem, list, tmp, owed>>
  BY DEF DoResume, Idle, InLoop
<1>2. /\ ring' \in Rings(RingCap) /\ OwnIds # <<>> /\ CqFront(ring) = Head(OwnIds)
      /\ OwnIds' = Tail(OwnIds)
  BY <1>1, RingPop, CapsAssumption DEF CoParts, QueueTypeOK, OwnIds
<1>3. BatchIds' = BatchIds /\ OtherIds' = OtherIds
  BY <1>1 DEF BatchIds, OtherIds
<1>4. OwnIds \in Seq(Int)
  BY QueuesType DEF CoParts
<1>5. PICK id : id = Head(OwnIds)
  OBVIOUS
<1>6. WokenId(id)
  BY <1>2, <1>4, <1>5, DistinctTail DEF CoParts, QueueInv
<1>7. /\ id \in Ids /\ Busy(id) /\ inside[id] \notin owed /\ status[id] = "suspend"
  BY <1>1, <1>6, WokenSleeps DEF CoParts
<1>8. /\ SchedTypeOK' /\ AccountInv' /\ CountInv' /\ Goes(id, inside[id])
      /\ \A d \in Ids : WokenId(d) /\ d # id => WokenId(d)'
  BY <1>1, <1>2, <1>5, <1>7, ResumeKeeps DEF CoParts
<1>9. QueueInv'
  BY <1>2, <1>3, <1>4, <1>5, <1>8, OwnPopped DEF CoParts
<1>10. QueueTypeOK' /\ ChainsInv'
  BY <1>1, <1>2, ChainsAside DEF CoParts, QueueTypeOK
<1>11. QED
  BY <1>2, <1>3, <1>5, <1>8, <1>9, <1>10 DEF CoParts

\* The list of the other threads' wake-ups is taken.
LEMMA StepTakeList ==
  ASSUME CoParts, TakeList
  PROVE  /\ CoParts' /\ inside' = inside /\ job' = job /\ curco' = curco
         /\ OwnIds' = OwnIds /\ BatchIds' = OtherIds /\ OtherIds' = <<>> /\ BatchIds = <<>>
<1>1. /\ tmp.count = 0 /\ UNCHANGED <<schedVars, poolVars, inside, job, owed>>
      /\ mem' = Join(mem, tmp, list).mem /\ tmp' = Join(mem, tmp, list).list
      /\ list' = Join(mem, tmp, list).rest /\ ring' = ring
  BY DEF TakeList, Idle, jobVars
<1>2. /\ QueueTypeOK' /\ ChainsInv'
      /\ OwnIds' = OwnIds /\ BatchIds' = OtherIds /\ OtherIds' = <<>> /\ BatchIds = <<>>
  BY <1>1, QueueTaken DEF CoParts
<1>3. SchedTypeOK' /\ AccountInv' /\ CountInv' /\ \A d \in Ids : WokenId(d) => WokenId(d)'
  BY <1>1, WakeKeeps DEF CoParts
<1>4. SeqRange(<<>>) = {} /\ Distinct(<<>>)
  BY EmptySeq DEF SeqRange, Distinct
<1>5. \A d : WokenId(d) => WokenId(d)'
  BY <1>3 DEF WokenId
<1>6. QueueInv'
  BY <1>2, <1>4, <1>5 DEF CoParts, QueueInv
<1>7. QED
  BY <1>1, <1>2, <1>3, <1>6 DEF CoParts, schedVars

\* The first id that was taken is resumed.
LEMMA StepResumeTaken ==
  ASSUME CoParts, ResumeTaken
  PROVE  /\ CoParts' /\ BatchIds # <<>> /\ Goes(Head(BatchIds), inside[Head(BatchIds)])
         /\ OwnIds' = OwnIds /\ BatchIds' = Tail(BatchIds) /\ OtherIds' = OtherIds
<1>1. /\ curco = None /\ tmp.count > 0 /\ cap' = cap
      /\ mem' = PopFront(mem, tmp).mem /\ tmp' = PopFront(mem, tmp).list
      /\ ResumeId(Front(mem, tmp)) /\ UNCHANGED <<nco, freeid, poolVars, ring, list, owed>>
  BY DEF ResumeTaken, InLoop
<1>2. /\ QueueTypeOK' /\ ChainsInv' /\ BatchIds # <<>> /\ Front(mem, tmp) = Head(BatchIds)
      /\ OwnIds' = OwnIds /\ BatchIds' = Tail(BatchIds) /\ OtherIds' = OtherIds
  BY <1>1, QueuePopped DEF CoParts
<1>3. BatchIds \in Seq(Int)
  BY QueuesType DEF CoParts
<1>4. PICK id : id = Head(BatchIds)
  OBVIOUS
<1>5. WokenId(id)
  BY <1>2, <1>3, <1>4, DistinctTail DEF CoParts, QueueInv
<1>6. id \in Ids /\ Busy(id) /\ inside[id] \notin owed /\ status[id] = "suspend"
  BY <1>1, <1>5, WokenSleeps DEF CoParts
<1>7. /\ SchedTypeOK' /\ AccountInv' /\ CountInv' /\ Goes(id, inside[id])
      /\ \A d \in Ids : WokenId(d) /\ d # id => WokenId(d)'
  BY <1>1, <1>2, <1>4, <1>6, ResumeKeeps DEF CoParts
<1>8. QueueInv'
  BY <1>2, <1>3, <1>4, <1>7, BatchPopped DEF CoParts
<1>9. QED
  BY <1>2, <1>4, <1>7, <1>8 DEF CoParts

\* A routine is started.
LEMMA StepStartRoutine ==
  ASSUME CoParts, NEW id \in Ids, StartRoutine(id)
  PROVE  CoParts' /\ Goes(id, inside[id]) /\ job[inside[id]] = "queued"
<1>1. /\ curco = None /\ status[id] = "ready" /\ cap' = cap /\ ResumeId(id)
      /\ UNCHANGED <<nco, freeid, poolVars, wakeVars, owed>>
  BY DEF StartRoutine, Idle, InLoop
<1>2. Busy(id) /\ job[inside[id]] = "queued" /\ inside[id] \in Jobs
  <2>1. IdInv(id) /\ inside[id] \in Jobs \cup {NoJob}
    BY DEF CoParts, AccountInv, SchedTypeOK
  <2>2. QED
    BY <1>1, <2>1 DEF IdInv, Busy
<1>3. inside[id] \notin owed /\ ~WokenId(id)
  BY <1>2 DEF CoParts, AccountInv, JobInv, WokenId
<1>4. /\ SchedTypeOK' /\ AccountInv' /\ CountInv' /\ Goes(id, inside[id])
      /\ \A d \in Ids : WokenId(d) /\ d # id => WokenId(d)'
  BY <1>1, <1>2, <1>3, ResumeKeeps DEF CoParts
<1>5. QED
  BY <1>1, <1>2, <1>3, <1>4, ScheduleStep

\* A job is woken in the thread: its id is in the ring, unless that is full.
LEMMA StepWakeOwn ==
  ASSUME CoParts, NEW j \in Jobs, WakeOwn(j)
  PROVE  /\ CoParts' /\ BatchIds' = BatchIds /\ OtherIds' = OtherIds
         /\ \/ OwnIds' = OwnIds
            \/ \E id \in Ids : inside[id] = j /\ job[j] = "waiting" /\ OwnIds' = Append(OwnIds, id)
<1>1. /\ j \in owed /\ owed' = owed \ {j} /\ ring' = CqPushBack(ring, IdOf(j))
      /\ UNCHANGED <<schedVars, poolVars, mem, list, tmp, inside, job>>
  BY DEF WakeOwn
<1>2. PICK id \in Ids :
        /\ id = IdOf(j) /\ id \in Int /\ inside[id] = j /\ Busy(id) /\ job[j] = "waiting"
        /\ id \notin SeqRange(OwnIds) \cup SeqRange(BatchIds) \cup SeqRange(OtherIds)
  BY <1>1, OwedId DEF CoParts
<1>3. SchedTypeOK' /\ AccountInv' /\ CountInv' /\ \A d \in Ids : WokenId(d) => WokenId(d)'
  BY <1>1, WakeKeeps DEF CoParts
<1>4. OwnIds \in Seq(Int) /\ OtherIds \in Seq(Int)
  BY QueuesType DEF CoParts
<1>5. BatchIds' = BatchIds /\ OtherIds' = OtherIds
  BY <1>1 DEF BatchIds, OtherIds
<1>6. ChainsInv'
  BY <1>1, ChainsAside DEF CoParts
<1>7. CASE CqFull(ring)
  <2>1. ring' = ring
    BY <1>1, <1>7 DEF CqPushBack
  <2>2. QueueTypeOK' /\ QueueInv'
    BY <1>1, <1>3, <2>1, QueuesAside DEF CoParts, wakeVars
  <2>3. QED
    BY <1>3, <1>5, <1>6, <2>1, <2>2 DEF CoParts, OwnIds
<1>8. CASE ~CqFull(ring)
  <2>1. /\ ring' \in Rings(RingCap) /\ OwnIds' = Append(OwnIds, id)
    BY <1>1, <1>2, <1>8, RingPush, CapsAssumption DEF CoParts, QueueTypeOK, OwnIds
  <2>2. WokenId(id)'
    BY <1>1, <1>2 DEF WokenId, Busy
  <2>3. QueueInv'
    BY <1>2, <1>3, <1>4, <1>5, <2>1, <2>2, IdPushed DEF CoParts
  <2>4. QueueTypeOK'
    BY <1>1, <2>1 DEF CoParts, QueueTypeOK
  <2>5. QED
    BY <1>2, <1>3, <1>5, <1>6, <2>1, <2>3, <2>4 DEF CoParts
<1>9. QED
  BY <1>7, <1>8

\* A job is woken by another thread: its id is in the list.
LEMMA StepWakeOther ==
  ASSUME CoParts, NEW j \in Jobs, WakeOther(j)
  PROVE  /\ CoParts' /\ OwnIds' = OwnIds /\ BatchIds' = BatchIds
         /\ \E id \in Ids : inside[id] = j /\ job[j] = "waiting" /\ OtherIds' = Append(OtherIds, id)
<1>1. /\ j \in owed /\ owed' = owed \ {j} /\ CanPush(mem)
      /\ mem' = PushBack(mem, list, IdOf(j)).mem /\ list' = PushBack(mem, list, IdOf(j)).list
      /\ ring' = ring /\ tmp' = tmp /\ UNCHANGED <<schedVars, poolVars, inside, job>>
  BY DEF WakeOther
<1>2. PICK id \in Ids :
        /\ id = IdOf(j) /\ id \in Int /\ inside[id] = j /\ Busy(id) /\ job[j] = "waiting"
        /\ id \notin SeqRange(OwnIds) \cup SeqRange(BatchIds) \cup SeqRange(OtherIds)
  BY <1>1, OwedId DEF CoParts
<1>3. SchedTypeOK' /\ AccountInv' /\ CountInv' /\ \A d \in Ids : WokenId(d) => WokenId(d)'
  BY <1>1, WakeKeeps DEF CoParts
<1>4. OwnIds \in Seq(Int) /\ OtherIds \in Seq(Int)
  BY QueuesType DEF CoParts
<1>5. /\ QueueTypeOK' /\ ChainsInv'
      /\ OwnIds' = OwnIds /\ BatchIds' = BatchIds /\ OtherIds' = Append(OtherIds, id)
  BY <1>1, <1>2, QueuePushed DEF CoParts
<1>6. WokenId(id)'
  BY <1>1, <1>2 DEF WokenId, Busy
<1>7. QueueInv'
  BY <1>2, <1>3, <1>4, <1>5, <1>6, IdPushed DEF CoParts
<1>8. QED
  BY <1>2, <1>3, <1>5, <1>7 DEF CoParts

\* A job is woken and resumed in the loop, without a queue.
LEMMA StepWakeAtOnce ==
  ASSUME CoParts, NEW j \in Jobs, WakeAtOnce(j)
  PROVE  CoParts' /\ \E id : Goes(id, j) /\ job[j] = "waiting"
<1>1. /\ j \in owed /\ owed' = owed \ {j} /\ curco = None /\ cap' = cap
      /\ ResumeId(IdOf(j)) /\ UNCHANGED <<nco, freeid, poolVars, wakeVars>>
  BY DEF WakeAtOnce, Idle, InLoop
<1>2. PICK id \in Ids :
        /\ id = IdOf(j) /\ inside[id] = j /\ Busy(id) /\ job[j] = "waiting"
        /\ status[id] \in {"running", "suspend"}
  BY <1>1, OwedId DEF CoParts
<1>3. status[id] = "suspend" /\ ~WokenId(id)
  BY <1>1, <1>2, IdsFinite DEF CoParts, AccountInv, IdInv, WokenId
<1>4. /\ SchedTypeOK' /\ AccountInv' /\ CountInv' /\ Goes(id, inside[id])
      /\ \A d \in Ids : WokenId(d) /\ d # id => WokenId(d)'
  BY <1>1, <1>2, <1>3, ResumeKeeps DEF CoParts
<1>5. QED
  BY <1>1, <1>2, <1>3, <1>4, ScheduleStep

\* The ring of ids is empty at first.
LEMMA CoInitEmpty ==
  ASSUME CoInit
  PROVE  ring \in Rings(RingCap) /\ OwnIds = <<>>
<1>1. ring = [cap |-> RingCap + 1, head |-> 0, tail |-> 0, elem |-> [i \in 0..RingCap |-> 0]]
  BY DEF CoInit, CqNew, Raw
<1>2. ring \in Rings(RingCap)
  BY <1>1, CapsAssumption DEF Rings
<1>3. CqSize(ring) = 0 /\ OwnIds \in Seq(Int) /\ Len(OwnIds) = CqSize(ring)
  BY <1>1, <1>2, RingSlots, CapsAssumption DEF OwnIds
<1>4. QED
  BY <1>2, <1>3, EmptySeq

\* The invariant holds in an empty schedule.
LEMMA CoInitInv == CoInit => CoInv
<1> SUFFICES ASSUME CoInit PROVE CoInv
  OBVIOUS
<1>1. VectorOK(SvNew(VecCap)) /\ SvNew(VecCap).elem = <<>>
  BY CapsAssumption DEF SvNew, VectorOK
<1>2. Distinct(<<>>) /\ SeqRange(<<>>) = {}
  BY EmptySeq DEF Distinct, SeqRange
<1>3. /\ cap = DefaultCap /\ nco = 0 /\ freeid = SvNew(VecCap) /\ pool = SvNew(VecCap)
      /\ status = [id \in Ids |-> "none"] /\ curco = None /\ loops = {} /\ workq = <<>>
      /\ wtask = [id \in Ids |-> NoJob] /\ inside = [id \in Ids |-> NoJob]
      /\ job = [j \in Jobs |-> "new"] /\ owed = {} /\ ended = FALSE
  BY DEF CoInit
<1>4. SchedTypeOK
  BY <1>1, <1>3, CapsAssumption DEF SchedTypeOK
<1>5. \A d \in Ids : ~FreeId(d) /\ ~Pooled(d) /\ ~Busy(d) /\ status[d] = "none" /\ d >= 0 /\ d # None /\ d \in Nat
  BY <1>1, <1>2, <1>3, IdsFinite DEF FreeId, Pooled, Busy
<1>6. AccountInv
  <2>1. \A d \in Ids : IdInv(d)
    BY <1>3, <1>5 DEF IdInv
  <2>2. \A j \in Jobs : JobInv(j)
    BY <1>3, JobsAssumption DEF JobInv, Placed
  <2>3. Distinct(freeid.elem) /\ Distinct(pool.elem) /\ Distinct(workq) /\ nco <= cap
    BY <1>1, <1>2, <1>3, CapsAssumption
  <2>4. \A i \in 1..Len(workq) : job[workq[i]] = "queued"
    BY <1>3
  <2>5. QED
    BY <1>5, <2>1, <2>2, <2>3, <2>4 DEF AccountInv
<1>7. CountInv
  <2>1. Cardinality(loops) = 0 /\ Cardinality(Started) \in Nat /\ Cardinality(Made) \in Nat
    BY <1>3, <1>4, JobsCounted, FS_EmptySet
  <2>2. QED
    BY <1>3, <2>1 DEF CountInv
<1>8. ring \in Rings(RingCap) /\ OwnIds = <<>>
  BY CoInitEmpty
<1>9. mem \in Memory /\ list \in Lists /\ tmp \in Lists /\ list = NewList /\ tmp = NewList
  BY DEF CoInit, NewMemory, NewList, Free, Null, Memory, Lists
<1>10. NewList.count = 0 /\ NewList.head = Null /\ NewList.tail = Null
  BY DEF NewList
<1>11. PICK none \in [1..NewList.count -> Addresses] : IsChain(mem, NewList, none)
  <2> DEFINE none == [i \in 1..0 |-> 1]
  <2>1. none \in [1..NewList.count -> Addresses]
    BY <1>10
  <2>2. IsChain(mem, NewList, none)
    BY <1>10, <2>1 DEF IsChain
  <2> HIDE DEF none
  <2>3. QED
    BY <2>1, <2>2
<1>12. ChainsInv
  <2>1. \A i \in 1..tmp.count, k \in 1..list.count : none[i] # none[k]
    BY <1>9, <1>10
  <2>2. /\ none \in [1..tmp.count -> Addresses] /\ none \in [1..list.count -> Addresses]
        /\ IsChain(mem, tmp, none) /\ IsChain(mem, list, none)
    BY <1>9, <1>11
  <2>3. QED
    BY ONLY <2>1, <2>2 DEF ChainsInv
<1>13. BatchIds \in Seq(Int) /\ Len(BatchIds) = 0 /\ OtherIds \in Seq(Int) /\ Len(OtherIds) = 0
  BY <1>9, <1>10, <1>11, ValuesAlong DEF BatchIds, OtherIds
<1>14. OwnIds = <<>> /\ BatchIds = <<>> /\ OtherIds = <<>>
  BY <1>8, <1>13, EmptySeq
<1>15. QueueInv
  BY <1>2, <1>14 DEF QueueInv
<1>16. QED
  BY <1>3, <1>4, <1>6, <1>7, <1>8, <1>9, <1>12, <1>15 DEF CoInv, QueueTypeOK

\* The loop ends: nothing is left to be resumed, nobody to be woken.
LEMMA StepRunEnds ==
  ASSUME CoInv, CoRunEnds
  PROVE  CoInv'
<1>1. /\ ~ended /\ curco' = None /\ loops' = {} /\ ended' = TRUE /\ tmp' = tmp /\ tmp.count = 0
      /\ ring' = CqClear(ring)
  BY DEF CoRunEnds, Idle, InLoop, ClrTask, CloseSchedule
<1>2. ring \in Rings(RingCap) /\ RingCap \in Nat
  BY <1>1, CapsAssumption DEF CoInv, QueueTypeOK
<1>3. ring' \in Rings(RingCap) /\ ring'.head = ring'.tail
  <2>1. ring \in [cap : {RingCap + 1}, head : 0..RingCap, tail : 0..RingCap, elem : [0..RingCap -> Int]]
    BY <1>2 DEF Rings
  <2>2. CqCapacity(ring) = RingCap
    BY <1>2, <2>1 DEF CqCapacity
  <2>3. PICK e \in [0..RingCap -> Int] : e = [i \in 0..RingCap |-> 0]
    <3>1. [i \in 0..RingCap |-> 0] \in [0..RingCap -> Int]
      OBVIOUS
    <3>2. QED
      BY ONLY <3>1
  <2>4. ring' = [ring EXCEPT !.head = ring.tail, !.elem = e]
    BY <1>1, <2>2, <2>3 DEF CqClear, Raw
  <2>5. QED
    BY <1>2, <2>1, <2>4 DEF Rings
<1>4. CqSize(ring') = 0 /\ Contents(ring') \in Seq(Int) /\ Len(Contents(ring')) = CqSize(ring')
  BY <1>2, <1>3, RingSlots
<1>5. Contents(ring') = <<>>
  BY <1>4, EmptySeq
<1>6. QED
  BY <1>1, <1>5 DEF CoInv

\* Once the loop is over late wake-ups come to the list, which nobody looks at.
AfterLoop == UNCHANGED <<curco, loops, inside, job, tmp, ring, ended>>
LEMMA EndedStays == CoInv /\ ended /\ [CoNext]_threadVars => AfterLoop
<1> SUFFICES ASSUME CoInv, ended, [CoNext]_threadVars PROVE AfterLoop
  OBVIOUS
<1>1. curco = None /\ loops = {}
  BY DEF CoInv
<1>2. ~Idle /\ ~InLoop /\ ~Own
  BY DEF Idle, InLoop, Own
<1>3. ~Loop /\ ~CoRunEnds
  BY <1>2 DEF Loop, CoRunEnds, DoQueuedTask, DoResume, TakeList, ResumeTaken, StartRoutine
<1>4. ~JobSteps
  BY <1>1 DEF JobSteps, GiveId, Yield, TaskEnds, RoutineEnds
<1>5. \A j : ~ExecOp(j) /\ ~AddTask(j) /\ ~Create(j)
  BY <1>2 DEF ExecOp, DoTask, AddTask, Create
<1>6. \A j : ~WakeOwn(j) /\ ~WakeOther(j) /\ ~WakeAtOnce(j)
  BY <1>2 DEF WakeOwn, WakeOther, WakeAtOnce
<1>7. \A j : WakeLate(j) => AfterLoop
  BY DEF WakeLate, AfterLoop, schedVars, poolVars
<1>8. UNCHANGED threadVars => AfterLoop
  BY DEF AfterLoop, threadVars, schedVars, poolVars, wakeVars, jobVars
<1>9. QED
  BY <1>3, <1>4, <1>5, <1>6, <1>7, <1>8 DEF CoNext

\* Every step keeps the invariant.
LEMMA CoNextInv == CoInv /\ [CoNext]_threadVars => CoInv'
<1> SUFFICES ASSUME CoInv, [CoNext]_threadVars PROVE CoInv'
  OBVIOUS
<1>1. CASE ended
  <2>1. AfterLoop
    BY <1>1, EndedStays
  <2>2. QED
    BY <1>1, <2>1 DEF CoInv, AfterLoop
<1>2. CASE ~ended
  <2>1. CoParts
    BY <1>2 DEF CoInv, CoParts
  <2>2. CoParts' /\ ended' = ended => CoInv'
    BY <1>2 DEF CoInv, CoParts
  <2>3. CASE Loop
    <3>1. ended' = ended
      BY <2>3 DEF Loop, DoQueuedTask, DoResume, TakeList, ResumeTaken, StartRoutine
    <3>2. CoParts'
      BY <2>1, <2>3, StepDoQueuedTask, StepDoResume, StepTakeList, StepResumeTaken, StepStartRoutine
         DEF Loop
    <3>3. QED
      BY <2>2, <3>1, <3>2
  <2>4. CASE JobSteps
    <3>1. ended' = ended /\ UNCHANGED wakeVars
      BY <2>4 DEF JobSteps, GiveId, Yield, TaskEnds, RoutineEnds
    <3>2. SchedTypeOK' /\ AccountInv' /\ CountInv' /\ \A d \in Ids : WokenId(d) => WokenId(d)'
      BY <2>1, <2>4, GiveIdKeeps, YieldKeeps, TaskEndsKeeps, RoutineEndsKeeps DEF JobSteps, CoParts
    <3>3. CoParts'
      BY <2>1, <3>1, <3>2, ScheduleStep
    <3>4. QED
      BY <2>2, <3>1, <3>3
  <2>5. CASE CoRunEnds
    BY <2>5, StepRunEnds
  <2>6. ASSUME NEW j \in Tasks, ExecOp(j) PROVE CoInv'
    <3>1. ended' = ended
      BY <2>6 DEF ExecOp, DoTask
    <3>2. CoParts'
      BY <2>1, <2>6, StepDoTask DEF ExecOp
    <3>3. QED
      BY <2>2, <3>1, <3>2
  <2>7. ASSUME NEW j \in Tasks, AddTask(j) PROVE CoInv'
    <3>1. ended' = ended /\ UNCHANGED wakeVars
      BY <2>7 DEF AddTask
    <3>2. SchedTypeOK' /\ AccountInv' /\ CountInv' /\ \A d \in Ids : WokenId(d) => WokenId(d)'
      BY <2>1, <2>7, AddTaskKeeps DEF CoParts
    <3>3. CoParts'
      BY <2>1, <3>1, <3>2, ScheduleStep
    <3>4. QED
      BY <2>2, <3>1, <3>3
  <2>8. ASSUME NEW j \in Routines, Create(j) PROVE CoInv'
    <3>1. ended' = ended /\ UNCHANGED wakeVars
      BY <2>8 DEF Create
    <3>2. SchedTypeOK' /\ AccountInv' /\ CountInv' /\ \A d \in Ids : WokenId(d) => WokenId(d)'
      BY <2>1, <2>8, CreateKeeps DEF CoParts
    <3>3. CoParts'
      BY <2>1, <3>1, <3>2, ScheduleStep
    <3>4. QED
      BY <2>2, <3>1, <3>3
  <2>9. ASSUME NEW j \in Jobs, WakeOwn(j) \/ WakeOther(j) \/ WakeAtOnce(j) PROVE CoInv'
    <3>1. ended' = ended
      BY <2>9 DEF WakeOwn, WakeOther, WakeAtOnce
    <3>2. CoParts'
      BY <2>1, <2>9, StepWakeOwn, StepWakeOther, StepWakeAtOnce
    <3>3. QED
      BY <2>2, <3>1, <3>2
  <2>10. CASE UNCHANGED threadVars
    <3>1. ended' = ended /\ owed' \subseteq owed
          /\ UNCHANGED <<schedVars, poolVars, inside, job>> /\ UNCHANGED wakeVars
      BY <2>10 DEF threadVars, jobVars
    <3>2. SchedTypeOK' /\ AccountInv' /\ CountInv' /\ \A d \in Ids : WokenId(d) => WokenId(d)'
      BY <2>1, <3>1, WakeKeeps DEF CoParts
    <3>3. CoParts'
      BY <2>1, <3>1, <3>2, ScheduleStep
    <3>4. QED
      BY <2>2, <3>1, <3>3
  <2>11. \A j \in Jobs : ~WakeLate(j)
    BY <1>2 DEF WakeLate
  <2>12. QED
    BY <2>3, <2>4, <2>5, <2>6, <2>7, <2>8, <2>9, <2>10, <2>11 DEF CoNext
<1>3. QED
  BY <1>1, <1>2

\* Whatever the jobs do and whoever wakes them, the inductive invariant holds.
THEOREM CoroutineInvariant == CoSpec => []CoInv
<1>1. QED
  BY CoInitInv, CoNextInv, PTL DEF CoSpec

\* Every id ever given out is free, pooled or has a job on its stack, and is so
\* once; and no job is on two stacks.
THEOREM CoroutineAccounted == CoSpec => []CoroutinesAccounted
<1>1. CoInv => CoroutinesAccounted
  <2> SUFFICES ASSUME CoInv, ~ended PROVE CoroutinesAccounted
    BY DEF CoroutinesAccounted
  <2> DEFINE free == SeqRange(freeid.elem)
             idle == SeqRange(pool.elem)
             busy == {id \in Ids : inside[id] # NoJob}
  <2>1. /\ SchedTypeOK /\ AccountInv /\ CountInv
    BY DEF CoInv
  <2>2. /\ VectorOK(freeid) /\ VectorOK(pool) /\ Distinct(freeid.elem) /\ Distinct(pool.elem)
        /\ nco \in Nat /\ nco <= cap /\ \A id \in Ids : IdInv(id)
        /\ \A a, b \in Ids : inside[a] = inside[b] /\ Busy(a) => a = b
    BY <2>1 DEF SchedTypeOK, AccountInv
  <2>3. free \subseteq Ids /\ idle \subseteq Ids
    BY <2>2, ElementOfSeq DEF VectorOK, SeqRange
  <2>4. 0..nco - 1 \subseteq Ids
    <3>1. nco <= Cardinality(Jobs)
      BY <2>1, <2>2, JobsCounted, IdsFinite DEF CountInv
    <3>2. QED
      BY <2>2, <3>1, IdsFinite
  <2>5. \A id \in Ids : /\ id \in 0..nco - 1 <=> id \in free \cup idle \cup busy
                        /\ ~(id \in free /\ id \in idle) /\ ~(id \in busy /\ id \in free \cup idle)
                        /\ status[id] = "none" <=> id \notin idle \cup busy
    <3>1. TAKE id \in Ids
    <3>2. /\ IdInv(id) /\ id \in Nat
          /\ FreeId(id) <=> id \in free
          /\ Pooled(id) <=> id \in idle
          /\ Busy(id) <=> id \in busy
      BY <2>2, IdsFinite DEF FreeId, Pooled, Busy
    <3>3. id < nco <=> id \in 0..nco - 1
      BY <2>2, <3>2
    <3> HIDE DEF free, idle, busy
    <3>4. QED
      BY <3>2, <3>3 DEF IdInv
  <2>6. \A a, b \in busy : inside[a] = inside[b] => a = b
    BY <2>2 DEF Busy
  <2>7. free \cup idle \cup busy = 0..nco - 1 /\ free \cap idle = {} /\ busy \cap (free \cup idle) = {}
    <3> HIDE DEF free, idle
    <3>1. QED
      BY <2>3, <2>4, <2>5
  <2>8. QED
    BY <2>2, <2>5, <2>6, <2>7 DEF CoroutinesAccounted
<1>2. QED
  BY <1>1, CoroutineInvariant, PTL

\* Three sequences without repetition that have nothing in common, one after
\* the other.
LEMMA DistinctThree ==
  ASSUME NEW S, NEW a \in Seq(S), NEW b \in Seq(S), NEW c \in Seq(S),
         Distinct(a), Distinct(b), Distinct(c),
         SeqRange(a) \cap (SeqRange(b) \cup SeqRange(c)) = {}, SeqRange(b) \cap SeqRange(c) = {}
  PROVE  /\ Distinct(a \o b \o c)
         /\ SeqRange(a \o b \o c) = SeqRange(a) \cup SeqRange(b) \cup SeqRange(c)
<1>1. ASSUME NEW u \in Seq(S), NEW v \in Seq(S), Distinct(u), Distinct(v),
             SeqRange(u) \cap SeqRange(v) = {}
      PROVE  /\ u \o v \in Seq(S) /\ Distinct(u \o v)
             /\ SeqRange(u \o v) = SeqRange(u) \cup SeqRange(v)
  <2>1. /\ u \o v \in Seq(S) /\ Len(u \o v) = Len(u) + Len(v) /\ Len(u) \in Nat /\ Len(v) \in Nat
        /\ \A i \in 1..Len(u) + Len(v) : (u \o v)[i] = IF i <= Len(u) THEN u[i] ELSE v[i - Len(u)]
    BY ConcatProperties, LenProperties
  <2> DEFINE w == u \o v
  <2> HIDE DEF w
  <2>2. /\ w \in Seq(S) /\ Len(w) = Len(u) + Len(v)
        /\ \A i \in 1..Len(w) : w[i] = IF i <= Len(u) THEN u[i] ELSE v[i - Len(u)]
    BY <2>1 DEF w
  <2>3. \A i \in 1..Len(w) : \/ i \in 1..Len(u) /\ w[i] = u[i]
                             \/ i > Len(u) /\ i - Len(u) \in 1..Len(v) /\ w[i] = v[i - Len(u)]
    BY <2>1, <2>2
  <2>4. \A i \in 1..Len(u), k \in 1..Len(v) : u[i] # v[k]
    BY <1>1 DEF SeqRange
  <2>5. ASSUME NEW i \in 1..Len(w), NEW k \in 1..Len(w), w[i] = w[k] PROVE i = k
    <3>1. CASE i \in 1..Len(u) /\ w[i] = u[i] /\ k \in 1..Len(u) /\ w[k] = u[k]
      BY <1>1, <2>5, <3>1 DEF Distinct
    <3>2. CASE /\ i > Len(u) /\ i - Len(u) \in 1..Len(v) /\ w[i] = v[i - Len(u)]
               /\ k > Len(u) /\ k - Len(u) \in 1..Len(v) /\ w[k] = v[k - Len(u)]
      <4>1. i - Len(u) = k - Len(u)
        BY <1>1, <2>5, <3>2 DEF Distinct
      <4>2. QED
        BY <2>1, <2>2, <4>1
    <3>3. QED
      BY <2>3, <2>4, <2>5, <3>1, <3>2
  <2>6. Distinct(w)
    BY <2>5 DEF Distinct
  <2>7. SeqRange(w) \subseteq SeqRange(u) \cup SeqRange(v)
    BY <2>3 DEF SeqRange
  <2>8. SeqRange(u) \subseteq SeqRange(w)
    <3>1. \A i \in 1..Len(u) : i \in 1..Len(w) /\ w[i] = u[i]
      BY <2>1, <2>2
    <3>2. QED
      BY <3>1 DEF SeqRange
  <2>9. SeqRange(v) \subseteq SeqRange(w)
    <3>1. \A i \in 1..Len(v) : i + Len(u) \in 1..Len(w) /\ w[i + Len(u)] = v[i]
      <4>1. TAKE i \in 1..Len(v)
      <4>2. PICK n \in Nat, m \in Nat : n = Len(u) /\ m = Len(v)
        BY <2>1
      <4>3. Len(w) = n + m /\ i \in 1..m
        BY <2>2, <4>2
      <4>4. i + n \in 1..n + m /\ ~(i + n <= n) /\ (i + n) - n = i
        BY <4>3
      <4>5. \A x \in 1..n + m : w[x] = IF x <= n THEN u[x] ELSE v[x - n]
        BY <2>2, <4>2, <4>3
      <4>6. w[i + n] = IF i + n <= n THEN u[i + n] ELSE v[(i + n) - n]
        BY ONLY <4>4, <4>5
      <4>7. w[i + n] = v[i]
        BY ONLY <4>4, <4>6
      <4>8. QED
        BY <4>2, <4>3, <4>4, <4>7
    <3>2. QED
      BY <3>1 DEF SeqRange
  <2>10. QED
    BY <2>1, <2>6, <2>7, <2>8, <2>9 DEF w
<1>2. PICK d \in Seq(S) :
        d = a \o b /\ Distinct(d) /\ SeqRange(d) = SeqRange(a) \cup SeqRange(b)
  BY <1>1
<1>3. /\ Distinct(d \o c) /\ SeqRange(d \o c) = SeqRange(d) \cup SeqRange(c)
  BY <1>1, <1>2
<1>4. QED
  BY <1>2, <1>3

\* The three queues, and all of them.
LEMMA QueuesTogether ==
  ASSUME CoParts
  PROVE  /\ OwnIds \in Seq(Int) /\ BatchIds \in Seq(Int) /\ OtherIds \in Seq(Int)
         /\ Queued \in Seq(Int) /\ Distinct(Queued)
         /\ SeqRange(Queued) = SeqRange(OwnIds) \cup SeqRange(BatchIds) \cup SeqRange(OtherIds)
<1>1. OwnIds \in Seq(Int) /\ BatchIds \in Seq(Int) /\ OtherIds \in Seq(Int) /\ QueueInv
  BY QueuesType DEF CoParts
<1>2. Queued = OwnIds \o BatchIds \o OtherIds
  BY DEF Queued, OwnIds, BatchIds, OtherIds
<1>3. Queued \in Seq(Int)
  BY <1>1, <1>2, ConcatProperties
<1>4. /\ Distinct(Queued)
      /\ SeqRange(Queued) = SeqRange(OwnIds) \cup SeqRange(BatchIds) \cup SeqRange(OtherIds)
  BY <1>1, <1>2, DistinctThree DEF QueueInv
<1>5. QED
  BY <1>1, <1>3, <1>4

\* No id is in two queues, or twice in one, and every queued id is that of a
\* coroutine whose job waits and is owed nothing: nobody resumes a coroutine
\* that has gone back to its pool or changed hands.
THEOREM CoroutineQueuedOnce == CoSpec => []QueuedOnce
<1>1. CoInv => QueuedOnce
  <2> SUFFICES ASSUME CoInv, ~ended PROVE QueuedOnce
    BY DEF QueuedOnce
  <2>1. CoParts
    BY DEF CoInv, CoParts
  <2>2. \A id \in SeqRange(Queued) : WokenId(id)
    BY <2>1, QueuesTogether DEF CoParts, QueueInv
  <2>3. QED
    BY <2>1, <2>2, QueuesTogether DEF QueuedOnce, WokenId, Busy
<1>2. QED
  BY <1>1, CoroutineInvariant, PTL

-----------------------------------------------------------------------------
(* The refinement of the schedule of jobs.                                 *)

QueuedId(id) == id \in SeqRange(OwnIds) \cup SeqRange(BatchIds) \cup SeqRange(OtherIds)
InOneQueue(j) == \E id \in Ids : QueuedId(id) /\ inside[id] = j

\* What the abstract variables are, while the loop runs.
View ==
  /\ JobStates = [j \in Jobs |->
       IF job[j] = "done" THEN "done"
       ELSE IF job[j] \in {"new", "queued"} THEN "new"
       ELSE IF curco # None /\ inside[curco] = j THEN "running"
       ELSE IF InOneQueue(j) THEN "woken" ELSE "waiting"]
  /\ OwnJobs = JobsOf(OwnIds) /\ BatchJobs = JobsOf(BatchIds) /\ OtherJobs = JobsOf(OtherIds)
  /\ \A j \in Jobs : Schedule!InQueue(j) <=> InOneQueue(j)
  /\ Schedule!NoneRuns <=> curco = None

\* The jobs of a queue of ids.
LEMMA JobsOfIds ==
  ASSUME NEW s \in Seq(Int)
  PROVE  /\ Len(JobsOf(s)) = Len(s) /\ \A i \in 1..Len(s) : JobsOf(s)[i] = inside[s[i]]
         /\ SeqRange(JobsOf(s)) = {inside[id] : id \in SeqRange(s)}
<1>1. Len(s) \in Nat
  BY LenProperties
<1>2. Len(JobsOf(s)) = Len(s) /\ \A i \in 1..Len(s) : JobsOf(s)[i] = inside[s[i]]
  BY <1>1 DEF JobsOf
<1>3. QED
  BY <1>2 DEF SeqRange

\* What a job can see follows from the invariant.
LEMMA CoView == CoParts /\ ~ended => View
<1> SUFFICES ASSUME CoParts, ~ended PROVE View
  OBVIOUS
<1>1. /\ OwnIds \in Seq(Int) /\ BatchIds \in Seq(Int) /\ OtherIds \in Seq(Int) /\ QueueInv
      /\ Queued \in Seq(Int)
      /\ SeqRange(Queued) = SeqRange(OwnIds) \cup SeqRange(BatchIds) \cup SeqRange(OtherIds)
  BY QueuesTogether DEF CoParts
<1>2. SchedTypeOK /\ AccountInv
  BY DEF CoParts
<1>3. \A id : QueuedId(id) => id \in Ids
  BY <1>1 DEF QueuedId, QueueInv, WokenId
<1>4. \A j \in Jobs : j \in SeqRange(JobsOf(Queued)) <=> InOneQueue(j)
  <2>1. SeqRange(JobsOf(Queued)) = {inside[id] : id \in SeqRange(Queued)}
    BY <1>1, JobsOfIds
  <2>2. QED
    BY <1>1, <1>3, <2>1 DEF InOneQueue, QueuedId
<1>5. OwnJobs = JobsOf(OwnIds) /\ BatchJobs = JobsOf(BatchIds) /\ OtherJobs = JobsOf(OtherIds)
  BY DEF OwnJobs, BatchJobs, OtherJobs, OwnIds, BatchIds, OtherIds
<1>6. \A j \in Jobs : Schedule!InQueue(j) <=> InOneQueue(j)
  <2>1. TAKE j \in Jobs
  <2>2. Schedule!InQueue(j) <=>
          j \in SeqRange(OwnJobs) \cup SeqRange(OtherJobs) \cup SeqRange(BatchJobs)
    BY DEF Schedule!InQueue, SeqRange
  <2>3. /\ SeqRange(OwnJobs) = {inside[id] : id \in SeqRange(OwnIds)}
        /\ SeqRange(OtherJobs) = {inside[id] : id \in SeqRange(OtherIds)}
        /\ SeqRange(BatchJobs) = {inside[id] : id \in SeqRange(BatchIds)}
    BY <1>1, <1>5, JobsOfIds
  <2>4. QED
    BY <1>3, <2>2, <2>3 DEF InOneQueue, QueuedId
<1>7. curco # None => curco \in Ids /\ inside[curco] \in Jobs /\ job[inside[curco]] \in {"running", "waiting"}
  BY RunningJob DEF CoParts
<1>8. JobStates = [j \in Jobs |->
       IF job[j] = "done" THEN "done"
       ELSE IF job[j] \in {"new", "queued"} THEN "new"
       ELSE IF curco # None /\ inside[curco] = j THEN "running"
       ELSE IF InOneQueue(j) THEN "woken" ELSE "waiting"]
  <2>1. \A j \in Jobs : job[j] \in {"new", "queued", "running", "waiting", "done"}
    BY DEF CoParts, SchedTypeOK
  <2>2. \A j \in Jobs : JobState(j) =
         IF job[j] = "done" THEN "done"
         ELSE IF job[j] \in {"new", "queued"} THEN "new"
         ELSE IF curco # None /\ inside[curco] = j THEN "running"
         ELSE IF InOneQueue(j) THEN "woken" ELSE "waiting"
    BY <1>4, <2>1 DEF JobState, Running
  <2>3. QED
    BY <2>2 DEF JobStates
<1>9. Schedule!NoneRuns <=> curco = None
  <2>1. \A j \in Jobs : JobStates[j] = "running" <=> curco # None /\ inside[curco] = j
    BY <1>7, <1>8
  <2>2. QED
    BY <1>7, <2>1 DEF Schedule!NoneRuns
<1>10. QED
  BY <1>5, <1>6, <1>8, <1>9 DEF View

\* So it is after a step.
LEMMA CoViewNext == CoParts' /\ ~ended' => View'
BY CoView, PTL

\* What the elements of a sequence are mapped to, one after the other.
Mapped(s, f) == [i \in 1..Len(s) |-> f[s[i]]]

\* The mapped sequence is as long as the sequence.
LEMMA MappedSeq ==
  ASSUME NEW S, NEW T, NEW f, NEW s \in Seq(S), \A d \in SeqRange(s) : f[d] \in T
  PROVE  /\ Mapped(s, f) \in Seq(T) /\ Len(Mapped(s, f)) = Len(s)
         /\ \A i \in 1..Len(s) : Mapped(s, f)[i] = f[s[i]]
<1>1. PICK n \in Nat : n = Len(s)
  BY LenProperties
<1>2. \A i \in 1..n : f[s[i]] \in T
  BY <1>1 DEF SeqRange
<1>3. Mapped(s, f) \in [1..n -> T] /\ \A i \in 1..n : Mapped(s, f)[i] = f[s[i]]
  BY <1>1, <1>2 DEF Mapped
<1>4. Mapped(s, f) \in Seq(T) /\ Len(Mapped(s, f)) = n
  BY <1>1, <1>3, SeqDef, LenProperties
<1>5. QED
  BY <1>1, <1>3, <1>4

\* The first element is taken off both.
LEMMA MappedTail ==
  ASSUME NEW S, NEW T, NEW f, NEW s \in Seq(S), \A d \in SeqRange(s) : f[d] \in T, s # <<>>
  PROVE  /\ Mapped(s, f) # <<>> /\ Head(Mapped(s, f)) = f[Head(s)]
         /\ Mapped(Tail(s), f) = Tail(Mapped(s, f))
<1>1. PICK n \in Nat \ {0} : n = Len(s)
  BY EmptySeq, LenProperties
<1>2. PICK m \in Seq(T) : m = Mapped(s, f)
  BY MappedSeq
<1>3. Len(m) = n /\ \A i \in 1..n : m[i] = f[s[i]]
  BY <1>1, <1>2, MappedSeq
<1>4. PICK t \in Seq(S) : t = Tail(s)
  BY <1>1, HeadTailProperties
<1>5. Len(t) = n - 1 /\ (\A i \in 1..n - 1 : t[i] = s[i + 1]) /\ Head(s) = s[1]
  BY <1>1, <1>4, HeadTailProperties
<1>6. m # <<>> /\ Head(m) = m[1]
  BY <1>1, <1>3, EmptySeq, HeadTailProperties
<1>7. PICK u \in Seq(T) : u = Tail(m)
  BY <1>6, HeadTailProperties
<1>8. Len(u) = n - 1 /\ \A i \in 1..n - 1 : u[i] = m[i + 1]
  BY <1>3, <1>6, <1>7, HeadTailProperties
<1>9. \A i \in 1..n - 1 : i + 1 \in 1..n
  BY <1>1
<1>10. \A i \in 1..n - 1 : u[i] = f[t[i]]
  BY <1>3, <1>5, <1>8, <1>9
<1>11. u = Mapped(t, f)
  <2>1. u = [i \in 1..n - 1 |-> u[i]]
    BY <1>7, <1>8, LenProperties
  <2>2. QED
    BY <1>5, <1>10, <2>1 DEF Mapped
<1>12. m[1] = f[s[1]]
  BY <1>1, <1>3
<1>13. QED
  BY <1>2, <1>4, <1>5, <1>6, <1>7, <1>11, <1>12

\* An element is put behind both.
LEMMA MappedAppend ==
  ASSUME NEW T, NEW f, NEW s \in Seq(Int), NEW x \in Int,
         f[x] \in T, \A d \in SeqRange(s) : f[d] \in T
  PROVE  Mapped(Append(s, x), f) = Append(Mapped(s, f), f[x])
<1>1. PICK n \in Nat : n = Len(s)
  BY LenProperties
<1>2. PICK m \in Seq(T) : m = Mapped(s, f)
  BY MappedSeq
<1>3. Len(m) = n /\ \A i \in 1..n : m[i] = f[s[i]]
  BY <1>1, <1>2, MappedSeq
<1>4. PICK t \in Seq(Int) : t = Append(s, x)
  BY AppendProperties
<1>5. Len(t) = n + 1 /\ (\A i \in 1..n : t[i] = s[i]) /\ t[n + 1] = x
  BY <1>1, <1>4, AppendProperties
<1>6. PICK u \in Seq(T) : u = Append(m, f[x])
  BY AppendProperties
<1>7. Len(u) = n + 1 /\ (\A i \in 1..n : u[i] = m[i]) /\ u[n + 1] = f[x]
  BY <1>3, <1>6, AppendProperties
<1>8. \A i \in 1..n + 1 : i \in 1..n \/ i = n + 1
  BY <1>1
<1>9. \A i \in 1..n + 1 : u[i] = f[t[i]]
  BY <1>3, <1>5, <1>7, <1>8
<1>10. u = [i \in 1..n + 1 |-> u[i]]
  BY <1>6, <1>7, LenProperties
<1>11. u = Mapped(t, f)
  BY <1>5, <1>9, <1>10 DEF Mapped
<1>12. QED
  BY <1>2, <1>4, <1>6, <1>11

\* Two mappings that agree on the sequence give the same.
LEMMA MappedSame ==
  ASSUME NEW f, NEW g, NEW s, \A d \in SeqRange(s) : g[d] = f[d]
  PROVE  Mapped(s, g) = Mapped(s, f)
<1>1. \A i \in 1..Len(s) : g[s[i]] = f[s[i]]
  BY DEF SeqRange
<1>2. QED
  BY <1>1 DEF Mapped

\* Nothing is mapped to nothing.
LEMMA MappedEmpty ==
  ASSUME NEW f
  PROVE  Mapped(<<>>, f) = <<>>
<1>1. PICK e \in Seq({}) : e = <<>>
  BY EmptySeq
<1>2. Len(e) = 0 /\ SeqRange(e) = {}
  BY <1>1, EmptySeq DEF SeqRange
<1>3. \A d \in SeqRange(e) : f[d] \in {}
  BY <1>2
<1>4. Mapped(e, f) \in Seq({}) /\ Len(Mapped(e, f)) = Len(e)
  BY <1>3, MappedSeq
<1>5. QED
  BY <1>1, <1>2, <1>4, EmptySeq

-----------------------------------------------------------------------------
(* What the abstract variables become.                                     *)

\* The jobs of the queues are jobs.
LEMMA QueuedJobs ==
  ASSUME CoParts
  PROVE  \A id : QueuedId(id) => /\ id \in Ids /\ WokenId(id) /\ inside[id] \in Jobs
                                 /\ job[inside[id]] = "waiting" /\ inside[id] \notin owed
<1>1. \A id : QueuedId(id) => WokenId(id)
  BY DEF QueuedId, CoParts, QueueInv
<1>2. QED
  BY <1>1, WokenSleeps DEF CoParts, WokenId

\* The queues stay, and what is on the stacks of those in them.
QueuesKept == OwnJobs' = OwnJobs /\ OtherJobs' = OtherJobs /\ BatchJobs' = BatchJobs
LEMMA KeptQueues ==
  ASSUME CoParts, View, View', OwnIds' = OwnIds, OtherIds' = OtherIds, BatchIds' = BatchIds,
         \A d \in Ids : WokenId(d) => inside'[d] = inside[d]
  PROVE  QueuesKept /\ \A k \in Jobs : InOneQueue(k)' <=> InOneQueue(k)
<1>1. \A d : QueuedId(d) => inside'[d] = inside[d]
  BY QueuedJobs
<1>2. \A d : QueuedId(d)' <=> QueuedId(d)
  BY DEF QueuedId
<1>3. \A k \in Jobs : InOneQueue(k)' <=> InOneQueue(k)
  BY <1>1, <1>2 DEF InOneQueue
<1>4. /\ Mapped(OwnIds, inside') = Mapped(OwnIds, inside)
      /\ Mapped(BatchIds, inside') = Mapped(BatchIds, inside)
      /\ Mapped(OtherIds, inside') = Mapped(OtherIds, inside)
  BY <1>1, MappedSame DEF QueuedId
<1>5. QED
  BY <1>3, <1>4 DEF QueuesKept, View, JobsOf, Mapped

\* What a step that lets a coroutine go on does.
LEMMA GoesOn ==
  ASSUME CoParts, View, View', NEW id, NEW j, Goes(id, j),
         \A k \in Jobs : k # j => (InOneQueue(k)' <=> InOneQueue(k))
  PROVE  /\ Schedule!NoneRuns /\ Schedule!Becomes(j, "running")
         /\ JobStates[j] = IF job[j] \in {"new", "queued"} THEN "new"
                           ELSE IF InOneQueue(j) THEN "woken" ELSE "waiting"
<1>1. id # None /\ inside'[id] = j /\ inside \in [Ids -> Jobs \cup {NoJob}]
      /\ job \in [Jobs -> {"new", "queued", "running", "waiting", "done"}]
  BY IdsFinite DEF Goes, CoParts, SchedTypeOK
<1>2. \A k \in Jobs : job'[k] = IF k = j THEN "running" ELSE job[k]
  BY <1>1 DEF Goes
<1>3. \A k \in Jobs : JobStates'[k] = IF k = j THEN "running" ELSE JobStates[k]
  <2>1. TAKE k \in Jobs
  <2>2. JobStates'[k] = IF job'[k] = "done" THEN "done"
          ELSE IF job'[k] \in {"new", "queued"} THEN "new"
          ELSE IF curco' # None /\ inside'[curco'] = k THEN "running"
          ELSE IF InOneQueue(k)' THEN "woken" ELSE "waiting"
    BY DEF View
  <2>3. JobStates[k] = IF job[k] = "done" THEN "done"
          ELSE IF job[k] \in {"new", "queued"} THEN "new"
          ELSE IF InOneQueue(k) THEN "woken" ELSE "waiting"
    BY DEF View, Goes
  <2>4. CASE k = j
    BY <1>1, <1>2, <2>2, <2>4 DEF Goes
  <2>5. CASE k # j
    BY <1>1, <1>2, <2>2, <2>3, <2>5 DEF Goes
  <2>6. QED
    BY <2>4, <2>5
<1>4. JobStates' = [JobStates EXCEPT ![j] = "running"]
  <2>1. JobStates = [k \in Jobs |-> JobStates[k]] /\ JobStates' = [k \in Jobs |-> JobStates'[k]]
    BY DEF JobStates
  <2>2. QED
    BY <1>3, <2>1 DEF Goes
<1>5. QED
  BY <1>4 DEF Goes, View, Schedule!Becomes

Both == CoParts /\ CoParts' /\ View /\ View'
Follows == [Schedule!JobNext]_Schedule!jobVars

\* Steps in which a coroutine goes on with its job.
LEMMA GoesAside ==
  ASSUME Both, NEW id, NEW j, Goes(id, j), OwnIds' = OwnIds, OtherIds' = OtherIds, BatchIds' = BatchIds
  PROVE  QueuesKept /\ \A k \in Jobs : InOneQueue(k)' <=> InOneQueue(k)
<1>1. inside \in [Ids -> Jobs \cup {NoJob}]
  BY DEF Both, CoParts, SchedTypeOK
<1>2. \A d \in Ids : WokenId(d) => inside'[d] = inside[d]
  BY <1>1 DEF Goes, WokenId, Busy
<1>3. QED
  BY <1>2, KeptQueues DEF Both

\* A task or routine that is started begins.
LEMMA FollowBegin ==
  ASSUME Both, NEW id, NEW j, Goes(id, j), job[j] \in {"new", "queued"},
         OwnIds' = OwnIds, OtherIds' = OtherIds, BatchIds' = BatchIds
  PROVE  Schedule!JobNext
<1>1. QueuesKept /\ \A k \in Jobs : InOneQueue(k)' <=> InOneQueue(k)
  BY GoesAside
<1>2. Schedule!NoneRuns /\ Schedule!Becomes(j, "running") /\ JobStates[j] = "new"
  BY <1>1, GoesOn DEF Both
<1>3. Schedule!Begin(j)
  BY <1>1, <1>2 DEF Schedule!Begin, QueuesKept
<1>4. QED
  BY <1>3 DEF Schedule!JobNext, Goes

\* A job that was never in a queue is resumed.
LEMMA FollowAtOnce ==
  ASSUME Both, NEW id, NEW j, Goes(id, j), job[j] = "waiting", j \in owed,
         OwnIds' = OwnIds, OtherIds' = OtherIds, BatchIds' = BatchIds
  PROVE  Schedule!JobNext
<1>1. QueuesKept /\ \A k \in Jobs : InOneQueue(k)' <=> InOneQueue(k)
  BY GoesAside
<1>2. ~InOneQueue(j)
  BY QueuedJobs DEF Both, InOneQueue
<1>3. Schedule!NoneRuns /\ Schedule!Becomes(j, "running") /\ JobStates[j] = "waiting"
  BY <1>1, <1>2, GoesOn DEF Both
<1>4. Schedule!ResumeAtOnce(j)
  BY <1>1, <1>3 DEF Schedule!ResumeAtOnce, QueuesKept
<1>5. QED
  BY <1>4 DEF Schedule!JobNext, Goes

\* What is left of the queues when the first one of them is resumed.
LEMMA GoesFirst ==
  ASSUME Both, NEW id, NEW j, Goes(id, j), inside[id] = j, QueuedId(id),
         \A d : QueuedId(d)' <=> QueuedId(d) /\ d # id
  PROVE  /\ inside' = inside /\ job[j] = "waiting"
         /\ Schedule!NoneRuns /\ Schedule!Becomes(j, "running") /\ JobStates[j] = "woken"
<1>1. inside \in [Ids -> Jobs \cup {NoJob}]
  BY DEF Both, CoParts, SchedTypeOK
<1>2. inside' = inside
  BY <1>1 DEF Goes
<1>3. \A k \in Jobs : k # j => (InOneQueue(k)' <=> InOneQueue(k))
  BY <1>2 DEF InOneQueue
<1>4. InOneQueue(j) /\ job[j] = "waiting"
  BY QueuedJobs DEF Both, Goes, InOneQueue
<1>5. QED
  BY <1>2, <1>3, <1>4, GoesOn DEF Both

\* The first of those that the thread itself woke is resumed.
LEMMA FollowDoResume ==
  ASSUME Both, OwnIds # <<>>, Goes(Head(OwnIds), inside[Head(OwnIds)]),
         OwnIds' = Tail(OwnIds), BatchIds' = BatchIds, OtherIds' = OtherIds
  PROVE  Schedule!JobNext
<1>1. PICK id : id = Head(OwnIds)
  OBVIOUS
<1>2. PICK j : j = inside[id]
  OBVIOUS
<1>3. OwnIds \in Seq(Int) /\ Distinct(OwnIds) /\ QueueInv
  BY QueuesTogether DEF Both, CoParts, QueueInv
<1>4. id \in SeqRange(OwnIds) /\ SeqRange(Tail(OwnIds)) = SeqRange(OwnIds) \ {id}
  BY <1>1, <1>3, DistinctTail
<1>5. QueuedId(id) /\ \A d : QueuedId(d)' <=> QueuedId(d) /\ d # id
  BY <1>3, <1>4 DEF QueuedId, QueueInv
<1>6. Goes(id, j)
  BY <1>1, <1>2
<1>7. /\ inside' = inside /\ Schedule!NoneRuns
      /\ Schedule!Becomes(j, "running") /\ JobStates[j] = "woken"
  BY <1>2, <1>5, <1>6, GoesFirst
<1>8. \A d \in SeqRange(OwnIds) : inside[d] \in Jobs
  BY QueuedJobs DEF Both, QueuedId
<1>9. /\ OwnJobs = Mapped(OwnIds, inside) /\ OwnJobs' = Mapped(OwnIds', inside')
      /\ BatchJobs' = BatchJobs /\ OtherJobs' = OtherJobs
  BY <1>7 DEF Both, View, JobsOf, Mapped
<1>10. OwnJobs # <<>> /\ j = Head(OwnJobs) /\ OwnJobs' = Tail(OwnJobs)
  BY <1>1, <1>2, <1>3, <1>7, <1>8, <1>9, MappedTail, ZenonT(30)
<1>11. Schedule!Resume(j)
  BY <1>7, <1>9, <1>10 DEF Schedule!Resume
<1>12. QED
  BY <1>6, <1>11 DEF Schedule!JobNext, Goes

\* The first of those that others woke is resumed.
LEMMA FollowResumeTaken ==
  ASSUME Both, BatchIds # <<>>, Goes(Head(BatchIds), inside[Head(BatchIds)]),
         OwnIds' = OwnIds, BatchIds' = Tail(BatchIds), OtherIds' = OtherIds
  PROVE  Schedule!JobNext
<1>1. PICK id : id = Head(BatchIds)
  OBVIOUS
<1>2. PICK j : j = inside[id]
  OBVIOUS
<1>3. BatchIds \in Seq(Int) /\ Distinct(BatchIds) /\ QueueInv
  BY QueuesTogether DEF Both, CoParts, QueueInv
<1>4. id \in SeqRange(BatchIds) /\ SeqRange(Tail(BatchIds)) = SeqRange(BatchIds) \ {id}
  BY <1>1, <1>3, DistinctTail
<1>5. QueuedId(id) /\ \A d : QueuedId(d)' <=> QueuedId(d) /\ d # id
  BY <1>3, <1>4 DEF QueuedId, QueueInv
<1>6. Goes(id, j)
  BY <1>1, <1>2
<1>7. /\ inside' = inside /\ Schedule!NoneRuns
      /\ Schedule!Becomes(j, "running") /\ JobStates[j] = "woken"
  BY <1>2, <1>5, <1>6, GoesFirst
<1>8. \A d \in SeqRange(BatchIds) : inside[d] \in Jobs
  BY QueuedJobs DEF Both, QueuedId
<1>9. /\ BatchJobs = Mapped(BatchIds, inside) /\ BatchJobs' = Mapped(BatchIds', inside')
      /\ OwnJobs' = OwnJobs /\ OtherJobs' = OtherJobs
  BY <1>7 DEF Both, View, JobsOf, Mapped
<1>10. BatchJobs # <<>> /\ j = Head(BatchJobs) /\ BatchJobs' = Tail(BatchJobs)
  BY <1>1, <1>2, <1>3, <1>7, <1>8, <1>9, MappedTail, ZenonT(30)
<1>11. Schedule!Resume(j)
  BY <1>7, <1>9, <1>10 DEF Schedule!Resume
<1>12. QED
  BY <1>6, <1>11 DEF Schedule!JobNext, Goes

\* Steps that change nothing a job can see.
LEMMA Unseen ==
  ASSUME Both, OwnIds' = OwnIds, OtherIds' = OtherIds, BatchIds' = BatchIds, curco' = curco,
         \A d \in Ids : WokenId(d) \/ d = curco => inside'[d] = inside[d],
         \A k \in Jobs : \/ job'[k] = job[k] 
                         \/ {job[k], job'[k]} = {"new", "queued"}
                         \/ curco # None /\ inside[curco] = k /\ {job[k], job'[k]} = {"running", "waiting"}
  PROVE  Follows
<1>1. QueuesKept /\ \A k \in Jobs : InOneQueue(k)' <=> InOneQueue(k)
  BY KeptQueues DEF Both
<1>2. curco # None => curco \in Ids /\ inside'[curco] = inside[curco]
  BY RunningJob DEF Both, CoParts
<1>3. \A k \in Jobs : JobStates'[k] = JobStates[k]
  <2>1. TAKE k \in Jobs
  <2>2. JobStates'[k] = IF job'[k] = "done" THEN "done"
          ELSE IF job'[k] \in {"new", "queued"} THEN "new"
          ELSE IF curco # None /\ inside[curco] = k THEN "running"
          ELSE IF InOneQueue(k) THEN "woken" ELSE "waiting"
    BY <1>1, <1>2 DEF Both, View
  <2>3. JobStates[k] = IF job[k] = "done" THEN "done"
          ELSE IF job[k] \in {"new", "queued"} THEN "new"
          ELSE IF curco # None /\ inside[curco] = k THEN "running"
          ELSE IF InOneQueue(k) THEN "woken" ELSE "waiting"
    BY DEF Both, View
  <2>4. QED
    BY <2>2, <2>3
<1>4. JobStates' = JobStates
  BY <1>3 DEF JobStates
<1>5. QED
  BY <1>1, <1>4 DEF Follows, QueuesKept, Schedule!jobVars

\* Back in the loop: the job that ran waits or is done.
LEMMA StopsRunning ==
  ASSUME Both, curco # None, curco' = None, UNCHANGED wakeVars, NEW j, j = inside[curco],
         (inside' = [inside EXCEPT ![curco] = NoJob] /\ ~WokenId(curco)) \/ inside' = inside,
         NEW s \in {"running", "waiting", "done"},
         job' = [job EXCEPT ![j] = s], s # "running"
  PROVE  /\ j \in Jobs /\ JobStates[j] = "running" /\ QueuesKept
         /\ Schedule!InQueue(j) <=> InOneQueue(j)
         /\ Schedule!Becomes(j, IF s = "done" THEN "done" ELSE IF InOneQueue(j) THEN "woken" ELSE "waiting")
<1>1. /\ curco \in Ids /\ j \in Jobs /\ job[j] \in {"running", "waiting"}
      /\ inside \in [Ids -> Jobs \cup {NoJob}]
      /\ job \in [Jobs -> {"new", "queued", "running", "waiting", "done"}]
  BY RunningJob DEF Both, CoParts, SchedTypeOK
<1>2. OwnIds' = OwnIds /\ BatchIds' = BatchIds /\ OtherIds' = OtherIds
  BY DEF wakeVars, OwnIds, BatchIds, OtherIds
<1>3. \A d \in Ids : WokenId(d) => inside'[d] = inside[d]
  BY <1>1
<1>4. QueuesKept /\ \A k \in Jobs : InOneQueue(k)' <=> InOneQueue(k)
  BY <1>2, <1>3, KeptQueues DEF Both
<1>5. \A k \in Jobs : JobStates'[k] = IF k # j THEN JobStates[k]
        ELSE IF s = "done" THEN "done" ELSE IF InOneQueue(j) THEN "woken" ELSE "waiting"
  <2>1. TAKE k \in Jobs
  <2>2. JobStates'[k] = IF job'[k] = "done" THEN "done"
          ELSE IF job'[k] \in {"new", "queued"} THEN "new"
          ELSE IF InOneQueue(k) THEN "woken" ELSE "waiting"
    BY <1>4 DEF Both, View
  <2>3. JobStates[k] = IF job[k] = "done" THEN "done"
          ELSE IF job[k] \in {"new", "queued"} THEN "new"
          ELSE IF inside[curco] = k THEN "running"
          ELSE IF InOneQueue(k) THEN "woken" ELSE "waiting"
    BY DEF Both, View
  <2>4. CASE k = j
    BY <1>1, <2>2, <2>4
  <2>5. CASE k # j
    BY <1>1, <2>2, <2>3, <2>5
  <2>6. QED
    BY <2>4, <2>5
<1>6. JobStates = [k \in Jobs |-> JobStates[k]] /\ JobStates' = [k \in Jobs |-> JobStates'[k]]
  BY DEF JobStates
<1>7. Schedule!Becomes(j, IF s = "done" THEN "done" ELSE IF InOneQueue(j) THEN "woken" ELSE "waiting")
  BY <1>1, <1>5, <1>6 DEF Schedule!Becomes
<1>8. JobStates[j] = "running"
  BY <1>1 DEF Both, View
<1>9. QED
  BY <1>1, <1>4, <1>7, <1>8 DEF Both, View

\* A job that yields waits, or is woken already.
LEMMA FollowYield ==
  ASSUME Both, Yield
  PROVE  Follows
<1>1. PICK j : j = inside[curco]
  OBVIOUS
<1>2. /\ curco # None /\ job[j] = "waiting" /\ curco' = None /\ UNCHANGED wakeVars
      /\ inside' = inside /\ job' = job
  BY <1>1 DEF Yield, SwitchBack, jobVars
<1>3. job' = [job EXCEPT ![j] = "waiting"]
  <2>1. job \in [Jobs -> {"new", "queued", "running", "waiting", "done"}]
    BY DEF Both, CoParts, SchedTypeOK
  <2>2. QED
    BY <1>2, <2>1
<1>4. /\ j \in Jobs /\ JobStates[j] = "running" /\ QueuesKept
      /\ Schedule!InQueue(j) <=> InOneQueue(j)
      /\ Schedule!Becomes(j, IF InOneQueue(j) THEN "woken" ELSE "waiting")
  BY <1>1, <1>2, <1>3, StopsRunning
<1>5. Schedule!Wait(j)
  BY <1>4 DEF Schedule!Wait, QueuesKept
<1>6. QED
  BY <1>4, <1>5 DEF Follows, Schedule!JobNext

\* A job that returns is done, and was in no queue.
LEMMA FollowEnd ==
  ASSUME Both, TaskEnds \/ RoutineEnds
  PROVE  Follows
<1>1. PICK j : j = inside[curco]
  OBVIOUS
<1>2. /\ curco \in loops \/ curco # None
      /\ job[j] = "running" /\ curco' = None /\ UNCHANGED wakeVars
      /\ inside' = [inside EXCEPT ![curco] = NoJob] /\ job' = [job EXCEPT ![j] = "done"]
  BY <1>1 DEF TaskEnds, RoutineEnds, SwitchBack
<1>3. curco # None
  BY <1>2, IdsFinite DEF Both, CoParts, SchedTypeOK
<1>4. ~WokenId(curco) /\ ~InOneQueue(j)
  BY <1>1, <1>2, QueuedJobs DEF Both, WokenId, InOneQueue
<1>5. /\ j \in Jobs /\ JobStates[j] = "running" /\ QueuesKept
      /\ Schedule!InQueue(j) <=> InOneQueue(j)
      /\ Schedule!Becomes(j, "done")
  BY <1>1, <1>2, <1>3, <1>4, StopsRunning
<1>6. Schedule!End(j)
  BY <1>4, <1>5 DEF Schedule!End, QueuesKept
<1>7. QED
  BY <1>5, <1>6 DEF Follows, Schedule!JobNext

\* A job that is owed its wake-up is woken through a queue.
LEMMA Wakes ==
  ASSUME Both, NEW j \in owed, job[j] = "waiting", NEW id \in Ids, inside[id] = j,
         UNCHANGED <<schedVars, inside, job>>,
         \A d : QueuedId(d)' <=> QueuedId(d) \/ d = id
  PROVE  /\ j \in Jobs /\ JobStates[j] \in {"waiting", "running"} /\ ~Schedule!InQueue(j)
         /\ Schedule!Woken(j)
<1>1. /\ j \in Jobs /\ curco' = curco /\ inside' = inside /\ job' = job
  BY DEF Both, CoParts, SchedTypeOK, schedVars
<1>2. ~InOneQueue(j)
  BY QueuedJobs DEF Both, InOneQueue
<1>3. \A k \in Jobs : InOneQueue(k)' <=> InOneQueue(k) \/ k = j
  BY <1>1 DEF InOneQueue
<1>4. \A k \in Jobs : JobStates'[k] = IF k # j THEN JobStates[k]
        ELSE IF JobStates[j] = "waiting" THEN "woken" ELSE JobStates[j]
  <2>1. TAKE k \in Jobs
  <2>2. JobStates'[k] = IF job[k] = "done" THEN "done"
          ELSE IF job[k] \in {"new", "queued"} THEN "new"
          ELSE IF curco # None /\ inside[curco] = k THEN "running"
          ELSE IF InOneQueue(k)' THEN "woken" ELSE "waiting"
    BY <1>1 DEF Both, View
  <2>3. JobStates[k] = IF job[k] = "done" THEN "done"
          ELSE IF job[k] \in {"new", "queued"} THEN "new"
          ELSE IF curco # None /\ inside[curco] = k THEN "running"
          ELSE IF InOneQueue(k) THEN "woken" ELSE "waiting"
    BY DEF Both, View
  <2>4. CASE k = j
    BY <1>2, <1>3, <2>2, <2>3, <2>4
  <2>5. CASE k # j
    BY <1>3, <2>2, <2>3, <2>5
  <2>6. QED
    BY <2>4, <2>5
<1>5. JobStates[j] \in {"waiting", "running"}
  BY <1>1, <1>2 DEF Both, View
<1>6. JobStates = [k \in Jobs |-> JobStates[k]] /\ JobStates' = [k \in Jobs |-> JobStates'[k]]
  BY DEF JobStates
<1>7. Schedule!Woken(j)
  BY <1>1, <1>4, <1>6 DEF Schedule!Woken
<1>8. QED
  BY <1>1, <1>2, <1>5, <1>7 DEF Both, View

\* The thread wakes a job.
LEMMA FollowWakeOwn ==
  ASSUME Both, NEW j \in Jobs, WakeOwn(j), BatchIds' = BatchIds, OtherIds' = OtherIds,
         NEW id \in Ids, inside[id] = j, job[j] = "waiting", OwnIds' = Append(OwnIds, id)
  PROVE  Follows
<1>1. j \in owed /\ UNCHANGED <<schedVars, inside, job>> /\ inside' = inside
  BY DEF WakeOwn
<1>2. /\ OwnIds \in Seq(Int) /\ Distinct(OwnIds) /\ id \in Int
      /\ \A d \in SeqRange(OwnIds) : inside[d] \in Jobs /\ inside[d] # j
  BY <1>1, QueuesTogether, QueuedJobs, IdsFinite DEF Both, CoParts, QueueInv, QueuedId
<1>3. SeqRange(Append(OwnIds, id)) = SeqRange(OwnIds) \cup {id}
  BY <1>2, DistinctAppend
<1>4. \A d : QueuedId(d)' <=> QueuedId(d) \/ d = id
  BY <1>3 DEF QueuedId
<1>5. /\ JobStates[j] \in {"waiting", "running"} /\ ~Schedule!InQueue(j) /\ Schedule!Woken(j)
  BY <1>1, <1>4, Wakes
<1>6. /\ OwnJobs = Mapped(OwnIds, inside) /\ OwnJobs' = Mapped(OwnIds', inside')
      /\ BatchJobs' = BatchJobs /\ OtherJobs' = OtherJobs
  BY <1>1 DEF Both, View, JobsOf, Mapped
<1>7. OwnJobs' = Append(OwnJobs, j)
  <2>1. Mapped(Append(OwnIds, id), inside) = Append(Mapped(OwnIds, inside), inside[id])
    <3>1. PICK f, s : f = inside /\ s = OwnIds
      OBVIOUS
    <3>2. s \in Seq(Int) /\ (\A d \in SeqRange(s) : f[d] \in Jobs) /\ id \in Int /\ f[id] \in Jobs
      BY <1>2, <3>1
    <3>3. Mapped(Append(s, id), f) = Append(Mapped(s, f), f[id])
      BY ONLY <3>2, MappedAppend
    <3>4. QED
      BY <3>1, <3>3
  <2>2. QED
    BY <1>1, <1>6, <2>1
<1>8. Schedule!WakeOwn(j)
  BY <1>5, <1>6, <1>7 DEF Schedule!WakeOwn
<1>9. QED
  BY <1>8 DEF Follows, Schedule!JobNext

\* Another thread wakes a job.
LEMMA FollowWakeOther ==
  ASSUME Both, NEW j \in Jobs, WakeOther(j), BatchIds' = BatchIds, OwnIds' = OwnIds,
         NEW id \in Ids, inside[id] = j, job[j] = "waiting", OtherIds' = Append(OtherIds, id)
  PROVE  Follows
<1>1. j \in owed /\ UNCHANGED <<schedVars, inside, job>> /\ inside' = inside
  BY DEF WakeOther
<1>2. /\ OtherIds \in Seq(Int) /\ Distinct(OtherIds) /\ id \in Int
      /\ \A d \in SeqRange(OtherIds) : inside[d] \in Jobs /\ inside[d] # j
  BY <1>1, QueuesTogether, QueuedJobs, IdsFinite DEF Both, CoParts, QueueInv, QueuedId
<1>3. SeqRange(Append(OtherIds, id)) = SeqRange(OtherIds) \cup {id}
  BY <1>2, DistinctAppend
<1>4. \A d : QueuedId(d)' <=> QueuedId(d) \/ d = id
  BY <1>3 DEF QueuedId
<1>5. /\ JobStates[j] \in {"waiting", "running"} /\ ~Schedule!InQueue(j) /\ Schedule!Woken(j)
  BY <1>1, <1>4, Wakes
<1>6. /\ OtherJobs = Mapped(OtherIds, inside) /\ OtherJobs' = Mapped(OtherIds', inside')
      /\ BatchJobs' = BatchJobs /\ OwnJobs' = OwnJobs
  BY <1>1 DEF Both, View, JobsOf, Mapped
<1>7. OtherJobs' = Append(OtherJobs, j)
  <2>1. Mapped(Append(OtherIds, id), inside) = Append(Mapped(OtherIds, inside), inside[id])
    <3>1. PICK f, s : f = inside /\ s = OtherIds
      OBVIOUS
    <3>2. s \in Seq(Int) /\ (\A d \in SeqRange(s) : f[d] \in Jobs) /\ id \in Int /\ f[id] \in Jobs
      BY <1>2, <3>1
    <3>3. Mapped(Append(s, id), f) = Append(Mapped(s, f), f[id])
      BY ONLY <3>2, MappedAppend
    <3>4. QED
      BY <3>1, <3>3
  <2>2. QED
    BY <1>1, <1>6, <2>1
<1>8. Schedule!WakeOther(j)
  BY <1>5, <1>6, <1>7 DEF Schedule!WakeOther
<1>9. QED
  BY <1>8 DEF Follows, Schedule!JobNext

\* What others woke becomes the batch.
LEMMA FollowTake ==
  ASSUME Both, inside' = inside, job' = job, curco' = curco,
         OwnIds' = OwnIds, BatchIds' = OtherIds, OtherIds' = <<>>, BatchIds = <<>>
  PROVE  Schedule!JobNext
<1>1. \A d : QueuedId(d)' <=> QueuedId(d)
  <2>1. SeqRange(<<>>) = {}
    BY EmptySeq DEF SeqRange
  <2>2. QED
    BY <2>1 DEF QueuedId
<1>2. \A k \in Jobs : InOneQueue(k)' <=> InOneQueue(k)
  BY <1>1 DEF InOneQueue
<1>3. JobStates' = JobStates
  BY <1>2 DEF Both, View
<1>4. /\ OwnJobs' = Mapped(OwnIds', inside') /\ OwnJobs = Mapped(OwnIds, inside)
      /\ OtherJobs' = Mapped(OtherIds', inside') /\ OtherJobs = Mapped(OtherIds, inside)
      /\ BatchJobs' = Mapped(BatchIds', inside') /\ BatchJobs = Mapped(BatchIds, inside)
  BY DEF Both, View, JobsOf, Mapped
<1>5. OwnJobs' = OwnJobs /\ BatchJobs' = OtherJobs /\ OtherJobs' = <<>> /\ BatchJobs = <<>>
  BY <1>4, MappedEmpty
<1>6. Schedule!Take
  BY <1>3, <1>5 DEF Schedule!Take
<1>7. QED
  BY <1>6 DEF Schedule!JobNext

\* A list of no elements.
LEMMA NoValues ==
  ASSUME NEW m, NEW l, l.count = 0
  PROVE  Values(m, l) = <<>>
<1>1. PICK f : Values(m, l) = [k \in 1..l.count |-> m[f[k]].val]
  BY DEF Values
<1>2. Values(m, l) \in [1..0 -> Int]
  BY <1>1
<1>3. Values(m, l) \in Seq(Int) /\ Len(Values(m, l)) = 0
  BY <1>2, SeqDef, LenProperties
<1>4. QED
  BY <1>3, EmptySeq

\* The end of the loop abandons the jobs.
LEMMA FollowRunEnds ==
  ASSUME CoParts, View, CoRunEnds, ended', Contents(ring') = <<>>
  PROVE  Schedule!JobNext
<1>1. /\ curco = None /\ ~ended /\ tmp.count = 0 /\ tmp' = tmp /\ job' = job
  BY DEF CoRunEnds, Idle, InLoop, ClrTask
<1>2. OwnJobs' = <<>> /\ OtherJobs' = <<>>
  BY MappedEmpty DEF OwnJobs, OtherJobs, JobsOf, Mapped
<1>3. BatchJobs = <<>> /\ BatchJobs' = <<>>
  <2>1. Values(mem, tmp) = <<>> /\ Values(mem', tmp') = <<>>
    BY <1>1, NoValues
  <2>2. QED
    BY <2>1, MappedEmpty DEF BatchJobs, JobsOf, Mapped
<1>4. \A k \in Jobs : JobStates[k] = "done" <=> job[k] = "done"
  BY DEF View
<1>5. JobStates' = [k \in Jobs |-> IF JobStates[k] = "done" THEN "done" ELSE "gone"]
  BY <1>1, <1>4 DEF JobStates, JobState
<1>6. Schedule!Abandon
  BY <1>1, <1>2, <1>3, <1>5 DEF Schedule!Abandon, View
<1>7. QED
  BY <1>6 DEF Schedule!JobNext

\* A job that gave its id away still runs.
LEMMA FollowGiveId ==
  ASSUME Both, GiveId
  PROVE  Follows
<1>1. /\ curco # None /\ job[inside[curco]] = "running" /\ inside' = inside /\ curco' = curco
      /\ UNCHANGED wakeVars /\ job' = [job EXCEPT ![inside[curco]] = "waiting"]
  BY DEF GiveId, schedVars
<1>2. OwnIds' = OwnIds /\ BatchIds' = BatchIds /\ OtherIds' = OtherIds
  BY <1>1 DEF wakeVars, OwnIds, BatchIds, OtherIds
<1>3. job \in [Jobs -> {"new", "queued", "running", "waiting", "done"}]
  BY DEF Both, CoParts, SchedTypeOK
<1>4. PICK j : j = inside[curco]
  OBVIOUS
<1>5. \A k \in Jobs : \/ job'[k] = job[k]
                      \/ k = j /\ job[k] = "running" /\ job'[k] = "waiting"
  BY <1>1, <1>3, <1>4
<1>6. \A k \in Jobs :
        \/ job'[k] = job[k]
        \/ {job[k], job'[k]} = {"new", "queued"}
        \/ curco # None /\ inside[curco] = k /\ {job[k], job'[k]} = {"running", "waiting"}
  BY <1>1, <1>4, <1>5
<1>7. QED
  BY <1>1, <1>2, <1>6, Unseen

\* A queued task has not begun.
LEMMA FollowAddTask ==
  ASSUME Both, NEW j \in Tasks, AddTask(j)
  PROVE  Follows
<1>1. /\ job[j] = "new" /\ inside' = inside /\ curco' = curco
      /\ UNCHANGED wakeVars /\ job' = [job EXCEPT ![j] = "queued"]
  BY DEF AddTask, schedVars
<1>2. OwnIds' = OwnIds /\ BatchIds' = BatchIds /\ OtherIds' = OtherIds
  BY <1>1 DEF wakeVars, OwnIds, BatchIds, OtherIds
<1>3. job \in [Jobs -> {"new", "queued", "running", "waiting", "done"}]
  BY DEF Both, CoParts, SchedTypeOK
<1>4. \A k \in Jobs : job'[k] = job[k] \/ {job[k], job'[k]} = {"new", "queued"}
  BY <1>1, <1>3
<1>5. QED
  BY <1>1, <1>2, <1>4, Unseen

\* Nor has a routine whose coroutine was created.
LEMMA FollowCreate ==
  ASSUME Both, NEW j \in Routines, Create(j)
  PROVE  Follows
<1>1. /\ job[j] = "new" /\ inside' = [inside EXCEPT ![NewId] = j] /\ curco' = curco
      /\ UNCHANGED wakeVars /\ job' = [job EXCEPT ![j] = "queued"]
  BY DEF Create
<1>2. OwnIds' = OwnIds /\ BatchIds' = BatchIds /\ OtherIds' = OtherIds
  BY <1>1 DEF wakeVars, OwnIds, BatchIds, OtherIds
<1>3. /\ job \in [Jobs -> {"new", "queued", "running", "waiting", "done"}]
      /\ inside \in [Ids -> Jobs \cup {NoJob}] /\ curco \in Ids \cup {None} /\ None \notin Ids
  BY IdsFinite DEF Both, CoParts, SchedTypeOK
<1>4. \A k \in Jobs : job'[k] = job[k] \/ {job[k], job'[k]} = {"new", "queued"}
  BY <1>1, <1>3
<1>5. NewId \in Ids /\ ~Busy(NewId) /\ NewId # curco
  BY CreateKeeps DEF Both, CoParts
<1>6. \A d \in Ids : WokenId(d) \/ d = curco => inside'[d] = inside[d]
  BY <1>1, <1>3, <1>5 DEF WokenId
<1>7. QED
  BY <1>1, <1>2, <1>4, <1>6, Unseen

\* A step of the thread is a step of the schedule of jobs, or changes nothing
\* that a job can see.
LEMMA StepFollows == CoInv /\ CoInv' /\ [CoNext]_threadVars => Follows
<1> SUFFICES ASSUME CoInv, CoInv', [CoNext]_threadVars PROVE Follows
  OBVIOUS
<1>1. CASE ended
  <2>1. AfterLoop /\ tmp.count = 0
    BY <1>1, EndedStays DEF CoInv
  <2>2. Values(mem, tmp) = <<>> /\ Values(mem', tmp') = <<>>
    BY <2>1, NoValues DEF AfterLoop
  <2>3. OwnJobs' = OwnJobs /\ OtherJobs' = OtherJobs /\ BatchJobs' = BatchJobs
    BY <1>1, <2>1, <2>2 DEF AfterLoop, OwnJobs, OtherJobs, BatchJobs, JobsOf
  <2>4. JobStates' = JobStates
    BY <1>1, <2>1 DEF AfterLoop, JobStates, JobState
  <2>5. QED
    BY <2>3, <2>4 DEF Follows, Schedule!jobVars
<1>2. CASE UNCHANGED threadVars
  <2>1. UNCHANGED <<curco, inside, job, mem, list, tmp, ring, ended>>
    BY <1>2 DEF threadVars, schedVars, wakeVars, jobVars
  <2>2. /\ JobsOf(Contents(ring))' = JobsOf(Contents(ring))
        /\ JobsOf(Values(mem, list))' = JobsOf(Values(mem, list))
        /\ JobsOf(Values(mem, tmp))' = JobsOf(Values(mem, tmp))
        /\ JobsOf(Queued)' = JobsOf(Queued)
    BY <2>1 DEF JobsOf, Queued
  <2>3. UNCHANGED <<JobStates, OwnJobs, OtherJobs, BatchJobs>>
    BY <2>1, <2>2 DEF JobStates, JobState, Running, OwnJobs, OtherJobs, BatchJobs
  <2>4. QED
    BY <2>3 DEF Follows, Schedule!jobVars
<1>3. CASE CoNext /\ ~ended
  <2>1. CoParts /\ View
    BY <1>3, CoView DEF CoInv, CoParts
  <2>2. CoParts' /\ ended' = ended => Both
    BY <1>3, <2>1, CoViewNext DEF Both
  <2>3. Schedule!JobNext => Follows
    BY DEF Follows
  <2>4. CASE Loop
    <3>1. ended' = ended
      BY <2>4 DEF Loop, DoQueuedTask, DoResume, TakeList, ResumeTaken, StartRoutine
    <3>2. CASE DoQueuedTask
      <4>1. PICK j, id : CoParts' /\ Goes(id, j) /\ job[j] = "queued"
        BY <2>1, <3>2, StepDoQueuedTask
      <4>2. OwnIds' = OwnIds /\ BatchIds' = BatchIds /\ OtherIds' = OtherIds
        BY <3>2 DEF DoQueuedTask, wakeVars, OwnIds, BatchIds, OtherIds
      <4>3. QED
        BY <2>2, <2>3, <3>1, <4>1, <4>2, FollowBegin
    <3>3. CASE DoResume
      BY <2>1, <2>2, <2>3, <3>1, <3>3, StepDoResume, FollowDoResume
    <3>4. CASE TakeList
      BY <2>1, <2>2, <2>3, <3>1, <3>4, StepTakeList, FollowTake
    <3>5. CASE ResumeTaken
      BY <2>1, <2>2, <2>3, <3>1, <3>5, StepResumeTaken, FollowResumeTaken
    <3>6. ASSUME NEW id \in Ids, StartRoutine(id) PROVE Follows
      <4>1. CoParts' /\ Goes(id, inside[id]) /\ job[inside[id]] = "queued"
        BY <2>1, <3>6, StepStartRoutine
      <4>2. OwnIds' = OwnIds /\ BatchIds' = BatchIds /\ OtherIds' = OtherIds
        BY <3>6 DEF StartRoutine, wakeVars, OwnIds, BatchIds, OtherIds
      <4>3. QED
        BY <2>2, <2>3, <3>1, <4>1, <4>2, FollowBegin
    <3>7. QED
      BY <2>4, <3>2, <3>3, <3>4, <3>5, <3>6 DEF Loop
  <2>5. CASE JobSteps
    <3>1. ended' = ended /\ CoParts'
      BY <1>3, <2>5 DEF JobSteps, GiveId, Yield, TaskEnds, RoutineEnds, CoInv, CoParts
    <3>2. QED
      BY <2>2, <2>5, <3>1, FollowGiveId, FollowYield, FollowEnd DEF JobSteps
  <2>6. CASE CoRunEnds
    <3>1. ended' /\ Contents(ring') = <<>>
      BY <2>6 DEF CoRunEnds, CoInv
    <3>2. QED
      BY <2>1, <2>3, <2>6, <3>1, FollowRunEnds
  <2>7. ASSUME NEW j \in Tasks, ExecOp(j) PROVE Follows
    <3>1. ended' = ended /\ DoTask(j) /\ job[j] = "new"
      BY <2>7 DEF ExecOp, DoTask
    <3>2. PICK id : CoParts' /\ Goes(id, j)
      BY <2>1, <3>1, StepDoTask
    <3>3. OwnIds' = OwnIds /\ BatchIds' = BatchIds /\ OtherIds' = OtherIds
      BY <3>1 DEF DoTask, wakeVars, OwnIds, BatchIds, OtherIds
    <3>4. QED
      BY <2>2, <2>3, <3>1, <3>2, <3>3, FollowBegin
  <2>8. ASSUME NEW j \in Tasks, AddTask(j) PROVE Follows
    <3>1. ended' = ended /\ CoParts'
      BY <1>3, <2>8 DEF AddTask, CoInv, CoParts
    <3>2. QED
      BY <2>2, <2>8, <3>1, FollowAddTask
  <2>9. ASSUME NEW j \in Routines, Create(j) PROVE Follows
    <3>1. ended' = ended /\ CoParts'
      BY <1>3, <2>9 DEF Create, CoInv, CoParts
    <3>2. QED
      BY <2>2, <2>9, <3>1, FollowCreate
  <2>10. ASSUME NEW j \in Jobs, WakeOwn(j) PROVE Follows
    <3>1. /\ ended' = ended /\ UNCHANGED <<curco, inside, job>>
      BY <2>10 DEF WakeOwn, schedVars
    <3>2. /\ CoParts' /\ BatchIds' = BatchIds /\ OtherIds' = OtherIds
          /\ \/ OwnIds' = OwnIds
             \/ \E id \in Ids : inside[id] = j /\ job[j] = "waiting" /\ OwnIds' = Append(OwnIds, id)
      BY <2>1, <2>10, StepWakeOwn
    <3>3. Both
      BY <2>2, <3>1, <3>2
    <3>4. CASE OwnIds' = OwnIds
      BY <3>1, <3>2, <3>3, <3>4, Unseen
    <3>5. CASE OwnIds' # OwnIds
      BY <2>10, <3>2, <3>3, <3>5, FollowWakeOwn
    <3>6. QED
      BY <3>4, <3>5
  <2>11. ASSUME NEW j \in Jobs, WakeOther(j) PROVE Follows
    <3>1. ended' = ended
      BY <2>11 DEF WakeOther
    <3>2. QED
      BY <2>1, <2>2, <2>11, <3>1, StepWakeOther, FollowWakeOther
  <2>12. ASSUME NEW j \in Jobs, WakeAtOnce(j) PROVE Follows
    <3>1. ended' = ended /\ j \in owed
      BY <2>12 DEF WakeAtOnce
    <3>2. PICK id : CoParts' /\ Goes(id, j) /\ job[j] = "waiting"
      BY <2>1, <2>12, StepWakeAtOnce
    <3>3. OwnIds' = OwnIds /\ BatchIds' = BatchIds /\ OtherIds' = OtherIds
      BY <2>12 DEF WakeAtOnce, wakeVars, OwnIds, BatchIds, OtherIds
    <3>4. QED
      BY <2>2, <2>3, <3>1, <3>2, <3>3, FollowAtOnce
  <2>13. \A j \in Jobs : ~WakeLate(j)
    BY <1>3 DEF WakeLate
  <2>14. QED
    BY <1>3, <2>4, <2>5, <2>6, <2>7, <2>8, <2>9, <2>10, <2>11, <2>12, <2>13 DEF CoNext
<1>4. QED
  BY <1>2, <1>3, <1>1

\* The thread does what it promises to its jobs: one runs at a time, a job
\* that waits goes on only after it was woken, jobs are resumed in the order
\* in which they were woken in each queue, and after the loop none goes on.
THEOREM CoroutineKeepsSchedule == CoSpec => KeepsSchedule
<1>1. CoInit => Schedule!JobInit
  <2> SUFFICES ASSUME CoInit PROVE Schedule!JobInit
    OBVIOUS
  <2>1. CoParts /\ View /\ ~ended
    BY CoInitInv, CoView DEF CoInit, CoInv, CoParts
  <2>2. job = [j \in Jobs |-> "new"] /\ tmp.count = 0 /\ list.count = 0
    BY DEF CoInit, NewList
  <2>3. BatchIds = <<>> /\ OtherIds = <<>>
    BY <2>2, NoValues DEF BatchIds, OtherIds
  <2>4. OwnIds = <<>>
    BY CoInitEmpty
  <2>5. OwnJobs = <<>> /\ OtherJobs = <<>> /\ BatchJobs = <<>>
    BY <2>1, <2>3, <2>4, MappedEmpty DEF View, JobsOf, Mapped
  <2>6. JobStates = [j \in Jobs |-> "new"]
    BY <2>1, <2>2 DEF View
  <2>7. QED
    BY <2>5, <2>6 DEF Schedule!JobInit
<1>2. QED
  BY <1>1, StepFollows, CoroutineInvariant, PTL
     DEF CoSpec, KeepsSchedule, Schedule!JobSpec, Follows

-----------------------------------------------------------------------------
(* The calls of a coroutine.                                               *)

\* The invariant holds before anything was called.
LEMMA CallInitInv == Init => CoSyncInv
<1> SUFFICES ASSUME Init PROVE CoSyncInv
  OBVIOUS
<1>1. NoReply \in Msg /\ NoReply.idx = 0
  BY DEF NoReply, Msg
<1>2. FreshInfo \in [valid : BOOLEAN, co : BOOLEAN, buffer : Msg]
  BY <1>1 DEF FreshInfo
<1>3. \A k \in Conns : info[k] = FreshInfo
  BY DEF Init
<1>4. TypeOK
  <2>1. info \in [Conns -> [valid : BOOLEAN, co : BOOLEAN, buffer : Msg]]
    BY <1>2 DEF Init
  <2>2. cnt \in 0..Attempts /\ conn \in 0..MaxConns /\ conns \in 0..MaxConns
    BY BoundsAssumption DEF Init, Attempts
  <2>3. results \in Seq([code : {0, -2, -3}, reply : Msg])
    BY DEF Init
  <2>4. QED
    BY <2>1, <2>2, <2>3 DEF Init, TypeOK
<1>5. WakeUpInv
  BY <1>3 DEF Init, WakeUpInv, Waits, FreshInfo
<1>6. AttemptInv
  BY DEF Init, AttemptInv
<1>7. NumberInv
  BY <1>1, <1>3 DEF Init, NumberInv, Numbered, FreshInfo
<1>8. OkMeansReplied
  BY DEF Init, OkMeansReplied
<1>9. QED
  BY <1>4, <1>5, <1>6, <1>7, <1>8 DEF CoSyncInv

\* The connections that have the coroutine's id are none or one.
LEMMA WakeUpMeansOne == CoSyncInv => OneWakeUp
<1> SUFFICES ASSUME CoSyncInv PROVE OneWakeUp
  OBVIOUS
<1> USE DEF CoSyncInv
<1> DEFINE Have == {k \in Conns : info[k].co}
<1>1. resumes \in Nat /\ conn \in 0..MaxConns
  BY DEF TypeOK
<1>2. ASSUME Cardinality(Have) + resumes = IF Waits THEN 1 ELSE 0
      PROVE  OneWakeUp
  BY <1>2 DEF OneWakeUp, Waits
<1>3. CASE ~Waits
  <2>1. Have = {} /\ resumes = 0
    BY <1>3 DEF WakeUpInv
  <2>2. Cardinality(Have) = 0
    BY <2>1, FS_EmptySet
  <2> HIDE DEF Have
  <2>3. QED
    BY <1>2, <1>3, <2>1, <2>2
<1>4. CASE Waits /\ info[conn].co
  <2>1. conn \in Conns
    BY <1>1, <1>4, BoundsAssumption DEF AttemptInv, Waits, Conns
  <2>2. Have = {conn} /\ resumes = 0
    BY <1>4, <2>1 DEF WakeUpInv
  <2>3. Cardinality(Have) = 1
    BY <2>2, FS_Singleton
  <2> HIDE DEF Have
  <2>4. QED
    BY <1>2, <1>4, <2>2, <2>3
<1>5. CASE Waits /\ ~info[conn].co
  <2>1. Have = {} /\ resumes = 1
    BY <1>5 DEF WakeUpInv
  <2>2. Cardinality(Have) = 0
    BY <2>1, FS_EmptySet
  <2> HIDE DEF Have
  <2>3. QED
    BY <1>2, <1>5, <2>1, <2>2
<1>6. QED
  BY <1>3, <1>4, <1>5

-----------------------------------------------------------------------------
(* The coroutine.                                                          *)

\* Steps that change neither the connections' infos nor what is in transit.
LEMMA CoStart ==
  ASSUME CoSyncInv, Start
  PROVE  CoSyncInv'
<1> USE DEF CoSyncInv
<1>1. /\ pc = "idle" /\ pc' = "attempt" /\ cnt' = 0 /\ code' = 0
      /\ UNCHANGED <<conn, conns, packidx, results, resumes, near, sock, info, wire, replies, missed>>
  BY DEF Start, connVars, net
<1>2. TypeOK'
  BY <1>1 DEF TypeOK, Attempts
<1>3. WakeUpInv' /\ AttemptInv'
  BY <1>1 DEF WakeUpInv, AttemptInv, Waits
<1>4. NumberInv' /\ OkMeansReplied'
  BY <1>1 DEF NumberInv, Numbered, OkMeansReplied, Call
<1>5. QED
  BY <1>2, <1>3, <1>4

\* The attempt goes on with the connection it has.
LEMMA CoConnected ==
  ASSUME CoSyncInv, Connected
  PROVE  CoSyncInv'
<1> USE DEF CoSyncInv
<1>1. /\ pc = "attempt" /\ cnt < Attempts /\ conn # 0 /\ pc' = "lock"
      /\ UNCHANGED <<conn, conns, packidx, cnt, code, results, resumes, near, sock, info,
                     wire, replies, missed>>
  BY DEF Connected, IsConnected, connVars, net
<1>2. TypeOK'
  BY <1>1 DEF TypeOK
<1>3. WakeUpInv' /\ AttemptInv'
  BY <1>1 DEF WakeUpInv, AttemptInv, Waits
<1>4. NumberInv' /\ OkMeansReplied'
  BY <1>1 DEF NumberInv, Numbered, OkMeansReplied, Call
<1>5. QED
  BY <1>2, <1>3, <1>4

\* A connection is opened; no callback has the coroutine's id.
LEMMA CoConnect ==
  ASSUME CoSyncInv, NEW isnear \in BOOLEAN, Connect(isnear)
  PROVE  CoSyncInv'
<1> USE DEF CoSyncInv
<1>1. /\ pc = "attempt" /\ cnt < Attempts /\ conns < MaxConns
      /\ conns' = conns + 1 /\ conn' = conns + 1 /\ pc' = "connected"
      /\ sock' = [sock EXCEPT ![conns + 1] = "open"]
      /\ near' = [near EXCEPT ![conns + 1] = isnear]
      /\ UNCHANGED <<packidx, cnt, code, results, resumes, info, wire, replies, missed>>
  BY DEF Connect, NeedsConnect, net
<1>2. conns + 1 \in 1..MaxConns
  BY <1>1, BoundsAssumption DEF TypeOK
<1>3. TypeOK'
  <2>1. sock' \in [Conns -> {"none", "open", "closing", "closed"}]
    BY <1>1 DEF TypeOK
  <2>2. near' \in [Conns -> BOOLEAN]
    BY <1>1 DEF TypeOK
  <2>3. conn' \in 0..MaxConns /\ conns' \in 0..MaxConns
    BY <1>1, <1>2
  <2>4. QED
    BY <1>1, <2>1, <2>2, <2>3 DEF TypeOK
<1>4. WakeUpInv'
  BY <1>1 DEF WakeUpInv, Waits
<1>5. AttemptInv'
  BY <1>1, <1>2 DEF AttemptInv
<1>6. NumberInv' /\ OkMeansReplied'
  BY <1>1 DEF NumberInv, Numbered, OkMeansReplied, Call
<1>7. QED
  BY <1>3, <1>4, <1>5, <1>6

\* The connection of an attempt, from its opening on.
LEMMA CoHasConnection ==
  ASSUME CoSyncInv, pc \in {"connected", "lock", "send", "parked", "check"}
  PROVE  conn \in Conns /\ cnt < Attempts
BY BoundsAssumption DEF CoSyncInv, TypeOK, AttemptInv, Conns

\* Changing a field other than the buffer leaves the numbers as they are.
LEMMA CoInfoField ==
  ASSUME CoSyncInv, conn \in Conns,
         \/ info' = [info EXCEPT ![conn].valid = TRUE]
         \/ info' = [info EXCEPT ![conn].co = TRUE]
  PROVE  /\ info' \in [Conns -> [valid : BOOLEAN, co : BOOLEAN, buffer : Msg]]
         /\ \A k \in Conns : info'[k].buffer = info[k].buffer
         /\ \A k \in Conns \ {conn} : info'[k] = info[k]
<1>1. info \in [Conns -> [valid : BOOLEAN, co : BOOLEAN, buffer : Msg]]
  BY DEF CoSyncInv, TypeOK
<1>2. CASE info' = [info EXCEPT ![conn].valid = TRUE]
  BY <1>1, <1>2
<1>3. CASE info' = [info EXCEPT ![conn].co = TRUE]
  BY <1>1, <1>3
<1>4. QED
  BY <1>2, <1>3

\* valid = true after Connect.
LEMMA CoSetValid ==
  ASSUME CoSyncInv, SetValid
  PROVE  CoSyncInv'
<1> USE DEF CoSyncInv
<1>1. /\ pc = "connected" /\ pc' = "lock"
      /\ info' = [info EXCEPT ![conn].valid = TRUE]
      /\ UNCHANGED <<conn, conns, packidx, cnt, code, results, resumes, near, sock,
                     wire, replies, missed>>
  BY DEF SetValid, net
<1>2. conn \in Conns
  BY <1>1, CoHasConnection
<1>3. /\ info' \in [Conns -> [valid : BOOLEAN, co : BOOLEAN, buffer : Msg]]
      /\ \A k \in Conns : info'[k].buffer = info[k].buffer
  BY <1>1, <1>2, CoInfoField
<1>4. TypeOK'
  BY <1>1, <1>3 DEF TypeOK
<1>5. WakeUpInv'
  <2>1. \A k \in Conns : info'[k].co = info[k].co
    BY <1>1, <1>2 DEF TypeOK
  <2>2. QED
    BY <1>1, <2>1 DEF WakeUpInv, Waits
<1>6. AttemptInv'
  BY <1>1 DEF AttemptInv
<1>7. NumberInv' /\ OkMeansReplied'
  BY <1>1, <1>3 DEF NumberInv, Numbered, OkMeansReplied, Call
<1>8. QED
  BY <1>4, <1>5, <1>6, <1>7

\* No connection could be opened.
LEMMA CoConnectFails ==
  ASSUME CoSyncInv, ConnectFails
  PROVE  CoSyncInv'
<1> USE DEF CoSyncInv
<1>1. /\ pc = "attempt" /\ cnt < Attempts
      /\ conn' = 0 /\ cnt' = cnt + 1 /\ code' = -2
      /\ UNCHANGED <<pc, conns, packidx, results, resumes, near, sock, info, wire, replies, missed>>
  BY DEF ConnectFails, NeedsConnect, connVars, net
<1>2. cnt' \in 0..Attempts /\ 0 \in 0..MaxConns
  BY <1>1, BoundsAssumption DEF TypeOK, Attempts
<1>3. TypeOK'
  BY <1>1, <1>2 DEF TypeOK
<1>4. WakeUpInv' /\ AttemptInv'
  BY <1>1 DEF WakeUpInv, AttemptInv, Waits
<1>5. NumberInv' /\ OkMeansReplied'
  BY <1>1 DEF NumberInv, Numbered, OkMeansReplied, Call
<1>6. QED
  BY <1>3, <1>4, <1>5

\* The coroutine leaves its id with the connection.
LEMMA CoLock ==
  ASSUME CoSyncInv, Lock
  PROVE  CoSyncInv'
<1> USE DEF CoSyncInv
<1>1. /\ pc = "lock" /\ pc' = "send"
      /\ info' = [info EXCEPT ![conn].co = TRUE]
      /\ UNCHANGED <<conn, conns, packidx, cnt, code, results, resumes, near, sock,
                     wire, replies, missed>>
  BY DEF Lock, net
<1>2. conn \in Conns
  BY <1>1, CoHasConnection
<1>3. /\ info' \in [Conns -> [valid : BOOLEAN, co : BOOLEAN, buffer : Msg]]
      /\ \A k \in Conns : info'[k].buffer = info[k].buffer
      /\ \A k \in Conns \ {conn} : info'[k] = info[k]
  BY <1>1, <1>2, CoInfoField
<1>4. TypeOK'
  BY <1>1, <1>3 DEF TypeOK
<1>5. WakeUpInv'
  <2>1. resumes = 0 /\ \A k \in Conns : ~info[k].co
    BY <1>1 DEF WakeUpInv, Waits
  <2>2. info'[conn].co
    BY <1>1, <1>2 DEF TypeOK
  <2>3. QED
    BY <1>1, <1>2, <1>3, <2>1, <2>2 DEF WakeUpInv, Waits
<1>6. AttemptInv'
  BY <1>1 DEF AttemptInv
<1>7. NumberInv' /\ OkMeansReplied'
  BY <1>1, <1>3 DEF NumberInv, Numbered, OkMeansReplied, Call
<1>8. QED
  BY <1>4, <1>5, <1>6, <1>7

\* An attempt fails only when nothing can wake the coroutine any more.
LEMMA CoFail ==
  ASSUME CoSyncInv, pc \in {"lock", "check"}, Fail,
         UNCHANGED <<conns, packidx, results, resumes, near, info, wire, replies, missed>>
  PROVE  CoSyncInv'
<1> USE DEF CoSyncInv
<1>1. /\ conn' = 0 /\ cnt' = cnt + 1 /\ code' = -3 /\ pc' = "attempt"
      /\ sock' \in [Conns -> {"none", "open", "closing", "closed"}]
  <2>1. sock \in [Conns -> {"none", "open", "closing", "closed"}]
    BY DEF TypeOK
  <2>2. conn \in Conns
    BY CoHasConnection
  <2>3. QED
    BY <2>1, <2>2 DEF Fail
<1>2. cnt' \in 0..Attempts /\ 0 \in 0..MaxConns
  BY <1>1, CoHasConnection, BoundsAssumption DEF TypeOK, Attempts
<1>3. TypeOK'
  BY <1>1, <1>2 DEF TypeOK
<1>4. WakeUpInv' /\ AttemptInv'
  BY <1>1 DEF WakeUpInv, AttemptInv, Waits
<1>5. NumberInv' /\ OkMeansReplied'
  BY <1>1 DEF NumberInv, Numbered, OkMeansReplied, Call
<1>6. QED
  BY <1>3, <1>4, <1>5

\* The request takes a number that nothing carries yet.
LEMMA CoSend ==
  ASSUME CoSyncInv, SendAndYield
  PROVE  CoSyncInv'
<1> USE DEF CoSyncInv
<1> DEFINE q == [conn |-> conn, msg |-> [idx |-> packidx + 1, call |-> Call]]
<1>1. /\ pc = "send" /\ pc' = "parked" /\ packidx' = packidx + 1
      /\ wire' = wire \cup {q} \/ wire' = wire
      /\ UNCHANGED <<conn, conns, cnt, code, results, resumes, near, sock, info, replies, missed>>
  BY DEF SendAndYield, connVars
<1>2. conn \in Conns /\ packidx \in Nat /\ Call \in Nat
  BY <1>1, CoHasConnection DEF TypeOK, Call
<1>3. q.msg \in Msg /\ q \in [conn : Conns, msg : Msg]
  BY <1>2 DEF Msg
<1>4. q.msg.idx = packidx + 1 /\ q.msg.call = Call
  OBVIOUS
<1> HIDE DEF q
<1>5. TypeOK'
  BY <1>1, <1>2, <1>3 DEF TypeOK
<1>6. WakeUpInv' /\ AttemptInv'
  BY <1>1, <1>2 DEF WakeUpInv, AttemptInv, Waits
<1>7. ASSUME NEW m \in Msg, Numbered(m)
      PROVE  m.idx <= packidx' /\ m.idx # packidx'
  BY <1>1, <1>2, <1>7 DEF Numbered, Msg
<1>8. NumberInv'
  <2>1. \A r \in wire \cup replies : r.msg.idx <= packidx' /\ r.msg.idx # packidx'
    BY <1>7 DEF NumberInv, TypeOK
  <2>2. \A k \in Conns : info[k].buffer.idx <= packidx' /\ info[k].buffer.idx # packidx'
    BY <1>7 DEF NumberInv, TypeOK
  <2>3. q.msg.idx <= packidx' /\ q.msg.call = Call'
    BY <1>1, <1>2, <1>4 DEF Call
  <2>4. ASSUME NEW r \in wire' \cup replies' PROVE Numbered(r.msg)'
    <3>1. CASE r = q
      BY <2>3, <3>1 DEF Numbered
    <3>2. CASE r # q
      BY <1>1, <2>1, <3>2 DEF Numbered
    <3>3. QED
      BY <3>1, <3>2
  <2>5. ASSUME NEW k \in Conns PROVE Numbered(info[k].buffer)'
    BY <1>1, <2>2 DEF Numbered
  <2>6. QED
    BY <2>4, <2>5 DEF NumberInv
<1>9. OkMeansReplied'
  BY <1>1 DEF OkMeansReplied
<1>10. QED
  BY <1>5, <1>6, <1>8, <1>9

\* The one entry of the queue is used up.
LEMMA CoResume ==
  ASSUME CoSyncInv, Resume
  PROVE  CoSyncInv'
<1> USE DEF CoSyncInv
<1>1. /\ pc = "parked" /\ resumes > 0 /\ resumes' = resumes - 1 /\ pc' = "check"
      /\ UNCHANGED <<conn, conns, packidx, cnt, code, results, near, sock, info,
                     wire, replies, missed>>
  BY DEF Resume, connVars, net
<1>2. resumes = 1 /\ resumes' = 0 /\ \A k \in Conns : ~info[k].co
  BY <1>1 DEF WakeUpInv, TypeOK
<1>3. TypeOK'
  BY <1>1, <1>2 DEF TypeOK
<1>4. WakeUpInv'
  BY <1>1, <1>2 DEF WakeUpInv, Waits
<1>5. NumberInv' /\ OkMeansReplied'
  BY <1>1 DEF NumberInv, Numbered, OkMeansReplied, Call
<1>6. QED
  BY <1>1, <1>3, <1>4, <1>5 DEF AttemptInv

\* A call returns: its result is the next one.
LEMMA CoReturn ==
  ASSUME CoSyncInv, pc \in {"attempt", "check"},
         NEW res \in {0, -2, -3}, NEW reply \in Msg, Return(res, reply),
         res = 0 => reply.call = Call,
         UNCHANGED <<conn, conns, packidx, cnt, code, resumes, near, sock, info, wire, replies, missed>>
  PROVE  CoSyncInv'
<1> USE DEF CoSyncInv
<1> DEFINE Result == [code : {0, -2, -3}, reply : Msg]
           last == [code |-> res, reply |-> reply]
<1>1. last \in Result /\ last.code = res /\ last.reply = reply
  OBVIOUS
<1>2. results \in Seq(Result) /\ results' = Append(results, last) /\ pc' = "idle"
  BY DEF TypeOK, Return
<1>3. results' \in Seq(Result)
  <2> HIDE DEF Result, last
  <2>1. QED
    BY <1>1, <1>2
<1>4. TypeOK'
  BY <1>2, <1>3 DEF TypeOK
<1> HIDE DEF Result, last
<1>5. WakeUpInv' /\ AttemptInv'
  BY <1>2 DEF WakeUpInv, AttemptInv, Waits
<1>6. NumberInv'
  BY <1>2 DEF NumberInv, Numbered
<1>7. OkMeansReplied'
  <2> SUFFICES ASSUME NEW n \in 1..Len(results'), results'[n].code = 0
               PROVE  results'[n].reply.call = n
    BY DEF OkMeansReplied
  <2>1. CASE n = Call
    <3>1. results'[n] = last
      BY <1>2, <2>1 DEF Call
    <3>2. QED
      BY <1>1, <2>1, <3>1
  <2>2. CASE n # Call
    <3>1. n \in 1..Len(results) /\ results'[n] = results[n]
      BY <1>2, <2>2 DEF Call
    <3>2. QED
      BY <3>1 DEF OkMeansReplied
  <2>3. QED
    BY <2>1, <2>2
<1>8. QED
  BY <1>4, <1>5, <1>6, <1>7

\* _CheckReply accepts the number of this call, hence the reply to it.
LEMMA CoCheckOk ==
  ASSUME CoSyncInv, CheckOk
  PROVE  CoSyncInv'
<1> USE DEF CoSyncInv
<1>1. /\ pc = "check" /\ info[conn].buffer.idx = packidx
      /\ Return(0, info[conn].buffer)
      /\ UNCHANGED <<conn, conns, packidx, cnt, code, resumes, near, sock, info,
                     wire, replies, missed>>
  BY DEF CheckOk, CheckReply, connVars, net
<1>2. conn \in Conns
  BY <1>1, CoHasConnection
<1>3. info[conn].buffer \in Msg
  BY <1>2 DEF TypeOK
<1>4. info[conn].buffer.call = Call
  BY <1>1, <1>2 DEF NumberInv, Numbered
<1>5. QED
  BY <1>1, <1>3, <1>4, CoReturn

\* A call that gives up returns a code that is not 0.
LEMMA CoGiveUp ==
  ASSUME CoSyncInv, GiveUp
  PROVE  CoSyncInv'
<1> USE DEF CoSyncInv
<1>1. /\ pc = "attempt" /\ cnt = 2 /\ Return(code, NoReply)
      /\ UNCHANGED <<conn, conns, packidx, cnt, code, resumes, near, sock, info,
                     wire, replies, missed>>
  BY DEF GiveUp, Attempts, connVars, net
<1>2. code \in {0, -2, -3} /\ code # 0
  BY <1>1 DEF TypeOK, AttemptInv
<1>3. NoReply \in Msg
  BY DEF NoReply, Msg
<1>4. QED
  BY <1>1, <1>2, <1>3, CoReturn

-----------------------------------------------------------------------------
(* The callbacks and the network.                                          *)

\* A callback takes the id, if it is there, and queues one entry for it.
LEMMA CoCallback ==
  ASSUME CoSyncInv, NEW k \in Conns, NEW b \in Msg, Numbered(b), Queue(k),
         info' \in [Conns -> [valid : BOOLEAN, co : BOOLEAN, buffer : Msg]],
         \A j \in Conns \ {k} : info'[j] = info[j],
         ~info'[k].co, info'[k].buffer = b,
         sock' \in [Conns -> {"none", "open", "closing", "closed"}],
         wire' = wire, replies' \subseteq replies, missed' \in BOOLEAN,
         UNCHANGED <<pc, conn, conns, packidx, cnt, code, results, near>>
  PROVE  CoSyncInv'
<1> USE DEF CoSyncInv
<1>1. resumes \in Nat
  BY DEF TypeOK
<1>2. TypeOK'
  BY <1>1 DEF TypeOK, Queue
<1>3. WakeUpInv'
  <2>1. CASE info[k].co
    <3>1. k = conn /\ Waits /\ resumes = 0
      BY <2>1 DEF WakeUpInv
    <3>2. resumes' = 1
      BY <2>1, <3>1 DEF Queue
    <3>3. \A j \in Conns : ~info'[j].co
      BY <3>1 DEF WakeUpInv
    <3>4. QED
      BY <3>1, <3>2, <3>3 DEF WakeUpInv, Waits
  <2>2. CASE ~info[k].co
    <3>1. resumes' = resumes
      BY <2>2 DEF Queue
    <3>2. \A j \in Conns : info'[j].co <=> info[j].co
      BY <2>2
    <3>3. Waits => conn \in Conns
      BY CoHasConnection DEF Waits
    <3>4. QED
      BY <3>1, <3>2, <3>3 DEF WakeUpInv, Waits
  <2>3. QED
    BY <2>1, <2>2
<1>4. AttemptInv' /\ OkMeansReplied'
  BY DEF AttemptInv, OkMeansReplied
<1>5. NumberInv'
  <2>1. ASSUME NEW j \in Conns PROVE Numbered(info'[j].buffer)
    <3>1. CASE j = k
      BY <3>1
    <3>2. CASE j # k
      BY <3>2 DEF NumberInv
    <3>3. QED
      BY <3>1, <3>2
  <2>2. QED
    BY <2>1 DEF NumberInv, Numbered, Call
<1>6. QED
  BY <1>2, <1>3, <1>4, <1>5

\* A reply.
LEMMA CoReceive ==
  ASSUME CoSyncInv, NEW k \in Conns, NEW r \in replies, OnReceiveData(k, r)
  PROVE  CoSyncInv'
<1>1. /\ replies' = replies \ {r} /\ Queue(k)
      /\ info' = [info EXCEPT ![k].co = FALSE, ![k].buffer = r.msg]
      /\ UNCHANGED <<pc, conn, conns, packidx, cnt, code, results, near, sock, wire, missed>>
  BY DEF OnReceiveData, coVars
<1>2. r.msg \in Msg /\ Numbered(r.msg)
  BY DEF CoSyncInv, TypeOK, NumberInv
<1>3. info \in [Conns -> [valid : BOOLEAN, co : BOOLEAN, buffer : Msg]]
  BY DEF CoSyncInv, TypeOK
<1>4. /\ info' \in [Conns -> [valid : BOOLEAN, co : BOOLEAN, buffer : Msg]]
      /\ \A j \in Conns \ {k} : info'[j] = info[j]
      /\ ~info'[k].co /\ info'[k].buffer = r.msg
  BY <1>1, <1>2, <1>3
<1>5. sock' \in [Conns -> {"none", "open", "closing", "closed"}] /\ missed' \in BOOLEAN
  BY <1>1 DEF CoSyncInv, TypeOK
<1>6. QED
  BY <1>1, <1>2, <1>4, <1>5, CoCallback

\* The end of a connection.
LEMMA CoDisconnected ==
  ASSUME CoSyncInv, NEW k \in Conns, OnDisconnected(k)
  PROVE  CoSyncInv'
<1>1. /\ Queue(k) /\ info' = [info EXCEPT ![k] = FreshInfo]
      /\ sock' = [sock EXCEPT ![k] = "closed"]
      /\ missed' = (missed \/ ~info[k].valid)
      /\ UNCHANGED <<pc, conn, conns, packidx, cnt, code, results, near, wire, replies>>
  BY DEF OnDisconnected, coVars
<1>2. NoReply \in Msg /\ NoReply.idx = 0 /\ NoReply.call = 0
  BY DEF NoReply, Msg
<1>3. Numbered(NoReply)
  BY <1>2 DEF CoSyncInv, TypeOK, AttemptInv, Numbered
<1>4. /\ FreshInfo \in [valid : BOOLEAN, co : BOOLEAN, buffer : Msg]
      /\ ~FreshInfo.co /\ FreshInfo.buffer = NoReply
  BY <1>2 DEF FreshInfo
<1>5. /\ info' \in [Conns -> [valid : BOOLEAN, co : BOOLEAN, buffer : Msg]]
      /\ \A j \in Conns \ {k} : info'[j] = info[j]
      /\ ~info'[k].co /\ info'[k].buffer = NoReply
  BY <1>1, <1>4 DEF CoSyncInv, TypeOK
<1>6. sock' \in [Conns -> {"none", "open", "closing", "closed"}]
  BY <1>1 DEF CoSyncInv, TypeOK
<1>7. missed' \in BOOLEAN
  BY <1>1
<1>8. QED
  BY <1>1, <1>2, <1>3, <1>5, <1>6, <1>7, CoCallback

\* The server, and the network.
LEMMA CoOutside ==
  ASSUME CoSyncInv,
         (\E r \in wire : Answer(r) \/ Silent(r)) \/ (\E k \in Conns : Ends(k))
  PROVE  CoSyncInv'
<1> USE DEF CoSyncInv
<1>1. /\ wire' \cup replies' \subseteq wire \cup replies
      /\ wire' \subseteq [conn : Conns, msg : Msg] /\ replies' \subseteq [conn : Conns, msg : Msg]
  BY DEF Answer, Silent, Ends, net, TypeOK
<1>2. /\ sock' \in [Conns -> {"none", "open", "closing", "closed"}] /\ missed' \in BOOLEAN
      /\ UNCHANGED <<pc, conn, conns, packidx, cnt, code, results, resumes, near, info>>
  <2>1. sock \in [Conns -> {"none", "open", "closing", "closed"}] /\ missed \in BOOLEAN
    BY DEF TypeOK
  <2>2. CASE \E r \in wire : Answer(r) \/ Silent(r)
    BY <2>1, <2>2 DEF Answer, Silent, coVars, connVars
  <2>3. CASE \E k \in Conns : Ends(k)
    BY <2>1, <2>3 DEF Ends, coVars, net
  <2>4. QED
    BY <2>2, <2>3
<1>3. TypeOK'
  BY <1>1, <1>2 DEF TypeOK
<1>4. WakeUpInv' /\ AttemptInv' /\ OkMeansReplied'
  BY <1>2 DEF WakeUpInv, AttemptInv, OkMeansReplied, Waits
<1>5. NumberInv'
  BY <1>1, <1>2 DEF NumberInv, Numbered, Call
<1>6. QED
  BY <1>3, <1>4, <1>5

-----------------------------------------------------------------------------
(* The theorems.                                                           *)

\* Every step keeps the invariant.
LEMMA CoStep == CoSyncInv /\ [Next]_vars => CoSyncInv'
<1> SUFFICES ASSUME CoSyncInv, [Next]_vars PROVE CoSyncInv'
  OBVIOUS
<1>1. CASE Start
  BY <1>1, CoStart
<1>2. CASE Coroutine
  <2>1. ASSUME NEW isnear \in BOOLEAN, Connect(isnear) PROVE CoSyncInv'
    BY <2>1, CoConnect
  <2>2. CASE Invalid
    <3>1. pc = "lock" /\ Fail
      BY <2>2 DEF Invalid
    <3>2. UNCHANGED <<conns, packidx, results, resumes, near, info, wire, replies, missed>>
      BY <2>2 DEF Invalid, net
    <3>3. QED
      BY <3>1, <3>2, CoFail
  <2>3. CASE CheckFails
    <3>1. pc = "check" /\ Fail
      BY <2>3 DEF CheckFails
    <3>2. UNCHANGED <<conns, packidx, results, resumes, near, info, wire, replies, missed>>
      BY <2>3 DEF CheckFails, net
    <3>3. QED
      BY <3>1, <3>2, CoFail
  <2>4. QED
    BY <1>2, <2>1, <2>2, <2>3, CoConnected, CoSetValid, CoConnectFails, CoLock, CoSend,
       CoResume, CoCheckOk, CoGiveUp DEF Coroutine
<1>3. ASSUME NEW k \in Conns, Callback(k)
      PROVE  CoSyncInv'
  BY <1>3, CoReceive, CoDisconnected DEF Callback
<1>4. CASE (\E r \in wire : Answer(r) \/ Silent(r)) \/ (\E k \in Conns : Ends(k))
  BY <1>4, CoOutside
<1>5. CASE UNCHANGED vars
  <2>1. UNCHANGED <<pc, conn, conns, packidx, cnt, code, results, resumes>>
    BY <1>5 DEF vars, coVars
  <2>2. UNCHANGED <<near, sock, info, wire, replies, missed>>
    BY <1>5 DEF vars, connVars, net
  <2>3. TypeOK'
    BY <2>1, <2>2 DEF CoSyncInv, TypeOK
  <2>4. WakeUpInv' /\ AttemptInv' /\ NumberInv' /\ OkMeansReplied'
    BY <2>1, <2>2 DEF CoSyncInv, WakeUpInv, AttemptInv, NumberInv, Numbered, OkMeansReplied,
                      Waits, Call
  <2>5. QED
    BY <2>3, <2>4 DEF CoSyncInv
<1>6. QED
  BY <1>1, <1>2, <1>3, <1>4, <1>5 DEF Next

\* While a coroutine waits in SyncCall exactly one thing can wake it, its id in
\* the connection's _CoScInfo_ or one entry of its thread's queue; at any
\* other time nothing can.
THEOREM CoOneWakeUp == Spec => []OneWakeUp
BY CallInitInv, CoStep, WakeUpMeansOne, PTL DEF Spec

\* A call of a coroutine that returns 0 hands out the reply to this call.
THEOREM CoOkMeansReplied == Spec => []OkMeansReplied
<1>1. CoSyncInv => OkMeansReplied
  BY DEF CoSyncInv
<1>2. QED
  BY CallInitInv, CoStep, <1>1, PTL DEF Spec
=============================================================================
