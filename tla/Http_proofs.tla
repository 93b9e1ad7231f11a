---------------------------- MODULE Http_proofs ----------------------------
(***************************************************************************)
(* Proofs about HttpMsg and HttpSocket, for any texts of the alphabet, any *)
(* requests, phrases and bodies, and any number of messages, cut anywhere. *)
(*                                                                         *)
(* The parser.  Parse is a function on what a round is left with; every    *)
(* round that is not the last one moves something, so it comes to an end   *)
(* (ParseIs), and what it comes to can be said by rounds (ParseEnds).  A   *)
(* round on a chunk and on a longer one either does the same and leaves    *)
(* more, or goes on with what the shorter one was short of; hence whatever *)
(* of a message has arrived, parsing the rest goes on as if all had        *)
(* arrived at once (ParseGoesOn).                                          *)
(*                                                                         *)
(* The message.  A well-formed message in front of a chunk is parsed as    *)
(* what it is, whatever follows it: a part of the first line, a header     *)
(* line, the blank line and the body are taken one after the other         *)
(* (MessageParsed).                                                        *)
(*                                                                         *)
(* The socket.  HttpInv is inductive.  What the setters have written is    *)
(* the bytes of what the application meant (BuiltAsMeant); the stream is   *)
(* the messages sent, one after the other (StreamAsSent); and what the     *)
(* receiver has cut, what it is parsing and what is left of its chunk are  *)
(* the front of that stream (ReceivedAsSent).                              *)
(***************************************************************************)
EXTENDS HttpSocket, SequenceTheorems, WellFoundedInduction, TLAPS

-----------------------------------------------------------------------------
(* The rounds of Parse.                                                    *)

\* A nonempty set of naturals has a least element.
LEMMA LeastOf ==
  ASSUME NEW T \in SUBSET Nat, T # {}
  PROVE  \E x \in T : \A y \in T : x <= y
<1>1. PICK x \in T : \A y \in T : ~ (<<y, x>> \in OpToRel(<, Nat))
  BY WFMin, NatLessThanWellFounded
<1>2. \A y \in T : ~ (y < x)
  BY <1>1 DEF OpToRel
<1>3. QED
  BY <1>2

\* What Least gives.
LEMMA LeastIs ==
  ASSUME NEW T \in SUBSET Nat, T # {}
  PROVE  /\ Least(T) \in T /\ \A y \in T : Least(T) <= y
         /\ \A x \in T : (\A y \in T : x <= y) => x = Least(T)
<1>1. \E x \in T : \A y \in T : x <= y
  BY LeastOf
<1>2. Least(T) \in T /\ \A y \in T : Least(T) <= y
  BY <1>1 DEF Least
<1>3. ASSUME NEW x \in T, \A y \in T : x <= y PROVE x = Least(T)
  <2> DEFINE l == Least(T)
  <2> HIDE DEF l
  <2>1. l \in T /\ l <= x /\ x <= l /\ l \in Nat /\ x \in Nat
    BY <1>2, <1>3 DEF l
  <2>2. QED
    BY <2>1 DEF l
<1>4. QED
  BY <1>2, <1>3

\* The rounds of Parse on x, as the function the definition of Parse chooses.
IsRounds(f, x) == f = [n \in Nat |-> IF n = 0 THEN x ELSE ParseRound(f[n - 1])]

\* There is such a function, whatever a round does.
LEMMA RoundsExist ==
  ASSUME NEW x
  PROVE  \E f : IsRounds(f, x)
<1> DEFINE Upto(g, n) == g = [k \in 0..n |-> IF k = 0 THEN x ELSE ParseRound(g[k - 1])]
<1>1. \A n \in Nat : \E g : Upto(g, n)
  <2> DEFINE T == {n \in Nat : ~ \E g : Upto(g, n)}
  <2>1. SUFFICES ASSUME T # {} PROVE FALSE
    BY <2>1
  <2>2. T \in SUBSET Nat
    OBVIOUS
  <2> HIDE DEF T
  <2>3. PICK n \in T : \A k \in T : n <= k
    BY <2>1, <2>2, LeastOf
  <2>4. T \in SUBSET Nat /\ \A k \in Nat : k \notin T => \E g : Upto(g, k)
    BY <2>2 DEF T
  <2>5. ASSUME \E g : Upto(g, n) PROVE FALSE
    BY <2>3, <2>5 DEF T
  <2> HIDE DEF Upto
  <2>6. CASE n = 0
    <3> USE DEF Upto
    <3> DEFINE g == [k \in 0..0 |-> x]
    <3>1. Upto(g, 0)
      OBVIOUS
    <3>2. QED
      BY <2>6, <2>5, <3>1
  <2>7. CASE n # 0
    <3>1. n \in Nat /\ n - 1 \in Nat /\ n - 1 \notin T
      BY <2>3, <2>7, <2>4
    <3>2. PICK g : Upto(g, n - 1)
      BY <2>4, <3>1
    <3> USE DEF Upto
    <3> DEFINE h == [k \in 0..n |-> IF k < n THEN g[k] ELSE ParseRound(g[n - 1])]
    <3>3. \A k \in 0..n : h[k] = IF k = 0 THEN x ELSE ParseRound(h[k - 1])
      <4>1. \A k \in 0..n - 1 : g[k] = IF k = 0 THEN x ELSE ParseRound(g[k - 1])
        BY <3>2
      <4>2. \A k \in 0..n : h[k] = IF k < n THEN g[k] ELSE ParseRound(g[n - 1])
        OBVIOUS
      <4> HIDE DEF h
      <4>3. \A k \in 0..n : (k < n /\ k - 1 < n) \/ (k = n /\ k - 1 < n /\ k - 1 \in 0..n)
        BY <3>1
      <4>4. h[0] = g[0]
        BY <3>1, <4>2
      <4>5. \A k \in 1..n : h[k - 1] = g[k - 1]
        BY <3>1, <4>2
      <4>6. h[n] = ParseRound(g[n - 1])
        BY <3>1, <4>2
      <4>7. \A k \in 0..n - 1 : h[k] = g[k]
        BY <3>1, <4>2
      <4>8. QED
        BY <3>1, <4>1, <4>4, <4>5, <4>6, <4>7
    <3> HIDE DEF h
    <3>4. h = [k \in 0..n |-> h[k]]
      BY DEF h
    <3>5. Upto(h, n)
      BY <3>3, <3>4
    <3>6. QED
      BY <2>5, <3>5
  <2>8. QED
    BY <2>6, <2>7
<1>2. ASSUME NEW g, NEW h, NEW n \in Nat, NEW m \in Nat, Upto(g, n), Upto(h, m),
             NEW k \in Nat, k <= n, k <= m
      PROVE  g[k] = h[k]
  <2> DEFINE T == {i \in Nat : i <= n /\ i <= m /\ g[i] # h[i]}
  <2>1. SUFFICES ASSUME T # {} PROVE FALSE
    BY <1>2, <2>1
  <2>2. T \in SUBSET Nat
    OBVIOUS
  <2> HIDE DEF T
  <2>3. PICK i \in T : \A j \in T : i <= j
    BY <2>1, <2>2, LeastOf
  <2> USE DEF T
  <2>4. i = 0 \/ (i - 1 \in Nat /\ i - 1 <= n /\ i - 1 <= m /\ g[i - 1] = h[i - 1])
    BY <2>3
  <2>5. g[i] = IF i = 0 THEN x ELSE ParseRound(g[i - 1])
    BY <1>2
  <2>6. h[i] = IF i = 0 THEN x ELSE ParseRound(h[i - 1])
    BY <1>2
  <2>7. QED
    BY <2>4, <2>5, <2>6
<1> DEFINE G(n) == CHOOSE g : Upto(g, n)
           f == [n \in Nat |-> G(n)[n]]
<1>3. \A n \in Nat : Upto(G(n), n)
  BY <1>1, Zenon
<1> HIDE DEF G
<1>4. \A n \in Nat : f[n] = IF n = 0 THEN x ELSE ParseRound(f[n - 1])
  <2>1. SUFFICES ASSUME NEW n \in Nat
                 PROVE  f[n] = IF n = 0 THEN x ELSE ParseRound(f[n - 1])
    OBVIOUS
  <2>2. G(n)[n] = IF n = 0 THEN x ELSE ParseRound(G(n)[n - 1])
    BY <1>3
  <2>3. n # 0 => G(n)[n - 1] = G(n - 1)[n - 1]
    <3>1. ASSUME n # 0 PROVE G(n)[n - 1] = G(n - 1)[n - 1]
      <4>1. n - 1 \in Nat /\ n - 1 <= n /\ Upto(G(n), n) /\ Upto(G(n - 1), n - 1)
        BY <1>3, <3>1
      <4> HIDE DEF Upto
      <4>2. QED
        BY <1>2, <4>1
    <3>2. QED
      BY <3>1
  <2>4. QED
    BY <2>2, <2>3
<1>5. f = [n \in Nat |-> f[n]]
  OBVIOUS
<1> HIDE DEF f
<1>6. f = [n \in Nat |-> IF n = 0 THEN x ELSE ParseRound(f[n - 1])]
  BY <1>4, <1>5
<1>7. QED
  BY <1>6 DEF IsRounds

\* Rounds, one after the other, from x; Parse gives the last of its rounds.
Rounds(f, x) == f[0] = x /\ \A n \in Nat : f[n + 1] = ParseRound(f[n])

\* Parse is what its rounds come to after one for each symbol and one more.
LEMMA ParseIsRounds ==
  \A m, s : \E f : Rounds(f, [msg |-> m, rest |-> s]) /\ Parse(m, s) = f[Len(s) + 1]
<1>1. SUFFICES ASSUME NEW m, NEW s
               PROVE  \E f : Rounds(f, [msg |-> m, rest |-> s]) /\ Parse(m, s) = f[Len(s) + 1]
  OBVIOUS
<1> DEFINE x == [msg |-> m, rest |-> s]
           f == CHOOSE f : IsRounds(f, x)
<1> HIDE DEF x
<1>2. IsRounds(f, x)
  BY RoundsExist, Zenon
<1>3. Parse(m, s) = f[Len(s) + 1]
  BY DEF Parse, IsRounds, x
<1> HIDE DEF f
<1>4. f[0] = x
  BY <1>2 DEF IsRounds
<1>5. \A n \in Nat : f[n + 1] = ParseRound(f[n])
  <2>1. \A n \in Nat : f[n] = IF n = 0 THEN x ELSE ParseRound(f[n - 1])
    BY <1>2 DEF IsRounds
  <2>2. SUFFICES ASSUME NEW n \in Nat PROVE f[n + 1] = ParseRound(f[n])
    OBVIOUS
  <2>3. n + 1 \in Nat /\ n + 1 # 0 /\ (n + 1) - 1 = n
    OBVIOUS
  <2>4. QED
    BY <2>1, <2>3
<1>6. QED
  BY <1>3, <1>4, <1>5 DEF x, Rounds

-----------------------------------------------------------------------------
(* What a scan finds, in a chunk and in a longer one.                      *)

\* A scan stops at the first hit, or at the end without one.
LEMMA UpToIs ==
  ASSUME NEW s \in Seq(Symbol), NEW hits \in SUBSET (1..Len(s))
  PROVE  /\ UpTo(hits, s).hit \in BOOLEAN /\ UpTo(hits, s).len \in 0..Len(s)
         /\ s # <<>> => UpTo(hits, s).len > 0
         /\ UpTo(hits, s).hit <=> hits # {}
         /\ hits = {} => UpTo(hits, s).len = Len(s)
         /\ hits # {} => UpTo(hits, s).len \in hits /\ \A y \in hits : UpTo(hits, s).len <= y
         /\ UpTo(hits, s) = [hit |-> UpTo(hits, s).hit, len |-> UpTo(hits, s).len]
<1>1. Len(s) \in Nat /\ hits \in SUBSET Nat /\ (s # <<>> => Len(s) > 0)
  BY LenProperties, EmptySeq
<1>2. CASE hits = {}
  BY <1>1, <1>2 DEF UpTo
<1>3. CASE hits # {}
  <2> DEFINE l == Least(hits)
  <2>1. l \in hits /\ \A y \in hits : l <= y
    BY <1>1, <1>3, LeastIs
  <2>2. UpTo(hits, s) = [hit |-> TRUE, len |-> l]
    BY <1>3 DEF UpTo
  <2> HIDE DEF l
  <2>3. l \in 1..Len(s)
    BY <2>1
  <2>4. QED
    BY <1>1, <1>3, <2>1, <2>2, <2>3
<1>4. QED
  BY <1>2, <1>3

\* The hits among the first n symbols, and those after the first k of them.
HitsWithin(hits, all, n) == \A i \in 1..n : i \in hits <=> i \in all
HitsBehind(hits, all, n, k) == \A i \in 1..n : i \in hits <=> k + i \in all

\* A scan of a longer text that begins with a: the same where a has a hit, and
\* otherwise the scan of what follows a.
LEMMA UpToLonger ==
  ASSUME NEW a \in Seq(Symbol), NEW b \in Seq(Symbol), NEW hits \in SUBSET (1..Len(a)),
         NEW all \in SUBSET (1..Len(a \o b)), NEW more \in SUBSET (1..Len(b)),
         HitsWithin(hits, all, Len(a)), HitsBehind(more, all, Len(b), Len(a))
  PROVE  /\ UpTo(hits, a).hit => UpTo(all, a \o b) = UpTo(hits, a)
         /\ ~ UpTo(hits, a).hit =>
              /\ UpTo(all, a \o b).hit <=> UpTo(more, b).hit
              /\ UpTo(all, a \o b).len = Len(a) + UpTo(more, b).len
<1>1. /\ Len(a) \in Nat /\ Len(b) \in Nat /\ Len(a \o b) = Len(a) + Len(b)
      /\ a \o b \in Seq(Symbol)
  BY LenProperties, ConcatProperties
<1> USE DEF HitsWithin, HitsBehind
<1> DEFINE pa == UpTo(hits, a)
           pab == UpTo(all, a \o b)
           pb == UpTo(more, b)
<1>2. /\ pa.hit \in BOOLEAN /\ pa.len \in 0..Len(a)
      /\ pa.hit <=> hits # {}
      /\ hits = {} => pa.len = Len(a)
      /\ hits # {} => pa.len \in hits /\ \A y \in hits : pa.len <= y
      /\ pa = [hit |-> pa.hit, len |-> pa.len]
  BY UpToIs
<1>3. /\ pab.hit \in BOOLEAN /\ pab.len \in 0..Len(a \o b)
      /\ pab.hit <=> all # {}
      /\ all = {} => pab.len = Len(a \o b)
      /\ all # {} => pab.len \in all /\ \A y \in all : pab.len <= y
      /\ pab = [hit |-> pab.hit, len |-> pab.len]
  BY <1>1, UpToIs
<1>4. /\ pb.hit \in BOOLEAN /\ pb.len \in 0..Len(b)
      /\ pb.hit <=> more # {}
      /\ more = {} => pb.len = Len(b)
      /\ more # {} => pb.len \in more /\ \A y \in more : pb.len <= y
      /\ pb = [hit |-> pb.hit, len |-> pb.len]
  BY UpToIs
<1> HIDE DEF pa, pab, pb
<1>5. ASSUME pa.hit PROVE pab = pa
  <2>1. hits # {} /\ pa.len \in hits /\ pa.len \in all /\ all # {} /\ pa.hit = TRUE
    BY <1>2, <1>5
  <2>2. /\ pab.len <= pa.len /\ pab.len \in all /\ pab.len \in 1..Len(a) + Len(b)
        /\ pa.len <= Len(a) /\ pa.len \in Nat
    BY <1>1, <1>2, <1>3, <2>1
  <2>3. pab.len \in 1..Len(a)
    BY <1>1, <2>1, <2>2
  <2>4. pab.len \in hits
    BY <2>2, <2>3
  <2>5. pab.len = pa.len
    BY <1>2, <2>1, <2>2, <2>4
  <2>6. pab.hit = TRUE
    BY <1>3, <2>1
  <2>7. QED
    BY <1>2, <1>3, <2>1, <2>5, <2>6
<1>6. ASSUME ~ pa.hit PROVE (pab.hit <=> pb.hit) /\ pab.len = Len(a) + pb.len
  <2>1. hits = {}
    BY <1>2, <1>6
  <2>2. \A i \in all : i - Len(a) \in 1..Len(b) /\ i = Len(a) + (i - Len(a))
    <3>1. \A i \in all : i \in 1..Len(a) + Len(b) /\ ~ (i \in 1..Len(a))
      BY <1>1, <2>1
    <3>2. QED
      BY <1>1, <3>1
  <2>3. \A i \in all : i - Len(a) \in more
    BY <2>1, <2>2
  <2>4. \A i \in more : Len(a) + i \in all
    BY <2>1
  <2>5. CASE all = {}
    <3>1. more = {}
      BY <2>4, <2>5
    <3>2. QED
      BY <1>1, <1>3, <1>4, <2>5, <3>1
  <2>6. CASE all # {}
    <3>1. more # {} /\ pab.len \in all /\ pb.len \in more
      BY <1>3, <1>4, <2>3, <2>6
    <3>2. pab.len <= Len(a) + pb.len
      BY <1>3, <2>4, <2>6, <3>1
    <3>3. pb.len <= pab.len - Len(a)
      BY <1>4, <2>3, <3>1
    <3>4. QED
      BY <1>1, <1>3, <1>4, <2>6, <3>1, <3>2, <3>3
  <2>7. QED
    BY <2>5, <2>6
<1>7. QED
  BY <1>5, <1>6 DEF pa, pab, pb

-----------------------------------------------------------------------------
(* Pieces of texts.                                                        *)

\* What is consumed of a text and what is left of it.
LEMMA Pieces ==
  ASSUME NEW s \in Seq(Symbol), NEW n \in 0..Len(s)
  PROVE  /\ SubSeq(s, 1, n) \in Seq(Symbol) /\ Len(SubSeq(s, 1, n)) = n
         /\ \A i \in 1..n : SubSeq(s, 1, n)[i] = s[i]
         /\ After(s, n) \in Seq(Symbol) /\ Len(After(s, n)) = Len(s) - n
         /\ \A i \in 1..Len(s) - n : After(s, n)[i] = s[n + i]
<1>1. Len(s) \in Nat /\ \A i \in 1..Len(s) : s[i] \in Symbol
  BY LenProperties, ElementOfSeq
<1>2. /\ SubSeq(s, 1, n) \in Seq(Symbol) /\ Len(SubSeq(s, 1, n)) = (IF 1 <= n THEN n - 1 + 1 ELSE 0)
      /\ \A i \in 1..n - 1 + 1 : SubSeq(s, 1, n)[i] = s[1 + i - 1]
  BY <1>1, SubSeqProperties, n \in Int, 1 \in Int, \A i \in 1..n : s[i] \in Symbol
<1>3. n + 1 \in Int /\ Len(s) \in Int /\ \A i \in n + 1..Len(s) : s[i] \in Symbol
  BY <1>1
<1>4. /\ SubSeq(s, n + 1, Len(s)) \in Seq(Symbol)
      /\ Len(SubSeq(s, n + 1, Len(s))) = IF n + 1 <= Len(s) THEN Len(s) - (n + 1) + 1 ELSE 0
      /\ \A i \in 1..Len(s) - (n + 1) + 1 : SubSeq(s, n + 1, Len(s))[i] = s[(n + 1) + i - 1]
  BY <1>3, SubSeqProperties
<1>5. n - 1 + 1 = n /\ Len(s) - (n + 1) + 1 = Len(s) - n
  BY <1>1
<1>6. \A i \in 1..n : SubSeq(s, 1, n)[i] = s[i]
  <2>1. \A i \in 1..n : 1 + i - 1 = i
    OBVIOUS
  <2>2. QED
    BY <1>2, <1>5, <2>1
<1>7. \A i \in 1..Len(s) - n : SubSeq(s, n + 1, Len(s))[i] = s[n + i]
  <2>1. \A i \in 1..Len(s) - n : (n + 1) + i - 1 = n + i
    BY <1>1
  <2>2. QED
    BY <1>4, <1>5, <2>1
<1>8. Len(SubSeq(s, 1, n)) = n /\ Len(SubSeq(s, n + 1, Len(s))) = Len(s) - n
  BY <1>1, <1>2, <1>4
<1>9. QED
  BY <1>2, <1>4, <1>6, <1>7, <1>8 DEF After

\* All of a text, and none of it.
LEMMA WholePiece ==
  ASSUME NEW s \in Seq(Symbol)
  PROVE  /\ SubSeq(s, 1, Len(s)) = s /\ After(s, Len(s)) = <<>>
         /\ SubSeq(s, 1, 0) = <<>> /\ After(s, 0) = s
<1>1. Len(s) \in Nat
  BY LenProperties
<1>2. SubSeq(s, 1, Len(s)) = s
  BY SubSeqFull
<1>3. SubSeq(s, Len(s) + 1, Len(s)) = <<>> /\ SubSeq(s, 1, 0) = <<>>
  BY <1>1, SubSeqEmpty
<1>4. 0 + 1 = 1
  OBVIOUS
<1>5. QED
  BY <1>2, <1>3, <1>4 DEF After

\* A piece that ends within the first of two texts.
LEMMA PieceOfFirst ==
  ASSUME NEW a \in Seq(Symbol), NEW b \in Seq(Symbol), NEW n \in 0..Len(a)
  PROVE  /\ SubSeq(a \o b, 1, n) = SubSeq(a, 1, n)
         /\ After(a \o b, n) = After(a, n) \o b
<1>1. /\ Len(a) \in Nat /\ Len(b) \in Nat /\ a \o b \in Seq(Symbol)
      /\ Len(a \o b) = Len(a) + Len(b) /\ n \in 0..Len(a \o b)
      /\ \A i \in 1..Len(a) + Len(b) : (a \o b)[i] = IF i <= Len(a) THEN a[i] ELSE b[i - Len(a)]
  BY LenProperties, ConcatProperties
<1> DEFINE ab == a \o b
<1> HIDE DEF ab
<1>2. /\ ab \in Seq(Symbol) /\ Len(ab) = Len(a) + Len(b)
      /\ \A i \in 1..Len(a) + Len(b) : ab[i] = IF i <= Len(a) THEN a[i] ELSE b[i - Len(a)]
      /\ Len(a) \in Nat /\ Len(b) \in Nat /\ n \in 0..Len(ab)
  BY <1>1 DEF ab
<1> DEFINE p == SubSeq(ab, 1, n)   q == SubSeq(a, 1, n)
           r == After(ab, n)       t == After(a, n)   u == t \o b
<1>3. /\ q \in Seq(Symbol) /\ Len(q) = n /\ \A i \in 1..n : q[i] = a[i]
      /\ t \in Seq(Symbol) /\ Len(t) = Len(a) - n /\ \A i \in 1..Len(a) - n : t[i] = a[n + i]
  BY Pieces
<1>4. /\ p \in Seq(Symbol) /\ Len(p) = n /\ \A i \in 1..n : p[i] = ab[i]
      /\ r \in Seq(Symbol) /\ Len(r) = Len(ab) - n
      /\ \A i \in 1..Len(ab) - n : r[i] = ab[n + i]
  BY <1>2, Pieces
<1>5. /\ u \in Seq(Symbol) /\ Len(u) = Len(t) + Len(b)
      /\ \A i \in 1..Len(t) + Len(b) : u[i] = IF i <= Len(t) THEN t[i] ELSE b[i - Len(t)]
  BY <1>3, ConcatProperties
<1> HIDE DEF p, q, r, t, u
<1>6. p = q
  <2>1. \A i \in 1..n : p[i] = q[i]
    BY <1>2, <1>3, <1>4
  <2>2. QED
    BY <1>3, <1>4, <2>1, SeqEqual
<1>7. r = u
  <2>1. Len(r) = Len(u)
    BY <1>2, <1>3, <1>4, <1>5
  <2>2. \A i \in 1..Len(a) + Len(b) - n : r[i] = IF n + i <= Len(a) THEN a[n + i] ELSE b[(n + i) - Len(a)]
    <3>1. SUFFICES ASSUME NEW i \in 1..Len(a) + Len(b) - n
                   PROVE  r[i] = IF n + i <= Len(a) THEN a[n + i] ELSE b[(n + i) - Len(a)]
      OBVIOUS
    <3>2. n + i \in 1..Len(a) + Len(b) /\ i \in 1..Len(ab) - n
      BY <1>2
    <3>3. r[i] = ab[n + i]
      BY <1>4, <3>2
    <3>4. QED
      BY <1>2, <3>2, <3>3
  <2>3. \A i \in 1..Len(a) + Len(b) - n : u[i] = IF n + i <= Len(a) THEN a[n + i] ELSE b[(n + i) - Len(a)]
    <3>1. SUFFICES ASSUME NEW i \in 1..Len(a) + Len(b) - n
                   PROVE  u[i] = IF n + i <= Len(a) THEN a[n + i] ELSE b[(n + i) - Len(a)]
      OBVIOUS
    <3>2. i - Len(t) = (n + i) - Len(a) /\ (i <= Len(t) <=> n + i <= Len(a)) /\ i \in 1..Len(t) + Len(b)
      BY <1>2, <1>3
    <3>3. QED
      BY <1>2, <1>3, <1>5, <3>2
  <2>4. \A i \in 1..Len(r) : r[i] = u[i]
    BY SMTT(30), <1>2, <1>4, <2>2, <2>3
  <2>5. QED
    BY <1>4, <1>5, <2>1, <2>4, SeqEqual
<1>8. QED
  BY <1>6, <1>7 DEF p, q, r, t, u, ab

\* A piece that ends within the second.
LEMMA PieceOfSecond ==
  ASSUME NEW a \in Seq(Symbol), NEW b \in Seq(Symbol), NEW n \in 0..Len(b)
  PROVE  /\ SubSeq(a \o b, 1, Len(a) + n) = a \o SubSeq(b, 1, n)
         /\ After(a \o b, Len(a) + n) = After(b, n)
<1>1. /\ Len(a) \in Nat /\ Len(b) \in Nat /\ a \o b \in Seq(Symbol)
      /\ Len(a \o b) = Len(a) + Len(b) /\ Len(a) + n \in 0..Len(a \o b)
      /\ \A i \in 1..Len(a) + Len(b) : (a \o b)[i] = IF i <= Len(a) THEN a[i] ELSE b[i - Len(a)]
  BY LenProperties, ConcatProperties
<1> DEFINE ab == a \o b
<1> HIDE DEF ab
<1>2. /\ ab \in Seq(Symbol) /\ Len(ab) = Len(a) + Len(b)
      /\ \A i \in 1..Len(a) + Len(b) : ab[i] = IF i <= Len(a) THEN a[i] ELSE b[i - Len(a)]
      /\ Len(a) \in Nat /\ Len(b) \in Nat /\ Len(a) + n \in 0..Len(ab)
  BY <1>1 DEF ab
<1> DEFINE p == SubSeq(ab, 1, Len(a) + n)   q == SubSeq(b, 1, n)
           r == After(ab, Len(a) + n)       t == After(b, n)   u == a \o q
<1>3. /\ q \in Seq(Symbol) /\ Len(q) = n /\ \A i \in 1..n : q[i] = b[i]
      /\ t \in Seq(Symbol) /\ Len(t) = Len(b) - n /\ \A i \in 1..Len(b) - n : t[i] = b[n + i]
  BY Pieces
<1>4. /\ p \in Seq(Symbol) /\ Len(p) = Len(a) + n /\ \A i \in 1..Len(a) + n : p[i] = ab[i]
      /\ r \in Seq(Symbol) /\ Len(r) = Len(ab) - (Len(a) + n)
      /\ \A i \in 1..Len(ab) - (Len(a) + n) : r[i] = ab[Len(a) + n + i]
  BY <1>2, Pieces
<1>5. /\ u \in Seq(Symbol) /\ Len(u) = Len(a) + Len(q)
      /\ \A i \in 1..Len(a) + Len(q) : u[i] = IF i <= Len(a) THEN a[i] ELSE q[i - Len(a)]
  BY <1>3, ConcatProperties
<1> HIDE DEF p, q, r, t, u
<1>6. p = u
  <2>1. \A i \in 1..Len(a) + n : p[i] = u[i]
    <3>1. SUFFICES ASSUME NEW i \in 1..Len(a) + n PROVE p[i] = u[i]
      OBVIOUS
    <3>2. CASE i <= Len(a)
      <4>1. i \in 1..Len(a) + Len(b) /\ i \in 1..Len(a) + Len(q)
        BY <1>2, <1>3
      <4>2. p[i] = a[i]
        BY <1>2, <1>4, <3>2, <4>1
      <4>3. u[i] = a[i]
        BY <1>5, <3>2, <4>1
      <4>4. QED
        BY <4>2, <4>3
    <3>3. CASE ~ (i <= Len(a))
      <4>1. i - Len(a) \in 1..n
        BY <1>2, <3>3
      <4>2. u[i] = b[i - Len(a)]
        BY <1>2, <1>3, <1>5, <3>3, <4>1
      <4>3. QED
        BY <1>2, <1>4, <3>3, <4>2
    <3>4. QED
      BY <3>2, <3>3
  <2>2. QED
    BY <1>3, <1>4, <1>5, <2>1, SeqEqual
<1>7. r = t
  <2>1. Len(r) = Len(t) /\ Len(t) \in Nat
    BY <1>2, <1>3, <1>4
  <2>2. \A i \in 1..Len(b) - n : r[i] = t[i]
    <3>1. SUFFICES ASSUME NEW i \in 1..Len(b) - n PROVE r[i] = t[i]
      OBVIOUS
    <3>2. Len(a) + n + i \in 1..Len(a) + Len(b) /\ ~ (Len(a) + n + i <= Len(a))
          /\ (Len(a) + n + i) - Len(a) = n + i /\ i \in 1..Len(ab) - (Len(a) + n)
      BY <1>2
    <3>3. QED
      BY ZenonT(30), <1>2, <1>3, <1>4, <3>2
  <2>3. QED
    BY <1>2, <1>3, <1>4, <2>1, <2>2, SeqEqual
<1>8. QED
  BY <1>6, <1>7 DEF p, q, r, t, u, ab

-----------------------------------------------------------------------------
(* The messages the parser works on.                                       *)

\* Messages in any state, with any positions.
Position == [beg : Int, end : Int]
Flags == {"METHOD", "URL", "VER", "STATUS_CODE", "STATUS_PHRASE", "HEAD", "BODY", "OVER"}
Messages ==
  [kind : {"svr", "cli"}, buffer : Seq(Symbol), flag : Flags, assist : BOOLEAN,
   line : [1..3 -> Position], header : Position, header2 : Position,
   vec : Seq(Position), body : Position, bodysize : Int]

\* The positions kept lie in the buffer, and the body has what it lacks to come.
Kept(m) ==
  /\ m \in Messages
  /\ m.flag \in {Parts(m.kind)[i] : i \in 1..3} \cup {"HEAD", "BODY", "OVER"}
  /\ m.header2.beg \in 0..Len(m.buffer)
  /\ \A i \in 1..Len(m.vec) : m.vec[i].beg \in 0..Len(m.buffer) - 1
  /\ m.flag \notin {"BODY", "OVER"} => m.bodysize = -1
  /\ m.flag = "BODY" /\ m.bodysize # -1 =>
       m.bodysize \in Nat /\ Len(m.buffer) - m.body.beg \in 0..m.bodysize

\* The flags of the first line, the last of them before the headers.
LEMMA PartFlags ==
  ASSUME NEW k \in {"svr", "cli"}
  PROVE  /\ \A i \in 1..3 : Parts(k)[i] \in Flags \ {"HEAD", "BODY", "OVER"}
         /\ \A i, j \in 1..3 : Parts(k)[i] = Parts(k)[j] => i = j
<1>1. CASE k = "svr"
  <2>1. Parts(k)[1] = "METHOD" /\ Parts(k)[2] = "URL" /\ Parts(k)[3] = "VER"
    BY <1>1 DEF Parts, SvrParts
  <2>2. QED
    BY <2>1 DEF Flags
<1>2. CASE k = "cli"
  <2>1. Parts(k)[1] = "VER" /\ Parts(k)[2] = "STATUS_CODE" /\ Parts(k)[3] = "STATUS_PHRASE"
    BY <1>2 DEF Parts, CliParts
  <2>2. QED
    BY <2>1 DEF Flags
<1>3. QED
  BY <1>1, <1>2

\* The symbols are symbols.
LEMMA SymbolsAre ==
  /\ SP \in Symbol /\ CR \in Symbol /\ LF \in Symbol /\ Pointer \in Symbol
  /\ SP # CR /\ SP # LF /\ CR # LF
  /\ \A n \in Nat : LengthLine(n) \in Symbol
<1>1. SP # CR /\ SP # LF /\ CR # LF
  <2>1. SP.text = "SP" /\ CR.text = "CR" /\ LF.text = "LF"
    BY DEF SP, CR, LF, Word
  <2>2. QED
    BY <2>1 DEF SP, CR, LF, Word
<1>2. SP \in Symbol /\ CR \in Symbol /\ LF \in Symbol /\ Pointer \in Symbol
  BY TextsAssumption DEF Symbol, SP, CR, LF, Word, Pointer
<1>3. \A n \in Nat : LengthLine(n) \in Symbol
  BY TextsAssumption DEF Symbol, LengthLine
<1>4. QED
  BY <1>1, <1>2, <1>3

\* What Write leaves.
LEMMA Written ==
  ASSUME NEW m \in Messages, NEW s \in Seq(Symbol), NEW n \in 0..Len(s)
  PROVE  /\ Write(m, s, n) \in Messages
         /\ Write(m, s, n).buffer = m.buffer \o SubSeq(s, 1, n)
         /\ Len(Write(m, s, n).buffer) = Len(m.buffer) + n
         /\ Len(m.buffer) \in Nat
         /\ Write(m, s, n).flag = m.flag /\ Write(m, s, n).kind = m.kind
         /\ Write(m, s, n).assist = m.assist /\ Write(m, s, n).line = m.line
         /\ Write(m, s, n).header = m.header /\ Write(m, s, n).header2 = m.header2
         /\ Write(m, s, n).vec = m.vec /\ Write(m, s, n).body = m.body
         /\ Write(m, s, n).bodysize = m.bodysize
<1>1. SubSeq(s, 1, n) \in Seq(Symbol) /\ Len(SubSeq(s, 1, n)) = n
  BY Pieces
<1>2. m.buffer \in Seq(Symbol)
  BY DEF Messages
<1> DEFINE c == m.buffer \o SubSeq(s, 1, n)
<1>3. c \in Seq(Symbol) /\ Len(c) = Len(m.buffer) + n /\ Len(m.buffer) \in Nat
  BY ZenonT(30), <1>1, <1>2, ConcatProperties, LenProperties
<1>4. Write(m, s, n) = [m EXCEPT !.buffer = c]
  BY DEF Write
<1> HIDE DEF c
<1>5. [m EXCEPT !.buffer = c] \in Messages
  BY <1>3 DEF Messages
<1>6. QED
  BY <1>3, <1>4, <1>5 DEF Messages, c

\* The end of a part, of the first line, of a header and of the body leave messages.
LEMMA EndsAreMessages ==
  ASSUME NEW w \in Messages
  PROVE  /\ \A i \in 1..2 : EndPart(i, w) \in Messages
         /\ EndFirstLine(w) \in Messages
         /\ EndHeader(w) \in Messages
         /\ EndBody(w) \in Messages
         /\ Assist(w) \in Messages
<1>1. PICK pos \in Nat : Len(w.buffer) = pos
  BY LenProperties DEF Messages
<1>2. /\ w.line \in [1..3 -> Position] /\ w.vec \in Seq(Position)
      /\ w.kind \in {"svr", "cli"} /\ w.header \in Position /\ w.header2 \in Position
      /\ w.body \in Position
  BY DEF Messages
<1>3. \A b, e \in Int : Pos(b, e) \in Position
  BY DEF Pos, Position
<1>4. \A p \in Position : p.beg \in Int /\ p.end \in Int
  BY DEF Position
<1>5. ASSUME NEW i \in 1..2 PROVE EndPart(i, w) \in Messages
  <2>1. PICK fl \in Flags : fl = Parts(w.kind)[i + 1]
    BY <1>2, PartFlags
  <2>2. PICK p \in Position : p = Pos(w.line[i].beg, pos - 1)
    BY <1>2, <1>3, <1>4
  <2>3. PICK q \in Position : q = Pos(pos, w.line[i + 1].end)
    BY <1>2, <1>3, <1>4
  <2>4. PICK l \in [1..3 -> Position] : l = [w.line EXCEPT ![i] = p, ![i + 1] = q]
    BY <1>2
  <2>5. EndPart(i, w) = [w EXCEPT !.line = l, !.flag = fl]
    BY <1>1, <1>2, <2>1, <2>2, <2>3, <2>4 DEF EndPart, Messages
  <2>6. QED
    BY <2>5 DEF Messages
<1>6. EndFirstLine(w) \in Messages
  <2>1. PICK p \in Position : p = Pos(w.line[3].beg, pos - 2)
    BY <1>2, <1>3, <1>4
  <2>2. PICK h \in Position : h = Pos(pos, w.header.end)
    BY <1>2, <1>3, <1>4
  <2>3. PICK h2 \in Position : h2 = Pos(pos, w.header2.end)
    BY <1>2, <1>3, <1>4
  <2>4. PICK l \in [1..3 -> Position] : l = [w.line EXCEPT ![3] = p]
    BY <1>2
  <2>5. EndFirstLine(w) = [w EXCEPT !.line = l, !.flag = "HEAD", !.assist = FALSE,
                                    !.header = h, !.header2 = h2]
    BY <1>1, <2>1, <2>2, <2>3, <2>4 DEF EndFirstLine, Messages
  <2>6. QED
    BY <2>5 DEF Messages, Flags
<1>7. EndHeader(w) \in Messages
  <2>1. PICK l \in Position : l = Pos(w.header2.beg, pos)
    BY <1>2, <1>3, <1>4
  <2>2. PICK v \in Seq(Position) : v = Append(w.vec, l)
    BY <1>2, AppendProperties
  <2>3. PICK h \in Position : h = Pos(w.header.beg, pos)
    BY <1>2, <1>3, <1>4
  <2>4. PICK h2 \in Position : h2 = IF l.beg + 2 = l.end THEN l ELSE Pos(pos, 0)
    BY <1>3
  <2>5. PICK fl \in Flags : fl = IF l.beg + 2 = l.end THEN "BODY" ELSE "HEAD"
    BY DEF Flags
  <2>6. EndHeader(w) = [w EXCEPT !.assist = FALSE, !.header = h, !.vec = v, !.header2 = h2, !.flag = fl]
    BY <1>1, <2>1, <2>2, <2>3, <2>4, <2>5 DEF EndHeader, Messages
  <2>7. QED
    BY <2>6 DEF Messages
<1>8. EndBody(w) \in Messages
  <2>1. PICK b \in Position : b = IF w.bodysize = 0 THEN w.body ELSE Pos(w.body.beg, pos)
    BY <1>2, <1>3, <1>4
  <2>2. EndBody(w) = [w EXCEPT !.flag = "OVER", !.body = b]
    BY <1>1, <2>1 DEF EndBody, Messages
  <2>3. QED
    BY <2>2 DEF Messages, Flags
<1>9. Assist(w) \in Messages
  <2>1. PICK x \in BOOLEAN : x = (w.buffer[Len(w.buffer)] = CR)
    OBVIOUS
  <2>2. Assist(w) = [w EXCEPT !.assist = x]
    BY <2>1 DEF Assist
  <2>3. QED
    BY <2>2 DEF Messages
<1>10. QED
  BY <1>5, <1>6, <1>7, <1>8, <1>9

\* What the end of a part of the first line changes.
LEMMA EndPartIs ==
  ASSUME NEW w \in Messages, NEW i \in 1..2
  PROVE  LET e == EndPart(i, w)
         IN  /\ e.kind = w.kind /\ e.buffer = w.buffer /\ e.assist = w.assist
             /\ e.header = w.header /\ e.header2 = w.header2 /\ e.vec = w.vec
             /\ e.body = w.body /\ e.bodysize = w.bodysize
             /\ e.flag = Parts(w.kind)[i + 1]
             /\ e.line[i] = Pos(w.line[i].beg, Len(w.buffer) - 1)
             /\ e.line[i + 1] = Pos(Len(w.buffer), w.line[i + 1].end)
             /\ \A j \in 1..3 : j # i /\ j # i + 1 => e.line[j] = w.line[j]
BY DEF EndPart, Messages

\* What the end of the first line changes.
LEMMA EndFirstLineIs ==
  ASSUME NEW w \in Messages
  PROVE  LET e == EndFirstLine(w)
         IN  /\ e.kind = w.kind /\ e.buffer = w.buffer /\ e.assist = FALSE
             /\ e.header2 = Pos(Len(w.buffer), w.header2.end) /\ e.vec = w.vec
             /\ e.body = w.body /\ e.bodysize = w.bodysize
             /\ e.flag = "HEAD"
             /\ e.line[3] = Pos(w.line[3].beg, Len(w.buffer) - 2)
             /\ \A j \in 1..2 : e.line[j] = w.line[j]
BY DEF EndFirstLine, Messages

\* What the end of a header line changes.
LEMMA EndHeaderIs ==
  ASSUME NEW w \in Messages
  PROVE  LET e == EndHeader(w)
             last == w.header2.beg + 2 = Len(w.buffer)
         IN  /\ e.kind = w.kind /\ e.buffer = w.buffer /\ e.assist = FALSE
             /\ e.vec = Append(w.vec, Pos(w.header2.beg, Len(w.buffer)))
             /\ e.line = w.line /\ e.body = w.body /\ e.bodysize = w.bodysize
             /\ last => e.flag = "BODY" /\ e.header2 = Pos(w.header2.beg, Len(w.buffer))
             /\ ~ last => e.flag = "HEAD" /\ e.header2 = Pos(Len(w.buffer), 0)
<1> DEFINE l == Pos(w.header2.beg, Len(w.buffer))
<1>1. l.beg = w.header2.beg /\ l.end = Len(w.buffer)
  BY DEF Pos
<1>2. EndHeader(w) =
        [w EXCEPT !.assist = FALSE, !.header = Pos(@.beg, Len(w.buffer)), !.vec = Append(@, l),
                  !.header2 = IF l.beg + 2 = l.end THEN l ELSE Pos(Len(w.buffer), 0),
                  !.flag = IF l.beg + 2 = l.end THEN "BODY" ELSE "HEAD"]
  BY DEF EndHeader
<1> HIDE DEF l
<1>3. LET e == EndHeader(w)
      IN  /\ e.kind = w.kind /\ e.buffer = w.buffer /\ e.assist = FALSE
          /\ e.vec = Append(w.vec, l) /\ e.line = w.line /\ e.body = w.body
          /\ e.bodysize = w.bodysize
          /\ e.header2 = IF l.beg + 2 = l.end THEN l ELSE Pos(Len(w.buffer), 0)
          /\ e.flag = IF l.beg + 2 = l.end THEN "BODY" ELSE "HEAD"
  BY <1>2 DEF Messages
<1>4. QED
  BY <1>1, <1>3 DEF l

\* What the end of the body changes.
LEMMA EndBodyIs ==
  ASSUME NEW w \in Messages
  PROVE  LET e == EndBody(w)
         IN  /\ e.kind = w.kind /\ e.buffer = w.buffer /\ e.assist = w.assist
             /\ e.header2 = w.header2 /\ e.vec = w.vec /\ e.line = w.line
             /\ e.bodysize = w.bodysize /\ e.flag = "OVER"
             /\ e.body = IF w.bodysize = 0 THEN w.body ELSE Pos(w.body.beg, Len(w.buffer))
BY DEF EndBody, Messages

\* What an unfinished line changes.
LEMMA AssistIs ==
  ASSUME NEW w \in Messages
  PROVE  LET e == Assist(w)
         IN  /\ e.kind = w.kind /\ e.buffer = w.buffer /\ e.flag = w.flag
             /\ e.header = w.header /\ e.header2 = w.header2 /\ e.vec = w.vec
             /\ e.line = w.line /\ e.body = w.body /\ e.bodysize = w.bodysize
             /\ e.assist <=> w.buffer[Len(w.buffer)] = CR
<1>1. PICK x \in BOOLEAN : x = (w.buffer[Len(w.buffer)] = CR)
  OBVIOUS
<1>2. Assist(w) = [w EXCEPT !.assist = x]
  BY <1>1 DEF Assist
<1>3. QED
  BY <1>1, <1>2 DEF Messages

\* The announced length is a natural number.
LEMMA LengthIsNat ==
  ASSUME NEW m, Kept(m)
  PROVE  CheckContentLen(m) \in Nat
<1>1. m.buffer \in Seq(Symbol) /\ m.vec \in Seq(Position) /\ Len(m.buffer) \in Nat /\ Len(m.vec) \in Nat
  BY LenProperties DEF Kept, Messages
<1>2. \A i \in 1..Len(m.vec) : m.vec[i].beg + 1 \in 1..Len(m.buffer)
  BY <1>1 DEF Kept
<1>3. \A i \in 1..Len(m.vec) : m.buffer[m.vec[i].beg + 1] \in Symbol
  BY <1>1, <1>2, ElementOfSeq
<1> DEFINE lines == {i \in 1..Len(m.vec) : m.buffer[m.vec[i].beg + 1].text = "Content-Length"}
<1>4. CASE lines = {}
  BY <1>4 DEF CheckContentLen
<1>5. CASE lines # {}
  <2>1. lines \in SUBSET Nat
    OBVIOUS
  <2>2. CheckContentLen(m) = m.buffer[m.vec[Least(lines)].beg + 1].length
    BY <1>5 DEF CheckContentLen
  <2>3. Least(lines) \in lines
    <3> HIDE DEF lines
    <3>1. QED
      BY <1>5, <2>1, LeastIs
  <2>4. Least(lines) \in 1..Len(m.vec)
    BY <2>3
  <2> HIDE DEF lines
  <2>5. QED
    BY <1>3, <2>2, <2>4 DEF Symbol
<1>6. QED
  BY <1>4, <1>5

\* What fixing the size of the body leaves.
LEMMA Sized ==
  ASSUME NEW m, Kept(m), m.flag = "BODY"
  PROVE  LET b == SizeBody(m)
         IN  /\ b \in Messages /\ b.flag = "BODY" /\ b.kind = m.kind /\ b.buffer = m.buffer
             /\ b.line = m.line /\ b.vec = m.vec /\ b.header2 = m.header2 /\ b.assist = m.assist
             /\ b.bodysize \in Nat
             /\ b.bodysize # 0 => Len(m.buffer) - b.body.beg \in 0..b.bodysize
             /\ b.bodysize = 0 /\ m.bodysize = -1 => b.body = m.body
             /\ SizeBody(b) = b
<1>1. m \in Messages /\ m.bodysize \in Int /\ m.body \in Position
  BY DEF Kept, Messages
<1>2. CASE m.bodysize # -1
  BY <1>1, <1>2 DEF Kept, SizeBody
<1>3. CASE m.bodysize = -1
  <2>1. PICK size \in Nat : size = CheckContentLen(m)
    BY LengthIsNat
  <2>2. PICK pos \in Nat : pos = Len(m.buffer)
    BY <1>1, LenProperties DEF Messages
  <2>3. PICK y \in Position : y = IF size = 0 THEN m.body ELSE Pos(pos, m.body.end)
    <3>1. m.body.end \in Int /\ pos \in Int
      BY <1>1 DEF Position
    <3>2. Pos(pos, m.body.end) \in Position
      BY <3>1 DEF Pos, Position
    <3>3. QED
      BY <1>1, <3>2
  <2>4. SizeBody(m) = [m EXCEPT !.bodysize = size, !.body = y]
    BY <1>1, <1>3, <2>1, <2>2, <2>3 DEF SizeBody, Messages
  <2>5. size # 0 => y.beg = pos
    BY <2>3 DEF Pos
  <2>6. [m EXCEPT !.bodysize = size, !.body = y] \in Messages
    <3>1. size \in Int /\ y \in Position /\ m \in Messages
      BY <1>1
    <3>2. QED
      BY ONLY <3>1 DEF Messages
  <2>7. LET b == SizeBody(m)
        IN  /\ b \in Messages /\ b.flag = "BODY" /\ b.kind = m.kind /\ b.buffer = m.buffer
            /\ b.line = m.line /\ b.vec = m.vec /\ b.header2 = m.header2 /\ b.assist = m.assist
            /\ b.bodysize = size /\ b.body = y
    BY <1>1, <2>4, <2>6 DEF Messages
  <2>8. SizeBody(SizeBody(m)) = SizeBody(m)
    BY <2>7 DEF SizeBody
  <2>9. QED
    BY <2>2, <2>3, <2>5, <2>7, <2>8
<1>4. QED
  BY <1>2, <1>3

\* Writing keeps the positions in the buffer, before the body.
LEMMA WrittenKept ==
  ASSUME NEW m, Kept(m), m.flag \notin {"BODY", "OVER"}, NEW s \in Seq(Symbol), NEW n \in 0..Len(s)
  PROVE  Kept(Write(m, s, n))
<1>1. m \in Messages /\ Len(m.buffer) \in Nat
  BY LenProperties DEF Kept, Messages
<1> DEFINE w == Write(m, s, n)
<1>2. /\ w \in Messages /\ Len(w.buffer) = Len(m.buffer) + n /\ n \in Nat
      /\ w.flag = m.flag /\ w.header2 = m.header2 /\ w.vec = m.vec /\ w.bodysize = m.bodysize
  <2>1. n \in Nat
    BY LenProperties
  <2>2. QED
    BY <1>1, <2>1, Written
<1>3. w.kind = m.kind
  BY <1>1, Written
<1> HIDE DEF w
<1>4. w.header2.beg \in 0..Len(w.buffer)
  BY <1>1, <1>2 DEF Kept
<1>5. \A i \in 1..Len(w.vec) : w.vec[i].beg \in 0..Len(w.buffer) - 1
  BY <1>1, <1>2 DEF Kept
<1>6. w.bodysize = -1
  BY <1>2 DEF Kept
<1>7. Kept(w)
  BY <1>3, <1>2, <1>4, <1>5, <1>6 DEF Kept
<1>8. QED
  BY <1>7 DEF w

\* A round keeps the message in order, and gets on: it consumes something
\* unless the message is over.
Progress(x, m, s) ==
  /\ Kept(x.msg) /\ x.msg.kind = m.kind
  /\ x.rest \in Seq(Symbol) /\ Len(x.rest) <= Len(s)
  /\ Len(x.rest) < Len(s) \/ x.msg.flag = "OVER"

\* Messages that agree on what Kept is about.
LEMMA KeptAgrees ==
  ASSUME NEW w, Kept(w), NEW e \in Messages, e.buffer = w.buffer, e.vec = w.vec,
         e.kind = w.kind,
         e.flag \in {Parts(w.kind)[i] : i \in 1..3} \cup {"HEAD", "BODY", "OVER"},
         e.header2.beg \in 0..Len(w.buffer), e.bodysize = -1
  PROVE  Kept(e)
BY DEF Kept

\* A scan consumes something of a text that is not empty.
LEMMA ScanConsumes ==
  ASSUME NEW s \in Seq(Symbol), s # <<>>, NEW hits \in SUBSET (1..Len(s))
  PROVE  /\ UpTo(hits, s).hit \in BOOLEAN /\ UpTo(hits, s).len \in 1..Len(s)
         /\ UpTo(hits, s).len \in 0..Len(s)
         /\ ~ UpTo(hits, s).hit => UpTo(hits, s).len = Len(s)
         /\ After(s, UpTo(hits, s).len) \in Seq(Symbol)
         /\ Len(After(s, UpTo(hits, s).len)) < Len(s)
<1>1. PICK l \in Nat : l = UpTo(hits, s).len
  BY UpToIs, LenProperties
<1>2. l \in 0..Len(s) /\ l > 0 /\ Len(s) \in Nat /\ UpTo(hits, s).hit \in BOOLEAN
      /\ (~ UpTo(hits, s).hit => l = Len(s))
  BY <1>1, UpToIs, LenProperties
<1>3. After(s, l) \in Seq(Symbol) /\ Len(After(s, l)) = Len(s) - l
  BY <1>2, Pieces
<1>4. QED
  BY <1>1, <1>2, <1>3

\* The first two parts.
LEMMA PartProgress ==
  ASSUME NEW m, Kept(m), NEW i \in 1..2, m.flag = Parts(m.kind)[i],
         NEW s \in Seq(Symbol), s # <<>>
  PROVE  Progress(ParsePart(i, m, s), m, s)
<1>1. m \in Messages /\ m.kind \in {"svr", "cli"}
  BY DEF Kept, Messages
<1>2. m.flag \notin {"BODY", "OVER"} /\ Parts(m.kind)[i + 1] \in Flags \ {"BODY", "OVER"}
  BY <1>1, PartFlags
<1> DEFINE hits == {j \in 1..Len(s) : s[j] = SP}
           p == UpTo(hits, s)
           w == Write(m, s, p.len)
           r == ParsePart(i, m, s)
<1>3. /\ p.hit \in BOOLEAN /\ p.len \in 0..Len(s)
      /\ After(s, p.len) \in Seq(Symbol) /\ Len(After(s, p.len)) < Len(s)
  <2> HIDE DEF hits
  <2>1. hits \in SUBSET (1..Len(s))
    BY DEF hits
  <2>2. QED
    BY <2>1, ScanConsumes
<1>4. r = [msg |-> IF p.hit THEN EndPart(i, w) ELSE w, rest |-> After(s, p.len)]
  BY DEF ParsePart, Parse1
<1> HIDE DEF p, hits
<1>5. Kept(w) /\ w \in Messages /\ w.flag = m.flag /\ w.kind = m.kind
  BY <1>1, <1>2, <1>3, Written, WrittenKept
<1>6. Kept(EndPart(i, w)) /\ EndPart(i, w).kind = m.kind
  <2> HIDE DEF w
  <2> DEFINE e == EndPart(i, w)
  <2>1. /\ e \in Messages /\ e.buffer = w.buffer /\ e.vec = w.vec /\ e.header2 = w.header2
        /\ e.bodysize = w.bodysize /\ e.flag = Parts(m.kind)[i + 1] /\ e.kind = w.kind
    <3>1. e \in Messages
      BY <1>5, EndsAreMessages
    <3>2. /\ e.buffer = w.buffer /\ e.vec = w.vec /\ e.header2 = w.header2
          /\ e.bodysize = w.bodysize /\ e.flag = Parts(w.kind)[i + 1] /\ e.kind = w.kind
      BY <1>5, EndPartIs
    <3>3. QED
      BY <1>5, <3>1, <3>2
  <2> HIDE DEF e
  <2>2. e.bodysize = -1 /\ e.header2.beg \in 0..Len(w.buffer)
    BY <1>2, <1>5, <2>1 DEF Kept
  <2>3. e.flag \in {Parts(w.kind)[j] : j \in 1..3} \cup {"HEAD", "BODY", "OVER"}
    BY <1>5, <2>1
  <2>4. Kept(e)
    BY <1>5, <2>1, <2>2, <2>3, KeptAgrees
  <2>5. QED
    BY <1>5, <2>1, <2>4 DEF e
<1> HIDE DEF w
<1>7. Len(s) \in Nat /\ Len(After(s, p.len)) \in Nat
  BY <1>3, LenProperties
<1>8. QED
  BY <1>3, <1>4, <1>5, <1>6, <1>7 DEF Progress

\* The scan for the end of a line.
LEMMA LineScan ==
  ASSUME NEW m, NEW s \in Seq(Symbol), s # <<>>
  PROVE  /\ ParseCRLF(m, s).hit \in BOOLEAN /\ ParseCRLF(m, s).len \in 1..Len(s)
         /\ ParseCRLF(m, s).len \in 0..Len(s)
         /\ ~ ParseCRLF(m, s).hit => ParseCRLF(m, s).len = Len(s)
         /\ After(s, ParseCRLF(m, s).len) \in Seq(Symbol)
         /\ Len(After(s, ParseCRLF(m, s).len)) < Len(s)
         /\ Len(s) \in Nat /\ Len(After(s, ParseCRLF(m, s).len)) \in Nat
<1> DEFINE hits == {i \in 1..Len(s) : s[i] = LF /\ (IF i = 1 THEN m.assist ELSE s[i - 1] = CR)}
<1>1. ParseCRLF(m, s) = UpTo(hits, s)
  BY DEF ParseCRLF
<1>2. hits \in SUBSET (1..Len(s))
  OBVIOUS
<1> HIDE DEF hits
<1>3. After(s, UpTo(hits, s).len) \in Seq(Symbol)
  BY <1>2, ScanConsumes
<1>4. Len(s) \in Nat /\ Len(After(s, UpTo(hits, s).len)) \in Nat
  BY <1>3, LenProperties
<1>5. QED
  BY <1>1, <1>2, <1>4, ScanConsumes

\* The last part of the first line.
LEMMA Part3Progress ==
  ASSUME NEW m, Kept(m), m.flag = Parts(m.kind)[3], NEW s \in Seq(Symbol), s # <<>>
  PROVE  Progress(ParsePart3(m, s), m, s)
<1>1. m \in Messages /\ m.kind \in {"svr", "cli"}
  BY DEF Kept, Messages
<1>2. m.flag \notin {"BODY", "OVER"}
  BY <1>1, PartFlags
<1> DEFINE p == ParseCRLF(m, s)
           w == Write(m, s, p.len)
           r == ParsePart3(m, s)
<1>3. /\ p.hit \in BOOLEAN /\ p.len \in 0..Len(s)
      /\ After(s, p.len) \in Seq(Symbol) /\ Len(After(s, p.len)) < Len(s)
      /\ Len(s) \in Nat /\ Len(After(s, p.len)) \in Nat
  BY LineScan
<1>4. r = [msg |-> IF p.hit THEN EndFirstLine(w) ELSE Assist(w), rest |-> After(s, p.len)]
  BY DEF ParsePart3
<1> HIDE DEF p
<1>5. Kept(w) /\ w \in Messages /\ w.flag = m.flag /\ w.kind = m.kind
  BY <1>1, <1>2, <1>3, Written, WrittenKept
<1> HIDE DEF w
<1>6. Kept(EndFirstLine(w)) /\ EndFirstLine(w).kind = m.kind
  <2> DEFINE e == EndFirstLine(w)
  <2>1. /\ e \in Messages /\ e.buffer = w.buffer /\ e.vec = w.vec
        /\ e.header2 = Pos(Len(w.buffer), w.header2.end)
        /\ e.bodysize = w.bodysize /\ e.flag = "HEAD" /\ e.kind = w.kind
    BY <1>5, EndFirstLineIs, EndsAreMessages
  <2> HIDE DEF e
  <2>2. e.bodysize = -1 /\ e.header2.beg \in 0..Len(w.buffer)
    <3>1. Len(w.buffer) \in Nat
      BY <1>5, LenProperties DEF Messages
    <3>2. e.header2.beg = Len(w.buffer)
      BY <2>1 DEF Pos
    <3>3. QED
      BY <1>2, <1>5, <2>1, <3>1, <3>2 DEF Kept
  <2>3. Kept(e)
    BY <1>5, <2>1, <2>2, KeptAgrees
  <2>4. QED
    BY <1>5, <2>1, <2>3 DEF e
<1>7. Kept(Assist(w)) /\ Assist(w).kind = m.kind
  <2> DEFINE e == Assist(w)
  <2>1. /\ e \in Messages /\ e.buffer = w.buffer /\ e.vec = w.vec /\ e.header2 = w.header2
        /\ e.bodysize = w.bodysize /\ e.flag = w.flag /\ e.kind = w.kind
    BY <1>5, AssistIs, EndsAreMessages
  <2> HIDE DEF e
  <2>2. e.bodysize = -1 /\ e.header2.beg \in 0..Len(w.buffer)
    BY <1>2, <1>5, <2>1 DEF Kept
  <2>3. Kept(e)
    BY <1>5, <2>1, <2>2, KeptAgrees DEF Kept
  <2>4. QED
    BY <1>5, <2>1, <2>3 DEF e
<1>8. QED
  BY <1>3, <1>4, <1>6, <1>7 DEF Progress

\* One header line.
LEMMA HeadProgress ==
  ASSUME NEW m, Kept(m), m.flag = "HEAD", NEW s \in Seq(Symbol), s # <<>>
  PROVE  Progress(ParseHead(m, s), m, s)
<1>1. m \in Messages /\ m.flag \notin {"BODY", "OVER"}
  BY DEF Kept
<1> DEFINE p == ParseCRLF(m, s)
           w == Write(m, s, p.len)
           r == ParseHead(m, s)
<1>2. /\ p.hit \in BOOLEAN /\ p.len \in 1..Len(s) /\ p.len \in 0..Len(s)
      /\ After(s, p.len) \in Seq(Symbol) /\ Len(After(s, p.len)) < Len(s)
      /\ Len(s) \in Nat /\ Len(After(s, p.len)) \in Nat
  BY LineScan
<1>3. r = [msg |-> IF p.hit THEN EndHeader(w) ELSE Assist(w), rest |-> After(s, p.len)]
  BY DEF ParseHead
<1> HIDE DEF p
<1>4. /\ Kept(w) /\ w \in Messages /\ w.flag = m.flag /\ w.kind = m.kind /\ w.header2 = m.header2
      /\ Len(w.buffer) = Len(m.buffer) + p.len /\ Len(m.buffer) \in Nat
  BY <1>1, <1>2, Written, WrittenKept
<1> HIDE DEF w
<1>5. Kept(EndHeader(w)) /\ EndHeader(w).kind = m.kind
  <2> DEFINE e == EndHeader(w)   l == Pos(w.header2.beg, Len(w.buffer))
             last == w.header2.beg + 2 = Len(w.buffer)
  <2>1. /\ e \in Messages /\ e.buffer = w.buffer /\ e.kind = w.kind
        /\ e.vec = Append(w.vec, l) /\ e.bodysize = w.bodysize
        /\ (last => e.flag = "BODY" /\ e.header2 = l)
        /\ (~ last => e.flag = "HEAD" /\ e.header2 = Pos(Len(w.buffer), 0))
    BY <1>4, EndHeaderIs, EndsAreMessages
  <2>2. e.bodysize = -1
    BY <1>1, <1>4, <2>1 DEF Kept
  <2>3. l \in Position /\ l.beg \in 0..Len(w.buffer) - 1 /\ Len(w.buffer) \in Nat
    <3>1. w.header2.beg \in 0..Len(m.buffer)
      BY <1>4 DEF Kept
    <3>2. w.header2.beg \in 0..Len(w.buffer) - 1 /\ Len(w.buffer) \in Nat
      BY <1>2, <1>4, <3>1
    <3>3. QED
      BY <3>2 DEF Pos, Position
  <2>4. e.header2.beg \in 0..Len(w.buffer)
    <3>1. Pos(Len(w.buffer), 0).beg = Len(w.buffer)
      BY DEF Pos
    <3>2. QED
      BY <2>1, <2>3, <3>1
  <2>5. \A i \in 1..Len(e.vec) : e.vec[i].beg \in 0..Len(w.buffer) - 1
    <3> DEFINE v == w.vec
    <3>1. v \in Seq(Position) /\ Len(v) \in Nat
      BY <1>4, LenProperties DEF Messages
    <3> HIDE DEF v, l
    <3>2. /\ Len(Append(v, l)) = Len(v) + 1 /\ Append(v, l)[Len(v) + 1] = l
          /\ \A i \in 1..Len(v) : Append(v, l)[i] = v[i]
      BY <2>3, <3>1, AppendProperties
    <3>3. \A i \in 1..Len(v) : v[i].beg \in 0..Len(w.buffer) - 1
      BY <1>4 DEF Kept, v
    <3>4. \A i \in 1..Len(v) + 1 : Append(v, l)[i].beg \in 0..Len(w.buffer) - 1
      BY <2>3, <3>1, <3>2, <3>3
    <3>5. QED
      BY <2>1, <3>2, <3>4 DEF v
  <2> HIDE DEF e, l, last
  <2>6. Kept(e)
    BY <2>1, <2>2, <2>4, <2>5 DEF Kept
  <2>7. QED
    BY <1>4, <2>1, <2>6 DEF e
<1>6. Kept(Assist(w)) /\ Assist(w).kind = m.kind
  <2> DEFINE e == Assist(w)
  <2>1. /\ e \in Messages /\ e.buffer = w.buffer /\ e.vec = w.vec /\ e.header2 = w.header2
        /\ e.bodysize = w.bodysize /\ e.flag = w.flag /\ e.kind = w.kind
    BY <1>4, AssistIs, EndsAreMessages
  <2> HIDE DEF e
  <2>2. e.bodysize = -1 /\ e.header2.beg \in 0..Len(w.buffer)
    BY <1>1, <1>4, <2>1 DEF Kept
  <2>3. Kept(e)
    BY <1>4, <2>1, <2>2, KeptAgrees DEF Kept
  <2>4. QED
    BY <1>4, <2>1, <2>3 DEF e
<1>7. QED
  BY <1>2, <1>3, <1>5, <1>6 DEF Progress

\* What a round takes of the body.
BodyScan(b, s) ==
  LET need == IF b.bodysize = 0 THEN 0 ELSE b.bodysize - (Len(b.buffer) - b.body.beg)
  IN  [hit |-> need <= Len(s), len |-> IF need <= Len(s) THEN need ELSE Len(s)]

\* The body.
LEMMA BodyProgress ==
  ASSUME NEW m, Kept(m), m.flag = "BODY", NEW s \in Seq(Symbol), s # <<>>
  PROVE  Progress(ParseBody(m, s), m, s)
<1> DEFINE b == SizeBody(m)
           p == BodyScan(b, s)
           w == Write(b, s, p.len)
           r == ParseBody(m, s)
<1>1. /\ b \in Messages /\ b.flag = "BODY" /\ b.kind = m.kind /\ b.buffer = m.buffer
      /\ b.vec = m.vec /\ b.header2 = m.header2 /\ b.bodysize \in Nat
      /\ b.bodysize # 0 => Len(m.buffer) - b.body.beg \in 0..b.bodysize
  BY Sized
<1>2. r = [msg |-> IF p.hit THEN EndBody(w) ELSE w, rest |-> After(s, p.len)]
  BY DEF ParseBody, BodyScan
<1> HIDE DEF b
<1>3. Len(b.buffer) \in Nat /\ Len(s) \in Nat /\ Len(s) > 0 /\ b.body.beg \in Int
  BY SMTT(30), <1>1, LenProperties, EmptySeq DEF Messages, Position
<1>4. /\ p.hit \in BOOLEAN /\ p.len \in 0..Len(s)
      /\ ~ p.hit => p.len = Len(s) /\ b.bodysize # 0
                    /\ b.bodysize - (Len(b.buffer) - b.body.beg) > Len(s)
  <2>1. PICK need \in Nat :
          need = IF b.bodysize = 0 THEN 0 ELSE b.bodysize - (Len(b.buffer) - b.body.beg)
    BY <1>1, <1>3
  <2>2. p = [hit |-> need <= Len(s), len |-> IF need <= Len(s) THEN need ELSE Len(s)]
    BY <2>1 DEF BodyScan
  <2>3. /\ p.hit \in BOOLEAN /\ (p.hit <=> need <= Len(s))
        /\ p.len = IF need <= Len(s) THEN need ELSE Len(s)
    <3> HIDE DEF p
    <3>1. PICK h \in BOOLEAN : h <=> need <= Len(s)
      OBVIOUS
    <3>2. p = [hit |-> h, len |-> IF need <= Len(s) THEN need ELSE Len(s)]
      BY <2>1, <2>2, <3>1
    <3>3. QED
      BY <3>1, <3>2
  <2> HIDE DEF p
  <2>4. QED
    BY <1>3, <2>1, <2>3
<1> HIDE DEF p
<1>5. /\ w \in Messages /\ w.flag = b.flag /\ w.kind = b.kind /\ w.header2 = b.header2
      /\ w.vec = b.vec /\ w.body = b.body /\ w.bodysize = b.bodysize
      /\ Len(w.buffer) = Len(b.buffer) + p.len
  BY <1>1, <1>4, Written
<1>6. After(s, p.len) \in Seq(Symbol) /\ Len(After(s, p.len)) = Len(s) - p.len
  BY <1>4, Pieces
<1> HIDE DEF w
<1>7. /\ w.header2.beg \in 0..Len(w.buffer)
      /\ \A i \in 1..Len(w.vec) : w.vec[i].beg \in 0..Len(w.buffer) - 1
  <2>1. /\ m.header2.beg \in 0..Len(m.buffer)
        /\ \A i \in 1..Len(m.vec) : m.vec[i].beg \in 0..Len(m.buffer) - 1
    BY DEF Kept
  <2>2. w.header2 = m.header2 /\ w.vec = m.vec
    BY <1>1, <1>5
  <2>3. PICK l, k \in Nat : l = Len(m.buffer) /\ k = Len(w.buffer) /\ l <= k
    BY <1>1, <1>3, <1>4, <1>5
  <2>4. 0..l \subseteq 0..k /\ 0..l - 1 \subseteq 0..k - 1
    BY <2>3
  <2>5. QED
    BY <2>1, <2>2, <2>3, <2>4, Zenon
<1>8. CASE p.hit
  <2> DEFINE e == EndBody(w)
  <2>1. /\ e \in Messages /\ e.buffer = w.buffer /\ e.vec = w.vec /\ e.header2 = w.header2
        /\ e.flag = "OVER" /\ e.kind = w.kind
    BY <1>5, EndBodyIs, EndsAreMessages
  <2>2. r.msg = e /\ r.rest = After(s, p.len)
    BY <1>2, <1>8
  <2> HIDE DEF e, r
  <2>3. Kept(e)
    BY <1>7, <2>1 DEF Kept
  <2>4. QED
    BY <1>1, <1>3, <1>4, <1>5, <1>6, <2>1, <2>2, <2>3 DEF Progress, r
<1>9. CASE ~ p.hit
  <2>1. r.msg = w /\ r.rest = After(s, p.len)
    BY <1>2, <1>9
  <2>2. Len(w.buffer) - w.body.beg \in 0..w.bodysize
    <3>1. /\ p.len = Len(s) /\ b.bodysize # 0
          /\ b.bodysize - (Len(b.buffer) - b.body.beg) > Len(s)
      BY <1>4, <1>9
    <3>2. Len(w.buffer) = Len(b.buffer) + Len(s) /\ w.body = b.body /\ w.bodysize = b.bodysize
      BY <1>5, <3>1
    <3>3. Len(b.buffer) - b.body.beg \in 0..b.bodysize /\ b.bodysize \in Nat
      BY <1>1, <3>1
    <3>4. QED
      BY ONLY <1>3, <3>1, <3>2, <3>3
  <2>3. Kept(w)
    BY <1>1, <1>5, <1>7, <2>2 DEF Kept
  <2> HIDE DEF r
  <2>4. QED
    BY <1>1, <1>3, <1>4, <1>5, <1>6, <1>9, <2>1, <2>3 DEF Progress, r
<1>10. QED
  BY <1>4, <1>8, <1>9

\* The part of the parser a round is, by the flag.
LEMMA RoundIs ==
  ASSUME NEW m, Kept(m), NEW s, s # <<>>
  PROVE  LET r == ParseRound([msg |-> m, rest |-> s])
         IN  /\ \A i \in 1..2 : m.flag = Parts(m.kind)[i] => r = ParsePart(i, m, s)
             /\ m.flag = Parts(m.kind)[3] => r = ParsePart3(m, s)
             /\ m.flag = "HEAD" => r = ParseHead(m, s)
             /\ m.flag = "BODY" => r = ParseBody(m, s)
<1>1. m.kind \in {"svr", "cli"}
  BY DEF Kept, Messages
<1>2. /\ \A i \in 1..3 : Parts(m.kind)[i] \notin {"HEAD", "BODY", "OVER"}
      /\ \A i, j \in 1..3 : Parts(m.kind)[i] = Parts(m.kind)[j] => i = j
  BY <1>1, PartFlags
<1> DEFINE x == [msg |-> m, rest |-> s]
<1>3. x.msg = m /\ x.rest = s
  OBVIOUS
<1> HIDE DEF x
<1>4. m.flag = Parts(m.kind)[1] => ParseRound(x) = ParsePart(1, m, s)
  BY <1>2, <1>3 DEF ParseRound
<1>5. m.flag = Parts(m.kind)[2] => ParseRound(x) = ParsePart(2, m, s)
  BY <1>2, <1>3 DEF ParseRound
<1>6. m.flag = Parts(m.kind)[3] => ParseRound(x) = ParsePart3(m, s)
  BY <1>2, <1>3 DEF ParseRound
<1>7. m.flag = "HEAD" => ParseRound(x) = ParseHead(m, s)
  BY <1>2, <1>3 DEF ParseRound
<1>8. m.flag = "BODY" => ParseRound(x) = ParseBody(m, s)
  BY <1>2, <1>3 DEF ParseRound
<1>9. \A i \in 1..2 : i = 1 \/ i = 2
  OBVIOUS
<1>10. QED
  BY <1>4, <1>5, <1>6, <1>7, <1>8, <1>9 DEF x

\* A message that is not over is at a part of the first line, a header or the body.
LEMMA WhereParsing ==
  ASSUME NEW m, Kept(m), m.flag # "OVER"
  PROVE  \/ \E i \in 1..2 : m.flag = Parts(m.kind)[i]
         \/ m.flag = Parts(m.kind)[3]
         \/ m.flag = "HEAD"
         \/ m.flag = "BODY"
<1>1. PICK i \in 1..3 : m.flag = Parts(m.kind)[i] \/ m.flag \in {"HEAD", "BODY"}
  BY DEF Kept
<1>2. i \in 1..2 \/ i = 3
  OBVIOUS
<1>3. QED
  BY <1>1, <1>2

\* A round on a message that is not over, with something to parse.
LEMMA RoundProgress ==
  ASSUME NEW m, Kept(m), m.flag # "OVER", NEW s \in Seq(Symbol), s # <<>>
  PROVE  Progress(ParseRound([msg |-> m, rest |-> s]), m, s)
BY RoundIs, WhereParsing, PartProgress, Part3Progress, HeadProgress, BodyProgress

\* Writing what lies in the first of two texts, and what reaches into the second.
LEMMA WriteLonger ==
  ASSUME NEW m \in Messages, NEW a \in Seq(Symbol), NEW b \in Seq(Symbol)
  PROVE  /\ \A n \in 0..Len(a) : Write(m, a \o b, n) = Write(m, a, n)
         /\ \A n \in 0..Len(b) :
              Write(m, a \o b, Len(a) + n) = Write(Write(m, a, Len(a)), b, n)
<1>1. ASSUME NEW n \in 0..Len(a) PROVE Write(m, a \o b, n) = Write(m, a, n)
  BY PieceOfFirst DEF Write
<1>2. ASSUME NEW n \in 0..Len(b)
      PROVE  Write(m, a \o b, Len(a) + n) = Write(Write(m, a, Len(a)), b, n)
  <2> DEFINE q == SubSeq(b, 1, n)
  <2>1. SubSeq(a \o b, 1, Len(a) + n) = a \o q
    BY PieceOfSecond
  <2>2. SubSeq(a, 1, Len(a)) = a
    BY WholePiece
  <2>3. q \in Seq(Symbol)
    BY Pieces
  <2>4. PICK mb \in Seq(Symbol) : mb = m.buffer
    BY DEF Messages
  <2> HIDE DEF q
  <2>5. m.buffer \o (a \o q) = (m.buffer \o a) \o q
    <3>1. (mb \o a) \o q = mb \o (a \o q)
      BY <2>3, ConcatAssociative
    <3>2. QED
      BY <2>4, <3>1
  <2>6. Write(m, a \o b, Len(a) + n) = [m EXCEPT !.buffer = m.buffer \o (a \o q)]
    BY <2>1 DEF Write
  <2>7. Write(Write(m, a, Len(a)), b, n) = [m EXCEPT !.buffer = (m.buffer \o a) \o q]
    <3>1. Write(m, a, Len(a)) = [m EXCEPT !.buffer = m.buffer \o a]
      BY <2>2 DEF Write
    <3> DEFINE c == m.buffer \o a
    <3>2. Write([m EXCEPT !.buffer = c], b, n) = [m EXCEPT !.buffer = c \o q]
      <4> HIDE DEF c
      <4>1. Write([m EXCEPT !.buffer = c], b, n)
              = [[m EXCEPT !.buffer = c] EXCEPT !.buffer = c \o q]
        BY DEF Write, q, Messages
      <4>2. QED
        BY <4>1 DEF Messages
    <3>3. QED
      BY <3>1, <3>2
  <2>8. QED
    BY <2>5, <2>6, <2>7
<1>3. QED
  BY <1>1, <1>2

\* What Assist leaves is forgotten at the end of the line.
LEMMA AssistForgotten ==
  ASSUME NEW v \in Messages, NEW b \in Seq(Symbol), NEW n \in 0..Len(b)
  PROVE  /\ EndFirstLine(Write(Assist(v), b, n)) = EndFirstLine(Write(v, b, n))
         /\ EndHeader(Write(Assist(v), b, n)) = EndHeader(Write(v, b, n))
         /\ Assist(Write(Assist(v), b, n)) = Assist(Write(v, b, n))
<1>1. PICK x \in BOOLEAN : x = (v.buffer[Len(v.buffer)] = CR)
  OBVIOUS
<1> DEFINE w == Write(v, b, n)
           c == v.buffer \o SubSeq(b, 1, n)
<1>2. Assist(v) = [v EXCEPT !.assist = x]
  BY <1>1 DEF Assist
<1>3. Write(Assist(v), b, n) = [w EXCEPT !.assist = x]
  <2>1. Write(Assist(v), b, n) = [[v EXCEPT !.assist = x] EXCEPT !.buffer = c]
    BY <1>2 DEF Write, Messages
  <2>2. w = [v EXCEPT !.buffer = c]
    BY DEF Write
  <2> HIDE DEF c, w
  <2>3. QED
    BY <2>1, <2>2 DEF Messages
<1>4. w \in Messages
  BY Written
<1> HIDE DEF w, c
<1> DEFINE y == [w EXCEPT !.assist = x]
<1>5. y \in Messages /\ y.buffer = w.buffer
  BY <1>4 DEF Messages
<1>6. EndFirstLine(y) = EndFirstLine(w)
  BY <1>4 DEF EndFirstLine, Messages
<1>7. EndHeader(y) = EndHeader(w)
  BY <1>4 DEF EndHeader, Messages
<1>8. Assist(y) = Assist(w)
  <2>1. PICK z \in BOOLEAN : z = (w.buffer[Len(w.buffer)] = CR)
    OBVIOUS
  <2>2. Assist(y) = [y EXCEPT !.assist = z] /\ Assist(w) = [w EXCEPT !.assist = z]
    BY <1>5, <2>1 DEF Assist
  <2>3. [y EXCEPT !.assist = z] = [w EXCEPT !.assist = z]
    BY <1>4 DEF Messages
  <2>4. QED
    BY <2>2, <2>3
<1>9. QED
  BY <1>3, <1>6, <1>7, <1>8 DEF w

\* The end of a line in a chunk, and in a longer one: where the chunk has no end
\* of a line the scan of the longer one goes on as Assist has left it.
LEMMA LineScanLonger ==
  ASSUME NEW m \in Messages, NEW a \in Seq(Symbol), a # <<>>, NEW b \in Seq(Symbol)
  PROVE  LET pa  == ParseCRLF(m, a)
             pab == ParseCRLF(m, a \o b)
             pb  == ParseCRLF(Assist(Write(m, a, Len(a))), b)
         IN  /\ pa.hit => pab = pa
             /\ ~ pa.hit => (pab.hit <=> pb.hit) /\ pab.len = Len(a) + pb.len /\ pb.len \in 0..Len(b)
<1> DEFINE k == Assist(Write(m, a, Len(a)))
           ab == a \o b
           hits == {i \in 1..Len(a) : a[i] = LF /\ (IF i = 1 THEN m.assist ELSE a[i - 1] = CR)}
           all == {i \in 1..Len(ab) : ab[i] = LF /\ (IF i = 1 THEN m.assist ELSE ab[i - 1] = CR)}
           more == {i \in 1..Len(b) : b[i] = LF /\ (IF i = 1 THEN k.assist ELSE b[i - 1] = CR)}
<1>1. /\ ab \in Seq(Symbol) /\ Len(ab) = Len(a) + Len(b)
      /\ \A i \in 1..Len(a) + Len(b) : ab[i] = IF i <= Len(a) THEN a[i] ELSE b[i - Len(a)]
      /\ Len(a) \in Nat /\ Len(b) \in Nat /\ Len(a) > 0
  BY ConcatProperties, LenProperties, EmptySeq
<1>2. k.assist <=> a[Len(a)] = CR
  <2> DEFINE v == Write(m, a, Len(a))
  <2>1. Len(a) \in 0..Len(a) /\ SubSeq(a, 1, Len(a)) = a
    BY <1>1, WholePiece
  <2>2. v \in Messages /\ v.buffer = m.buffer \o a /\ m.buffer \in Seq(Symbol)
    <3>1. v \in Messages /\ v.buffer = m.buffer \o SubSeq(a, 1, Len(a))
      BY <2>1, Written
    <3>2. m.buffer \in Seq(Symbol)
      BY DEF Messages
    <3>3. QED
      BY <2>1, <3>1, <3>2
  <2>3. /\ Len(m.buffer \o a) = Len(m.buffer) + Len(a) /\ Len(m.buffer) \in Nat
        /\ (m.buffer \o a)[Len(m.buffer) + Len(a)] = a[Len(a)]
    <3> DEFINE mb == m.buffer
               n == Len(mb) + Len(a)
    <3>1. mb \in Seq(Symbol) /\ Len(mb) \in Nat
      BY <2>2, LenProperties
    <3> HIDE DEF mb
    <3>2. /\ Len(mb \o a) = n
          /\ \A i \in 1..Len(mb) + Len(a) :
               (mb \o a)[i] = IF i <= Len(mb) THEN mb[i] ELSE a[i - Len(mb)]
      BY <3>1, ConcatProperties
    <3>3. n \in 1..Len(mb) + Len(a) /\ ~ (n <= Len(mb)) /\ n - Len(mb) = Len(a)
      BY <1>1, <3>1
    <3> HIDE DEF n
    <3>4. (mb \o a)[n] = a[n - Len(mb)]
      BY <3>2, <3>3
    <3>5. QED
      BY <3>1, <3>2, <3>3, <3>4 DEF mb, n
  <2> HIDE DEF v
  <2>4. Assist(v).assist <=> v.buffer[Len(v.buffer)] = CR
    BY <2>2, AssistIs
  <2>5. v.buffer[Len(v.buffer)] = a[Len(a)]
    BY <2>2, <2>3
  <2>6. QED
    BY <2>4, <2>5 DEF v
<1> HIDE DEF k, ab
<1>3. hits \in SUBSET (1..Len(a)) /\ all \in SUBSET (1..Len(ab)) /\ more \in SUBSET (1..Len(b))
  OBVIOUS
<1>4. \A i \in 1..Len(a) : i \in hits <=> i \in all
  <2>1. SUFFICES ASSUME NEW i \in 1..Len(a) PROVE i \in hits <=> i \in all
    OBVIOUS
  <2>2. i \in 1..Len(ab) /\ ab[i] = a[i] /\ (i # 1 => ab[i - 1] = a[i - 1])
    BY <1>1
  <2>3. QED
    BY <2>2
<1>5. \A i \in 1..Len(b) : i \in more <=> Len(a) + i \in all
  <2>1. SUFFICES ASSUME NEW i \in 1..Len(b) PROVE i \in more <=> Len(a) + i \in all
    OBVIOUS
  <2>2. Len(a) + i \in 1..Len(ab) /\ Len(a) + i # 1 /\ (Len(a) + i) - Len(a) = i
    BY <1>1
  <2>3. ab[Len(a) + i] = b[i]
    BY <1>1, <2>2
  <2>4. CASE i = 1
    <3>1. (Len(a) + i) - 1 = Len(a) /\ Len(a) \in 1..Len(a) + Len(b)
      BY <1>1, <2>4
    <3>2. ab[(Len(a) + i) - 1] = a[Len(a)]
      BY <1>1, <3>1
    <3>3. QED
      BY <1>2, <2>2, <2>3, <2>4, <3>2
  <2>5. CASE i # 1
    <3> DEFINE j == (Len(a) + i) - 1
    <3>1. j \in 1..Len(a) + Len(b) /\ ~ (j <= Len(a)) /\ j - Len(a) = i - 1
      BY <1>1, <2>5
    <3> HIDE DEF j
    <3>2. ab[j] = b[i - 1]
      BY <1>1, <3>1
    <3>3. QED
      BY <2>2, <2>3, <2>5, <3>2 DEF j
  <2>6. QED
    BY <2>4, <2>5
<1>6. ParseCRLF(m, a) = UpTo(hits, a) /\ ParseCRLF(m, ab) = UpTo(all, ab) /\ ParseCRLF(k, b) = UpTo(more, b)
  BY DEF ParseCRLF
<1> HIDE DEF hits, all, more
<1>7. UpTo(more, b).len \in 0..Len(b)
  BY <1>3, UpToIs
<1>8. /\ UpTo(hits, a).hit => UpTo(all, ab) = UpTo(hits, a)
      /\ ~ UpTo(hits, a).hit =>
           /\ UpTo(all, ab).hit <=> UpTo(more, b).hit
           /\ UpTo(all, ab).len = Len(a) + UpTo(more, b).len
  <2>1. all \in SUBSET (1..Len(a \o b))
    BY <1>3 DEF ab
  <2>2. HitsWithin(hits, all, Len(a)) /\ HitsBehind(more, all, Len(b), Len(a))
    BY <1>4, <1>5 DEF HitsWithin, HitsBehind
  <2>3. /\ UpTo(hits, a).hit => UpTo(all, a \o b) = UpTo(hits, a)
        /\ ~ UpTo(hits, a).hit =>
             /\ UpTo(all, a \o b).hit <=> UpTo(more, b).hit
             /\ UpTo(all, a \o b).len = Len(a) + UpTo(more, b).len
    <3>1. /\ a \in Seq(Symbol) /\ b \in Seq(Symbol)
          /\ hits \in SUBSET (1..Len(a)) /\ more \in SUBSET (1..Len(b))
      BY <1>3
    <3>2. QED
      BY ONLY <3>1, <2>1, <2>2, UpToLonger
  <2>4. QED
    BY <2>3 DEF ab
<1>9. QED
  BY <1>6, <1>7, <1>8 DEF k, ab

\* A round on more text than r had: it does the same and leaves more, or it goes
\* on with what r was short of.
GoesOn(x, r, b) ==
  \/ x = [msg |-> r.msg, rest |-> r.rest \o b]
  \/ r.rest = <<>> /\ x = ParseRound([msg |-> r.msg, rest |-> b])

\* The first two parts.
LEMMA PartResumes ==
  ASSUME NEW m, Kept(m), NEW i \in 1..2, m.flag = Parts(m.kind)[i],
         NEW a \in Seq(Symbol), a # <<>>, NEW b \in Seq(Symbol), b # <<>>
  PROVE  GoesOn(ParsePart(i, m, a \o b), ParsePart(i, m, a), b)
<1>1. m \in Messages
  BY DEF Kept
<1> DEFINE ab == a \o b
           hits == {j \in 1..Len(a) : a[j] = SP}
           all == {j \in 1..Len(ab) : ab[j] = SP}
           more == {j \in 1..Len(b) : b[j] = SP}
           pa == UpTo(hits, a)
           pab == UpTo(all, ab)
           pb == UpTo(more, b)
<1>2. /\ ab \in Seq(Symbol) /\ Len(ab) = Len(a) + Len(b)
      /\ \A j \in 1..Len(a) + Len(b) : ab[j] = IF j <= Len(a) THEN a[j] ELSE b[j - Len(a)]
      /\ Len(a) \in Nat /\ Len(b) \in Nat
  BY ConcatProperties, LenProperties
<1> HIDE DEF ab
<1>3. HitsWithin(hits, all, Len(a)) /\ HitsBehind(more, all, Len(b), Len(a))
  <2>1. \A j \in 1..Len(a) : j \in 1..Len(ab) /\ ab[j] = a[j]
    BY <1>2
  <2>2. ASSUME NEW j \in 1..Len(b) PROVE Len(a) + j \in 1..Len(ab) /\ ab[Len(a) + j] = b[j]
    <3>1. Len(a) + j \in 1..Len(a) + Len(b) /\ ~ (Len(a) + j <= Len(a)) /\ (Len(a) + j) - Len(a) = j
      BY <1>2
    <3>2. QED
      BY <1>2, <3>1
  <2>3. QED
    BY <2>1, <2>2 DEF HitsWithin, HitsBehind
<1>4. /\ hits \in SUBSET (1..Len(a)) /\ all \in SUBSET (1..Len(ab)) /\ more \in SUBSET (1..Len(b))
      /\ all \in SUBSET (1..Len(a \o b))
  BY DEF ab
<1>5. /\ ParsePart(i, m, a) = [msg |-> IF pa.hit THEN EndPart(i, Write(m, a, pa.len))
                                        ELSE Write(m, a, pa.len), rest |-> After(a, pa.len)]
      /\ ParsePart(i, m, ab) = [msg |-> IF pab.hit THEN EndPart(i, Write(m, ab, pab.len))
                                         ELSE Write(m, ab, pab.len), rest |-> After(ab, pab.len)]
      /\ \A k : ParsePart(i, k, b) = [msg |-> IF pb.hit THEN EndPart(i, Write(k, b, pb.len))
                                         ELSE Write(k, b, pb.len), rest |-> After(b, pb.len)]
  BY DEF ParsePart, Parse1
<1> HIDE DEF hits, all, more
<1>6. /\ pa.hit => pab = pa
      /\ ~ pa.hit => (pab.hit <=> pb.hit) /\ pab.len = Len(a) + pb.len
  <2>1. /\ pa.hit => UpTo(all, a \o b) = pa
        /\ ~ pa.hit => (UpTo(all, a \o b).hit <=> pb.hit) /\ UpTo(all, a \o b).len = Len(a) + pb.len
    BY <1>3, <1>4, UpToLonger
  <2>2. QED
    BY <2>1 DEF ab
<1>7. /\ pa.hit \in BOOLEAN /\ pa.len \in 0..Len(a) /\ pb.len \in 0..Len(b)
      /\ ~ pa.hit => pa.len = Len(a)
  BY <1>4, UpToIs
<1> HIDE DEF pa, pab, pb
<1>8. CASE pa.hit
  <2>1. Write(m, ab, pa.len) = Write(m, a, pa.len) /\ After(ab, pa.len) = After(a, pa.len) \o b
    BY <1>1, <1>7, WriteLonger, PieceOfFirst DEF ab
  <2>2. pab.hit /\ pab.len = pa.len
    BY <1>6, <1>8
  <2>3. ParsePart(i, m, a) = [msg |-> EndPart(i, Write(m, a, pa.len)), rest |-> After(a, pa.len)]
    BY <1>5, <1>8
  <2>4. ParsePart(i, m, ab) = [msg |-> EndPart(i, Write(m, a, pa.len)), rest |-> After(a, pa.len) \o b]
    BY <1>5, <2>1, <2>2
  <2>5. QED
    BY <2>3, <2>4 DEF GoesOn, ab
<1>9. CASE ~ pa.hit
  <2> DEFINE k == Write(m, a, Len(a))
  <2>1. Write(m, ab, pab.len) = Write(k, b, pb.len) /\ After(ab, pab.len) = After(b, pb.len)
    BY <1>1, <1>6, <1>7, <1>9, WriteLonger, PieceOfSecond DEF ab
  <2>2. ParsePart(i, m, ab) = ParsePart(i, k, b)
    BY <1>5, <1>6, <1>9, <2>1
  <2>3. ParsePart(i, m, a) = [msg |-> k, rest |-> <<>>]
    BY <1>5, <1>7, <1>9, WholePiece
  <2>4. k.flag = m.flag /\ k.kind = m.kind /\ Kept(k)
    <3>1. Len(a) \in 0..Len(a)
      BY <1>2
    <3>2. m.flag \notin {"BODY", "OVER"}
      <4>1. m.kind \in {"svr", "cli"}
        BY <1>1 DEF Messages
      <4>2. QED
        BY <4>1, PartFlags
    <3>3. QED
      BY <1>1, <3>1, <3>2, Written, WrittenKept
  <2> HIDE DEF k
  <2>5. ParseRound([msg |-> k, rest |-> b]) = ParsePart(i, k, b)
    BY <2>4, RoundIs
  <2>6. QED
    BY <2>2, <2>3, <2>5 DEF GoesOn, ab
<1>10. QED
  BY <1>7, <1>8, <1>9

\* What is common to the last part of the first line and to a header line.
LEMMA LineResumes ==
  ASSUME NEW m, Kept(m), m.flag \notin {"BODY", "OVER"},
         NEW a \in Seq(Symbol), a # <<>>, NEW b \in Seq(Symbol)
  PROVE  LET pa  == ParseCRLF(m, a)
             pab == ParseCRLF(m, a \o b)
             k   == Assist(Write(m, a, Len(a)))
             pb  == ParseCRLF(k, b)
         IN  /\ pa.hit =>
                  /\ pab.hit /\ Write(m, a \o b, pab.len) = Write(m, a, pa.len)
                  /\ After(a \o b, pab.len) = After(a, pa.len) \o b
             /\ ~ pa.hit =>
                  /\ Assist(Write(m, a, pa.len)) = k /\ After(a, pa.len) = <<>>
                  /\ k.flag = m.flag /\ k.kind = m.kind /\ Kept(k)
                  /\ pab.hit <=> pb.hit
                  /\ After(a \o b, pab.len) = After(b, pb.len)
                  /\ EndFirstLine(Write(m, a \o b, pab.len)) = EndFirstLine(Write(k, b, pb.len))
                  /\ EndHeader(Write(m, a \o b, pab.len)) = EndHeader(Write(k, b, pb.len))
                  /\ Assist(Write(m, a \o b, pab.len)) = Assist(Write(k, b, pb.len))
<1>1. m \in Messages
  BY DEF Kept
<1> DEFINE pa  == ParseCRLF(m, a)
           pab == ParseCRLF(m, a \o b)
           v   == Write(m, a, Len(a))
           k   == Assist(v)
           pb  == ParseCRLF(k, b)
<1>2. /\ pa.hit => pab = pa
      /\ ~ pa.hit => (pab.hit <=> pb.hit) /\ pab.len = Len(a) + pb.len /\ pb.len \in 0..Len(b)
  BY <1>1, LineScanLonger
<1>3. /\ pa.hit \in BOOLEAN /\ pa.len \in 0..Len(a) /\ (~ pa.hit => pa.len = Len(a))
      /\ Len(a) \in Nat
  BY LineScan
<1> HIDE DEF pa, pab, pb
<1>4. CASE pa.hit
  <2>1. Write(m, a \o b, pa.len) = Write(m, a, pa.len) /\ After(a \o b, pa.len) = After(a, pa.len) \o b
    BY <1>1, <1>3, WriteLonger, PieceOfFirst
  <2>2. QED
    BY <1>2, <1>4, <2>1 DEF pa, pab
<1>5. CASE ~ pa.hit
  <2>1. /\ Write(m, a \o b, pab.len) = Write(v, b, pb.len)
        /\ After(a \o b, pab.len) = After(b, pb.len)
        /\ pb.len \in 0..Len(b) /\ (pab.hit <=> pb.hit) /\ pa.len = Len(a)
    BY <1>1, <1>2, <1>3, <1>5, WriteLonger, PieceOfSecond
  <2>2. After(a, pa.len) = <<>>
    BY <2>1, WholePiece
  <2>3. v \in Messages /\ v.flag = m.flag /\ v.kind = m.kind /\ Kept(v)
    <3>1. Len(a) \in 0..Len(a)
      BY <1>3
    <3>2. QED
      BY <1>1, <3>1, Written, WrittenKept
  <2>4. Assist(Write(m, a, pa.len)) = k
    BY <2>1
  <2> HIDE DEF v
  <2>5. k.flag = m.flag /\ k.kind = m.kind /\ Kept(k)
    <3>1. /\ k \in Messages /\ k.buffer = v.buffer /\ k.vec = v.vec /\ k.header2 = v.header2
          /\ k.bodysize = v.bodysize /\ k.flag = v.flag /\ k.kind = v.kind
      BY <2>3, AssistIs, EndsAreMessages
    <3> HIDE DEF k
    <3>2. k.bodysize = -1 /\ k.header2.beg \in 0..Len(v.buffer)
      BY <2>3, <3>1 DEF Kept
    <3>3. Kept(k)
      BY <2>3, <3>1, <3>2, KeptAgrees DEF Kept
    <3>4. QED
      BY <2>3, <3>1, <3>3
  <2>6. /\ EndFirstLine(Write(m, a \o b, pab.len)) = EndFirstLine(Write(k, b, pb.len))
        /\ EndHeader(Write(m, a \o b, pab.len)) = EndHeader(Write(k, b, pb.len))
        /\ Assist(Write(m, a \o b, pab.len)) = Assist(Write(k, b, pb.len))
    BY <2>1, <2>3, AssistForgotten
  <2>7. QED
    BY <1>5, <2>1, <2>2, <2>4, <2>5, <2>6 DEF pa, pab, pb, v
<1>6. QED
  BY <1>3, <1>4, <1>5

\* The last part of the first line.
LEMMA Part3Resumes ==
  ASSUME NEW m, Kept(m), m.flag = Parts(m.kind)[3],
         NEW a \in Seq(Symbol), a # <<>>, NEW b \in Seq(Symbol), b # <<>>
  PROVE  GoesOn(ParsePart3(m, a \o b), ParsePart3(m, a), b)
<1>1. m.flag \notin {"BODY", "OVER"}
  <2>1. m.kind \in {"svr", "cli"}
    BY DEF Kept, Messages
  <2>2. QED
    BY <2>1, PartFlags
<1> DEFINE pa  == ParseCRLF(m, a)
           pab == ParseCRLF(m, a \o b)
           k   == Assist(Write(m, a, Len(a)))
           pb  == ParseCRLF(k, b)
<1>2. pa.hit \in BOOLEAN
  BY LineScan
<1>3. CASE pa.hit
  <2>1. /\ pab.hit /\ Write(m, a \o b, pab.len) = Write(m, a, pa.len)
        /\ After(a \o b, pab.len) = After(a, pa.len) \o b
    BY <1>1, <1>3, LineResumes
  <2>2. ParsePart3(m, a \o b) = [msg |-> EndFirstLine(Write(m, a, pa.len)), rest |-> After(a, pa.len) \o b]
    BY <2>1 DEF ParsePart3
  <2>3. ParsePart3(m, a) = [msg |-> EndFirstLine(Write(m, a, pa.len)), rest |-> After(a, pa.len)]
    BY <1>3 DEF ParsePart3
  <2>4. QED
    BY <2>2, <2>3 DEF GoesOn
<1>4. CASE ~ pa.hit
  <2>1. /\ Assist(Write(m, a, pa.len)) = k /\ After(a, pa.len) = <<>>
        /\ k.flag = m.flag /\ k.kind = m.kind /\ Kept(k)
        /\ pab.hit <=> pb.hit
        /\ After(a \o b, pab.len) = After(b, pb.len)
        /\ EndFirstLine(Write(m, a \o b, pab.len)) = EndFirstLine(Write(k, b, pb.len))
        /\ Assist(Write(m, a \o b, pab.len)) = Assist(Write(k, b, pb.len))
    BY <1>1, <1>4, LineResumes
  <2>2. ParsePart3(m, a) = [msg |-> k, rest |-> <<>>]
    BY <1>4, <2>1 DEF ParsePart3
  <2>3. ParsePart3(m, a \o b) = ParsePart3(k, b)
    BY <2>1 DEF ParsePart3
  <2> HIDE DEF k
  <2>4. ParseRound([msg |-> k, rest |-> b]) = ParsePart3(k, b)
    BY <2>1, RoundIs
  <2>5. QED
    BY <2>2, <2>3, <2>4 DEF GoesOn
<1>5. QED
  BY <1>2, <1>3, <1>4

\* One header line.
LEMMA HeadResumes ==
  ASSUME NEW m, Kept(m), m.flag = "HEAD",
         NEW a \in Seq(Symbol), a # <<>>, NEW b \in Seq(Symbol), b # <<>>
  PROVE  GoesOn(ParseHead(m, a \o b), ParseHead(m, a), b)
<1>1. m.flag \notin {"BODY", "OVER"}
  OBVIOUS
<1> DEFINE pa  == ParseCRLF(m, a)
           pab == ParseCRLF(m, a \o b)
           k   == Assist(Write(m, a, Len(a)))
           pb  == ParseCRLF(k, b)
<1>2. pa.hit \in BOOLEAN
  BY LineScan
<1>3. CASE pa.hit
  <2>1. /\ pab.hit /\ Write(m, a \o b, pab.len) = Write(m, a, pa.len)
        /\ After(a \o b, pab.len) = After(a, pa.len) \o b
    BY <1>1, <1>3, LineResumes
  <2>2. ParseHead(m, a \o b) = [msg |-> EndHeader(Write(m, a, pa.len)), rest |-> After(a, pa.len) \o b]
    BY <2>1 DEF ParseHead
  <2>3. ParseHead(m, a) = [msg |-> EndHeader(Write(m, a, pa.len)), rest |-> After(a, pa.len)]
    BY <1>3 DEF ParseHead
  <2>4. QED
    BY <2>2, <2>3 DEF GoesOn
<1>4. CASE ~ pa.hit
  <2>1. /\ Assist(Write(m, a, pa.len)) = k /\ After(a, pa.len) = <<>>
        /\ k.flag = m.flag /\ k.kind = m.kind /\ Kept(k)
        /\ pab.hit <=> pb.hit
        /\ After(a \o b, pab.len) = After(b, pb.len)
        /\ EndHeader(Write(m, a \o b, pab.len)) = EndHeader(Write(k, b, pb.len))
        /\ Assist(Write(m, a \o b, pab.len)) = Assist(Write(k, b, pb.len))
    BY <1>1, <1>4, LineResumes
  <2>2. ParseHead(m, a) = [msg |-> k, rest |-> <<>>]
    BY <1>4, <2>1 DEF ParseHead
  <2>3. ParseHead(m, a \o b) = ParseHead(k, b)
    BY <2>1 DEF ParseHead
  <2> HIDE DEF k
  <2>4. ParseRound([msg |-> k, rest |-> b]) = ParseHead(k, b)
    BY <2>1, RoundIs
  <2>5. QED
    BY <2>2, <2>3, <2>4 DEF GoesOn
<1>5. QED
  BY <1>2, <1>3, <1>4

\* The body.
LEMMA BodyResumes ==
  ASSUME NEW m, Kept(m), m.flag = "BODY",
         NEW a \in Seq(Symbol), a # <<>>, NEW b \in Seq(Symbol), b # <<>>
  PROVE  GoesOn(ParseBody(m, a \o b), ParseBody(m, a), b)
<1> DEFINE c == SizeBody(m)
           pa == BodyScan(c, a)
           pab == BodyScan(c, a \o b)
           k == Write(c, a, Len(a))
           pb == BodyScan(k, b)
<1>1. /\ c \in Messages /\ c.flag = "BODY" /\ c.bodysize \in Nat /\ c.buffer = m.buffer
      /\ c.bodysize # 0 => Len(m.buffer) - c.body.beg \in 0..c.bodysize
  BY Sized
<1>2. /\ ParseBody(m, a) = [msg |-> IF pa.hit THEN EndBody(Write(c, a, pa.len))
                                      ELSE Write(c, a, pa.len), rest |-> After(a, pa.len)]
      /\ ParseBody(m, a \o b) = [msg |-> IF pab.hit THEN EndBody(Write(c, a \o b, pab.len))
                                           ELSE Write(c, a \o b, pab.len), rest |-> After(a \o b, pab.len)]
  BY DEF ParseBody, BodyScan
<1>3. Len(a) \in Nat /\ Len(b) \in Nat /\ Len(a \o b) = Len(a) + Len(b) /\ Len(c.buffer) \in Nat
      /\ c.body.beg \in Int /\ Len(a) > 0
  BY SMTT(30), <1>1, LenProperties, ConcatProperties, EmptySeq DEF Messages, Position
<1> HIDE DEF c
<1>4. PICK need \in Nat :
        need = IF c.bodysize = 0 THEN 0 ELSE c.bodysize - (Len(c.buffer) - c.body.beg)
  BY <1>1, <1>3
<1>5. /\ pa.hit <=> need <= Len(a)
      /\ pa.len = IF need <= Len(a) THEN need ELSE Len(a)
      /\ pab.hit <=> need <= Len(a) + Len(b)
      /\ pab.len = IF need <= Len(a) + Len(b) THEN need ELSE Len(a) + Len(b)
  BY <1>3, <1>4 DEF BodyScan
<1>6. CASE need <= Len(a)
  <2>1. pa.hit /\ pab.hit /\ pa.len = need /\ pab.len = need /\ need \in 0..Len(a)
    BY <1>3, <1>4, <1>5, <1>6
  <2>2. Write(c, a \o b, need) = Write(c, a, need) /\ After(a \o b, need) = After(a, need) \o b
    BY <1>1, <2>1, WriteLonger, PieceOfFirst
  <2> HIDE DEF pa, pab
  <2>3. ParseBody(m, a) = [msg |-> EndBody(Write(c, a, need)), rest |-> After(a, need)]
    BY <1>2, <2>1
  <2>4. ParseBody(m, a \o b) = [msg |-> EndBody(Write(c, a, need)), rest |-> After(a, need) \o b]
    BY <1>2, <2>1, <2>2
  <2>5. QED
    BY <2>3, <2>4 DEF GoesOn
<1>7. CASE ~ (need <= Len(a))
  <2>1. /\ ~ pa.hit /\ pa.len = Len(a) /\ c.bodysize # 0
        /\ need = c.bodysize - (Len(c.buffer) - c.body.beg)
    BY <1>3, <1>4, <1>5, <1>7
  <2>2. Len(a) \in 0..Len(a)
    BY <1>3
  <2>3. /\ k \in Messages /\ k.flag = "BODY" /\ k.bodysize = c.bodysize /\ k.body = c.body
        /\ k.kind = c.kind /\ k.vec = c.vec /\ k.header2 = c.header2
        /\ Len(k.buffer) = Len(c.buffer) + Len(a)
    BY <1>1, <2>2, Written
  <2>4. ParseBody(m, a) = [msg |-> k, rest |-> <<>>]
    <3>1. After(a, Len(a)) = <<>>
      BY WholePiece
    <3> HIDE DEF pa
    <3>2. QED
      BY <1>2, <2>1, <3>1
  <2>5. Kept(k)
    <3>1. Progress(ParseBody(m, a), m, a)
      BY BodyProgress
    <3>2. ParseBody(m, a).msg = k
      BY <2>4
    <3>3. QED
      BY <3>1, <3>2 DEF Progress
  <2> HIDE DEF k
  <2>6. SizeBody(k) = k
    BY <1>1, <2>3 DEF SizeBody
  <2>7. ParseBody(k, b) = [msg |-> IF pb.hit THEN EndBody(Write(k, b, pb.len))
                                   ELSE Write(k, b, pb.len), rest |-> After(b, pb.len)]
    BY <2>6 DEF ParseBody, BodyScan
  <2>8. /\ pb.hit <=> need - Len(a) <= Len(b)
        /\ pb.len = IF need - Len(a) <= Len(b) THEN need - Len(a) ELSE Len(b)
    <3>1. k.bodysize - (Len(k.buffer) - k.body.beg) = need - Len(a) /\ k.bodysize # 0
      BY SMTT(30), <1>1, <1>3, <2>1, <2>3
    <3>2. QED
      BY <3>1 DEF BodyScan
  <2>9. (pab.hit <=> pb.hit) /\ pab.len = Len(a) + pb.len /\ pb.len \in 0..Len(b)
    <3>1. need - Len(a) \in Nat /\ (need <= Len(a) + Len(b) <=> need - Len(a) <= Len(b))
      BY <1>3, <1>4, <1>7
    <3> HIDE DEF pab, pb
    <3>2. CASE need - Len(a) <= Len(b)
      BY <1>3, <1>4, <1>5, <2>8, <3>1, <3>2
    <3>3. CASE ~ (need - Len(a) <= Len(b))
      BY <1>3, <1>4, <1>5, <2>8, <3>1, <3>3
    <3>4. QED
      BY <3>2, <3>3
  <2> HIDE DEF pab, pb
  <2>10. Write(c, a \o b, pab.len) = Write(k, b, pb.len) /\ After(a \o b, pab.len) = After(b, pb.len)
    BY <1>1, <2>9, WriteLonger, PieceOfSecond DEF k
  <2>11. ParseBody(m, a \o b) = ParseBody(k, b)
    BY <1>2, <2>7, <2>9, <2>10
  <2>12. ParseRound([msg |-> k, rest |-> b]) = ParseBody(k, b)
    BY <2>3, <2>5, RoundIs
  <2>13. QED
    BY <2>4, <2>11, <2>12 DEF GoesOn
<1>8. QED
  BY <1>6, <1>7

\* A round on more text.
LEMMA RoundResumes ==
  ASSUME NEW m, Kept(m), m.flag # "OVER",
         NEW a \in Seq(Symbol), a # <<>>, NEW b \in Seq(Symbol), b # <<>>
  PROVE  GoesOn(ParseRound([msg |-> m, rest |-> a \o b]), ParseRound([msg |-> m, rest |-> a]), b)
<1>1. a \o b # <<>>
  BY ConcatEqualIffEmpty
<1>2. CASE \E i \in 1..2 : m.flag = Parts(m.kind)[i]
  <2>1. PICK i \in 1..2 : m.flag = Parts(m.kind)[i]
    BY <1>2
  <2>2. /\ ParseRound([msg |-> m, rest |-> a \o b]) = ParsePart(i, m, a \o b)
        /\ ParseRound([msg |-> m, rest |-> a]) = ParsePart(i, m, a)
    BY <1>1, <2>1, RoundIs
  <2>3. QED
    BY <2>1, <2>2, PartResumes
<1>3. CASE m.flag = Parts(m.kind)[3]
  <2>1. /\ ParseRound([msg |-> m, rest |-> a \o b]) = ParsePart3(m, a \o b)
        /\ ParseRound([msg |-> m, rest |-> a]) = ParsePart3(m, a)
    BY <1>1, <1>3, RoundIs
  <2>2. QED
    BY <1>3, <2>1, Part3Resumes
<1>4. CASE m.flag = "HEAD"
  <2>1. /\ ParseRound([msg |-> m, rest |-> a \o b]) = ParseHead(m, a \o b)
        /\ ParseRound([msg |-> m, rest |-> a]) = ParseHead(m, a)
    BY <1>1, <1>4, RoundIs
  <2>2. QED
    BY <1>4, <2>1, HeadResumes
<1>5. CASE m.flag = "BODY"
  <2>1. /\ ParseRound([msg |-> m, rest |-> a \o b]) = ParseBody(m, a \o b)
        /\ ParseRound([msg |-> m, rest |-> a]) = ParseBody(m, a)
    BY <1>1, <1>5, RoundIs
  <2>2. QED
    BY <1>5, <2>1, BodyResumes
<1>6. QED
  BY <1>2, <1>3, <1>4, <1>5, WhereParsing

-----------------------------------------------------------------------------
(* Parse as what its rounds come to.                                       *)

\* Induction over the naturals, as a fact about sets.
LEMMA EveryNat ==
  ASSUME NEW T \in SUBSET Nat, 0 \in T, \A n \in T : n + 1 \in T
  PROVE  \A n \in Nat : n \in T
<1>1. SUFFICES ASSUME Nat \ T # {} PROVE FALSE
  OBVIOUS
<1>2. PICK n \in Nat \ T : \A k \in Nat \ T : n <= k
  <2>1. Nat \ T \in SUBSET Nat
    OBVIOUS
  <2>2. QED
    BY <1>1, <2>1, LeastOf
<1>3. n - 1 \in Nat /\ n - 1 \in T
  BY <1>2
<1>4. n - 1 + 1 \in T
  BY <1>3
<1>5. QED
  BY <1>2, <1>4

\* A message in the parser with what is left of the chunk, when there is
\* nothing to do for a round, and with more of the chunk.
Underway(x) ==
  x = [msg |-> x.msg, rest |-> x.rest] /\ Kept(x.msg) /\ x.rest \in Seq(Symbol)
Done(x) == x.rest = <<>> \/ x.msg.flag = "OVER"
Longer(x, b) == [msg |-> x.msg, rest |-> x.rest \o b]
ParseOf(x) == Parse(x.msg, x.rest)

\* A round gives a message and what is left.
LEMMA RoundGivesBoth ==
  ASSUME NEW m, Kept(m), NEW s
  PROVE  LET r == ParseRound([msg |-> m, rest |-> s]) IN r = [msg |-> r.msg, rest |-> r.rest]
<1>1. CASE s = <<>> \/ m.flag = "OVER"
  BY <1>1 DEF ParseRound
<1>2. CASE s # <<>> /\ m.flag # "OVER"
  <2>1. ASSUME NEW i \in 1..2 PROVE ParsePart(i, m, s) = [msg |-> ParsePart(i, m, s).msg, rest |-> ParsePart(i, m, s).rest]
    BY DEF ParsePart
  <2>2. ParsePart3(m, s) = [msg |-> ParsePart3(m, s).msg, rest |-> ParsePart3(m, s).rest]
    BY DEF ParsePart3
  <2>3. ParseHead(m, s) = [msg |-> ParseHead(m, s).msg, rest |-> ParseHead(m, s).rest]
    BY DEF ParseHead
  <2>4. ParseBody(m, s) = [msg |-> ParseBody(m, s).msg, rest |-> ParseBody(m, s).rest]
    BY DEF ParseBody
  <2>5. QED
    BY <1>2, <2>1, <2>2, <2>3, <2>4, RoundIs, WhereParsing
<1>3. QED
  BY <1>1, <1>2

\* What a round does to a message underway.
LEMMA RoundRuns ==
  ASSUME NEW x, Underway(x)
  PROVE  /\ Underway(ParseRound(x)) /\ ParseRound(x).msg.kind = x.msg.kind
         /\ Done(x) => ParseRound(x) = x
         /\ ~ Done(x) => Len(ParseRound(x).rest) < Len(x.rest) \/ Done(ParseRound(x))
         /\ Len(x.rest) \in Nat /\ Len(ParseRound(x).rest) \in Nat
<1>1. x = [msg |-> x.msg, rest |-> x.rest] /\ Kept(x.msg) /\ x.rest \in Seq(Symbol)
  BY DEF Underway
<1> DEFINE r == ParseRound(x)
<1>2. r = [msg |-> r.msg, rest |-> r.rest]
  BY <1>1, RoundGivesBoth
<1>3. CASE Done(x)
  <2>1. r = x
    BY <1>3 DEF ParseRound, Done
  <2>2. QED
    BY <1>1, <1>3, <2>1, LenProperties
<1>4. CASE ~ Done(x)
  <2>1. Progress(r, x.msg, x.rest)
    BY <1>1, <1>4, RoundProgress DEF Done
  <2> HIDE DEF r
  <2>2. Kept(r.msg) /\ r.msg.kind = x.msg.kind /\ r.rest \in Seq(Symbol)
        /\ (Len(r.rest) < Len(x.rest) \/ r.msg.flag = "OVER")
    BY <2>1 DEF Progress
  <2>3. Underway(r)
    BY <1>2, <2>2 DEF Underway
  <2>4. QED
    BY <1>1, <1>4, <2>2, <2>3, LenProperties DEF Done, r
<1>5. QED
  BY <1>3, <1>4

\* Each leaves a message underway, and after as many as there are symbols left
\* there is nothing more to do.
LEMMA RoundsEnd ==
  ASSUME NEW f, NEW x, Underway(x), Rounds(f, x)
  PROVE  /\ \A n \in Nat : Underway(f[n]) /\ f[n].msg.kind = x.msg.kind
         /\ Len(x.rest) \in Nat /\ Done(f[Len(x.rest)])
         /\ \A n, k \in Nat : Done(f[n]) => f[n + k] = f[n]
<1>1. f[0] = x /\ \A n \in Nat : f[n + 1] = ParseRound(f[n])
  BY DEF Rounds
<1>2. \A n \in Nat : Underway(f[n]) /\ f[n].msg.kind = x.msg.kind
  <2> DEFINE T == {n \in Nat : Underway(f[n]) /\ f[n].msg.kind = x.msg.kind}
  <2>1. 0 \in T
    BY <1>1
  <2>2. ASSUME NEW n \in T PROVE n + 1 \in T
    <3>1. n \in Nat /\ Underway(f[n]) /\ f[n].msg.kind = x.msg.kind
      OBVIOUS
    <3>2. f[n + 1] = ParseRound(f[n])
      BY <1>1, <3>1
    <3>3. Underway(ParseRound(f[n])) /\ ParseRound(f[n]).msg.kind = f[n].msg.kind
      BY <3>1, RoundRuns
    <3>4. n + 1 \in Nat /\ Underway(f[n + 1]) /\ f[n + 1].msg.kind = x.msg.kind
      BY <3>1, <3>2, <3>3
    <3>5. QED
      BY <3>4
  <2>3. T \in SUBSET Nat
    OBVIOUS
  <2>4. \A n \in Nat : n \in T
    <3> HIDE DEF T
    <3>1. QED
      BY <2>1, <2>2, <2>3, EveryNat
  <2>5. QED
    BY <2>4
<1>3. Len(x.rest) \in Nat
  BY RoundRuns
<1>4. \A n \in Nat : Len(f[n].rest) \in Nat /\ (Len(f[n].rest) <= Len(x.rest) - n \/ Done(f[n]))
  <2> DEFINE T == {n \in Nat : Len(f[n].rest) <= Len(x.rest) - n \/ Done(f[n])}
  <2>1. 0 \in T
    BY <1>1, <1>3
  <2>2. ASSUME NEW n \in T PROVE n + 1 \in T
    <3>1. n \in Nat /\ Underway(f[n]) /\ (Len(f[n].rest) <= Len(x.rest) - n \/ Done(f[n]))
      BY <1>2
    <3>2. f[n + 1] = ParseRound(f[n])
      BY <1>1, <3>1
    <3>3. /\ Done(f[n]) => f[n + 1] = f[n]
          /\ ~ Done(f[n]) => Len(f[n + 1].rest) < Len(f[n].rest) \/ Done(f[n + 1])
          /\ Len(f[n].rest) \in Nat /\ Len(f[n + 1].rest) \in Nat
      BY <3>1, <3>2, RoundRuns
    <3>4. n + 1 \in Nat /\ (Len(f[n + 1].rest) <= Len(x.rest) - (n + 1) \/ Done(f[n + 1]))
      <4>1. CASE Done(f[n])
        BY <3>1, <3>3, <4>1
      <4>2. CASE ~ Done(f[n])
        BY <1>3, <3>1, <3>3, <4>2
      <4>3. QED
        BY <4>1, <4>2
    <3>5. QED
      BY <3>4
  <2>3. T \in SUBSET Nat
    OBVIOUS
  <2>4. \A n \in Nat : n \in T
    <3> HIDE DEF T
    <3>1. QED
      BY <2>1, <2>2, <2>3, EveryNat
  <2>5. \A n \in Nat : Len(f[n].rest) \in Nat
    BY <1>2, RoundRuns
  <2>6. QED
    BY <2>4, <2>5
<1>5. Done(f[Len(x.rest)])
  <2> DEFINE n == Len(x.rest)
  <2>1. Underway(f[n]) /\ Len(f[n].rest) \in Nat /\ (Len(f[n].rest) <= n - n \/ Done(f[n]))
    BY <1>2, <1>3, <1>4
  <2>2. Len(f[n].rest) = 0 => f[n].rest = <<>>
    BY <2>1, EmptySeq DEF Underway
  <2>3. n - n = 0
    BY <1>3
  <2>4. QED
    BY <2>1, <2>2, <2>3 DEF Done
<1>6. ASSUME NEW n \in Nat, Done(f[n]) PROVE \A k \in Nat : f[n + k] = f[n]
  <2> DEFINE T == {k \in Nat : f[n + k] = f[n]}
  <2>1. 0 \in T
    OBVIOUS
  <2>2. ASSUME NEW k \in T PROVE k + 1 \in T
    <3>1. k \in Nat /\ f[n + k] = f[n] /\ n + k \in Nat /\ n + (k + 1) = n + k + 1
      OBVIOUS
    <3>2. f[n + k + 1] = ParseRound(f[n])
      BY <1>1, <3>1
    <3>3. ParseRound(f[n]) = f[n]
      BY <1>2, <1>6, RoundRuns
    <3>4. QED
      BY <3>1, <3>2, <3>3
  <2>3. T \in SUBSET Nat
    OBVIOUS
  <2>4. \A k \in Nat : k \in T
    <3> HIDE DEF T
    <3>1. QED
      BY <2>1, <2>2, <2>3, EveryNat
  <2>5. QED
    BY <2>4
<1>7. QED
  BY <1>2, <1>3, <1>5, <1>6

\* The rounds of Parse.
LEMMA ParseOfIsRounds ==
  ASSUME NEW x, Underway(x)
  PROVE  \E f : Rounds(f, x) /\ ParseOf(x) = f[Len(x.rest) + 1]
<1>1. PICK f : /\ Rounds(f, [msg |-> x.msg, rest |-> x.rest])
               /\ Parse(x.msg, x.rest) = f[Len(x.rest) + 1]
  BY ParseIsRounds
<1>2. QED
  BY <1>1 DEF ParseOf, Underway

\* Parse ends with nothing more to do, and does nothing when there is nothing.
LEMMA ParseEnds ==
  ASSUME NEW x, Underway(x)
  PROVE  /\ Underway(ParseOf(x)) /\ Done(ParseOf(x)) /\ ParseOf(x).msg.kind = x.msg.kind
         /\ Done(x) => ParseOf(x) = x
<1>1. PICK f : Rounds(f, x) /\ ParseOf(x) = f[Len(x.rest) + 1]
  BY ParseOfIsRounds
<1>2. /\ \A n \in Nat : Underway(f[n]) /\ f[n].msg.kind = x.msg.kind
      /\ Len(x.rest) \in Nat /\ Done(f[Len(x.rest)])
      /\ \A n, k \in Nat : Done(f[n]) => f[n + k] = f[n]
  BY <1>1, RoundsEnd
<1>3. f[Len(x.rest) + 1] = f[Len(x.rest)] /\ Len(x.rest) + 1 \in Nat
  BY <1>2
<1>4. Done(x) => f[0 + (Len(x.rest) + 1)] = x
  BY <1>1, <1>2, <1>3 DEF Rounds
<1>5. 0 + (Len(x.rest) + 1) = Len(x.rest) + 1
  BY <1>2
<1>6. QED
  BY <1>1, <1>2, <1>3, <1>4, <1>5

\* Parse does a round first, and then what it does of what that leaves.
LEMMA ParseDoesRound ==
  ASSUME NEW x, Underway(x)
  PROVE  ParseOf(ParseRound(x)) = ParseOf(x)
<1> DEFINE y == ParseRound(x)
<1>1. Underway(y)
  BY RoundRuns
<1>2. PICK f : Rounds(f, x) /\ ParseOf(x) = f[Len(x.rest) + 1]
  BY ParseOfIsRounds
<1>3. PICK g : Rounds(g, y) /\ ParseOf(y) = g[Len(y.rest) + 1]
  BY <1>1, ParseOfIsRounds
<1>4. /\ Len(x.rest) \in Nat /\ Done(f[Len(x.rest)])
      /\ \A n, k \in Nat : Done(f[n]) => f[n + k] = f[n]
  BY <1>2, RoundsEnd
<1>5. Len(y.rest) \in Nat /\ Done(g[Len(y.rest)])
  BY <1>1, <1>3, RoundsEnd
<1>6. \A n \in Nat : g[n] = f[n + 1]
  <2> DEFINE T == {n \in Nat : g[n] = f[n + 1]}
  <2>1. 0 \in T
    BY <1>2, <1>3 DEF Rounds
  <2>2. ASSUME NEW n \in T PROVE n + 1 \in T
    <3>1. n \in Nat /\ n + 1 \in Nat /\ g[n] = f[n + 1]
      OBVIOUS
    <3>2. g[n + 1] = ParseRound(g[n]) /\ f[n + 1 + 1] = ParseRound(f[n + 1])
      BY <1>2, <1>3, <3>1 DEF Rounds
    <3>3. QED
      BY <3>1, <3>2
  <2>3. T \in SUBSET Nat
    OBVIOUS
  <2>4. \A n \in Nat : n \in T
    <3> HIDE DEF T
    <3>1. QED
      BY <2>1, <2>2, <2>3, EveryNat
  <2>5. QED
    BY <2>4
<1> HIDE DEF y
<1>7. PICK a \in Nat, b \in Nat : a = Len(x.rest) /\ b = Len(y.rest)
  BY <1>4, <1>5
<1>8. Done(f[a]) /\ Done(f[b + 1])
  BY <1>4, <1>5, <1>6, <1>7
<1>9. /\ f[a + 1] = f[a] /\ f[a + (b + 2)] = f[a]
      /\ f[(b + 1) + 1] = f[b + 1] /\ f[(b + 1) + (a + 1)] = f[b + 1]
  BY SMTT(30), <1>4, <1>8
<1>10. a + (b + 2) = (b + 1) + (a + 1) /\ b + 1 \in Nat
  OBVIOUS
<1>11. f[a + 1] = f[(b + 1) + 1]
  BY <1>9, <1>10
<1>12. QED
  BY <1>2, <1>3, <1>6, <1>7, <1>10, <1>11 DEF y

\* More of the chunk keeps a message underway.
LEMMA LongerIs ==
  ASSUME NEW x, Underway(x), NEW b \in Seq(Symbol)
  PROVE  /\ Underway(Longer(x, b)) /\ Longer(x, b).msg = x.msg
         /\ Longer(x, b).rest = x.rest \o b
         /\ b = <<>> => Longer(x, b) = x
<1>1. x.rest \o b \in Seq(Symbol) /\ (b = <<>> => x.rest \o b = x.rest)
  BY ConcatProperties, ConcatEmptySeq DEF Underway
<1>2. QED
  BY <1>1 DEF Underway, Longer

\* Parsing what there is and then what comes gives what parsing both at once gives.
THEOREM ParseGoesOn ==
  ASSUME NEW x, Underway(x), NEW b \in Seq(Symbol)
  PROVE  ParseOf(Longer(ParseOf(x), b)) = ParseOf(Longer(x, b))
<1> DEFINE Resumes(y) == ParseOf(Longer(ParseOf(y), b)) = ParseOf(Longer(y, b))
           T == {n \in Nat : \A y : Underway(y) /\ Len(y.rest) = n => Resumes(y)}
<1>1. ASSUME NEW y, Underway(y), \A z : Underway(z) /\ Len(z.rest) < Len(y.rest) => Resumes(z)
      PROVE  Resumes(y)
  <2>1. CASE b = <<>>
    <3>1. Underway(ParseOf(y)) /\ ParseOf(ParseOf(y)) = ParseOf(y)
      BY <1>1, ParseEnds
    <3>2. Longer(ParseOf(y), b) = ParseOf(y) /\ Longer(y, b) = y
      BY <1>1, <2>1, <3>1, LongerIs
    <3>3. QED
      BY <3>1, <3>2
  <2>2. CASE Done(y)
    <3>1. ParseOf(y) = y
      BY <1>1, <2>2, ParseEnds
    <3>2. QED
      BY <3>1
  <2>3. CASE b # <<>> /\ ~ Done(y)
    <3> DEFINE r == ParseRound(y)
    <3>1. /\ Underway(r) /\ (Len(r.rest) < Len(y.rest) \/ Done(r))
          /\ ParseOf(y) = ParseOf(r)
      BY <1>1, <2>3, RoundRuns, ParseDoesRound
    <3>2. ParseOf(Longer(y, b)) = ParseOf(ParseRound(Longer(y, b)))
          /\ ParseOf(Longer(r, b)) = ParseOf(ParseRound(Longer(r, b)))
      BY <1>1, <3>1, LongerIs, ParseDoesRound
    <3>3. GoesOn(ParseRound(Longer(y, b)), r, b)
      <4>1. /\ Kept(y.msg) /\ y.msg.flag # "OVER" /\ y.rest \in Seq(Symbol) /\ y.rest # <<>>
            /\ y = [msg |-> y.msg, rest |-> y.rest]
        BY <1>1, <2>3 DEF Underway, Done
      <4>2. QED
        BY <2>3, <4>1, RoundResumes DEF Longer
    <3>4. ParseOf(Longer(y, b)) = ParseOf(Longer(r, b))
      <4>1. CASE ParseRound(Longer(y, b)) = [msg |-> r.msg, rest |-> r.rest \o b]
        BY <3>2, <4>1 DEF Longer
      <4>2. CASE r.rest = <<>> /\ ParseRound(Longer(y, b)) = ParseRound([msg |-> r.msg, rest |-> b])
        <5>1. Longer(r, b) = [msg |-> r.msg, rest |-> b]
          <6>1. <<>> \o b = b
            BY ConcatEmptySeq
          <6>2. QED
            BY <4>2, <6>1 DEF Longer
        <5>2. QED
          BY <3>2, <4>2, <5>1
      <4>3. QED
        BY <3>3, <4>1, <4>2 DEF GoesOn
    <3>5. Resumes(r)
      <4>1. CASE Done(r)
        BY <3>1, <4>1, ParseEnds
      <4>2. CASE Len(r.rest) < Len(y.rest)
        BY <1>1, <3>1, <4>2
      <4>3. QED
        BY <3>1, <4>1, <4>2
    <3> HIDE DEF r
    <3>6. QED
      BY <3>1, <3>4, <3>5
  <2>4. QED
    BY <2>1, <2>2, <2>3
<1> HIDE DEF Resumes
<1>2. ASSUME NEW y, Underway(y), ~ Resumes(y) PROVE FALSE
  <2> DEFINE F == {n \in Nat : \E z : Underway(z) /\ Len(z.rest) = n /\ ~ Resumes(z)}
  <2>1. F \in SUBSET Nat /\ F # {}
    <3>1. Len(y.rest) \in Nat
      BY <1>2, RoundRuns
    <3>2. Len(y.rest) \in F
      BY <1>2, <3>1
    <3>3. QED
      BY <3>2
  <2>2. PICK n \in F : \A k \in F : n <= k
    <3> HIDE DEF F
    <3>1. QED
      BY <2>1, LeastOf
  <2>3. PICK z : Underway(z) /\ Len(z.rest) = n /\ ~ Resumes(z)
    BY <2>2
  <2>4. ASSUME NEW v, Underway(v), Len(v.rest) < Len(z.rest) PROVE Resumes(v)
    <3>1. Len(v.rest) \in Nat /\ n \in Nat
      BY <2>4, RoundRuns
    <3>2. Len(v.rest) \notin F
      BY <2>2, <2>3, <2>4, <3>1
    <3>3. QED
      BY <2>4, <3>1, <3>2
  <2>5. QED
    BY <1>1, <2>3, <2>4
<1>3. QED
  BY <1>2 DEF Resumes

-----------------------------------------------------------------------------
(* What the variables are.                                                 *)

\* A message: its parts, and whether it was built the usual way.
MessageOf ==
  [line : [1..3 -> Seq(Symbol)], headers : Seq(Seq(Symbol)), body : Seq(Symbol),
   usual : BOOLEAN]

\* The type invariant.  The receiver's message is always a cleared one: see
\* CutMsgPack, which clears it whatever Parse has made of the chunk.
Typed ==
  /\ kind \in Kinds
  /\ building = [buffer |-> building.buffer, set |-> building.set]
  /\ building.buffer \in Seq(Symbol)
  /\ meant \in MessageOf
  /\ sent \in Seq(MessageOf)
  /\ stream \in Seq(Symbol)
  /\ ends \in Seq(Nat)
  /\ taken \in 0..Len(stream)
  /\ aligned \in BOOLEAN
  /\ chunk \in Seq(Symbol)
  /\ httpmsg = Cleared(kind)

\* The words the server writes are symbols.
LEMMA WordsAre ==
  /\ \A what \in {"HTTP/1.1", "200", "404", "OK", "Location", "Content-Type", "Server"} :
       Word(what) \in Symbol
  /\ CRLF \in Seq(Symbol) /\ <<SP>> \in Seq(Symbol) /\ Len(CRLF) = 2
  /\ CRLF[1] = CR /\ CRLF[2] = LF
<1>1. \A what \in {"HTTP/1.1", "200", "404", "OK", "Location", "Content-Type", "Server"} :
        Word(what) \in Symbol
  BY TextsAssumption DEF Word, Symbol
<1>2. CRLF \in Seq(Symbol) /\ <<SP>> \in Seq(Symbol) /\ Len(CRLF) = 2
      /\ CRLF[1] = CR /\ CRLF[2] = LF
  BY SymbolsAre DEF CRLF
<1>3. QED
  BY <1>1, <1>2

\* A message that has been cleared is in order.
LEMMA ClearedKept ==
  ASSUME NEW k \in {"svr", "cli"}
  PROVE  Kept(Cleared(k)) /\ Cleared(k).kind = k
<1>1. PICK fl \in Flags : fl = Parts(k)[1]
  BY PartFlags
<1>2. PICK o \in Position : o = Pos(0, 0)
  <2>1. Pos(0, 0) \in Position
    BY DEF Pos, Position
  <2>2. QED
    BY <2>1
<1>3. PICK l \in [1..3 -> Position] : l = [i \in 1..3 |-> Pos(0, 0)]
  BY <1>2
<1>4. PICK e \in Seq(Symbol) : e = <<>>
  BY EmptySeq
<1>5. PICK v \in Seq(Position) : v = <<>>
  BY EmptySeq
<1>6. Cleared(k) = [kind |-> k, buffer |-> e, flag |-> fl, assist |-> FALSE, line |-> l,
                    header |-> o, header2 |-> o, vec |-> v, body |-> o, bodysize |-> -1]
  BY <1>1, <1>2, <1>3, <1>4, <1>5 DEF Cleared
<1>7. Cleared(k) \in Messages
  BY <1>6 DEF Messages
<1>8. Len(e) = 0 /\ Len(v) = 0 /\ o.beg = 0 /\ fl \notin {"HEAD", "BODY", "OVER"}
  BY <1>1, <1>2, <1>4, <1>5, PartFlags, EmptySeq DEF Pos
<1>9. /\ Cleared(k).kind = k /\ Cleared(k).flag = fl /\ Cleared(k).header2 = o
      /\ Cleared(k).vec = v /\ Cleared(k).buffer = e /\ Cleared(k).bodysize = -1
  BY <1>6
<1>10. QED
  BY <1>1, <1>7, <1>8, <1>9 DEF Kept

\* What the setters write are symbols.
LEMMA PutIs ==
  ASSUME NEW b, b.buffer \in Seq(Symbol), NEW what, NEW s \in Seq(Symbol)
  PROVE  /\ Put(b, what, s) = [buffer |-> b.buffer \o s, set |-> b.set \cup {what}]
         /\ Put(b, what, s).buffer = b.buffer \o s
         /\ Put(b, what, s).buffer \in Seq(Symbol)
         /\ Put(b, what, s).set = b.set \cup {what}
BY ConcatProperties DEF Put

\* A message being built, with a buffer of symbols.
Buffered(b) == b = [buffer |-> b.buffer, set |-> b.set] /\ b.buffer \in Seq(Symbol)

\* The setters leave a buffer of symbols.
LEMMA SettersTyped ==
  ASSUME NEW b, Buffered(b)
  PROVE  /\ \A i \in 1..3 : \A text \in Seq(Symbol) : Buffered(SetLine(b, i, text))
         /\ \A what \in {"Location", "Content-Type"} : Buffered(SetHeader(b, what))
         /\ Buffered(SetByPointer(b, "Server"))
         /\ \A i \in 1..3 : Buffered(FillLine(b, i))
<1>1. \A what : \A s \in Seq(Symbol) : Buffered(Put(b, what, s))
  BY PutIs DEF Buffered
<1>2. ASSUME NEW i \in 1..3, NEW text \in Seq(Symbol) PROVE Buffered(SetLine(b, i, text))
  <2>1. text \o (IF i = 3 THEN CRLF ELSE <<SP>>) \in Seq(Symbol)
    BY WordsAre, ConcatProperties
  <2>2. QED
    BY <1>1, <2>1 DEF SetLine
<1>3. ASSUME NEW what \in {"Location", "Content-Type"} PROVE Buffered(SetHeader(b, what))
  <2>1. <<Word(what)>> \in Seq(Symbol)
    BY WordsAre
  <2>2. <<Word(what)>> \o CRLF \in Seq(Symbol)
    BY <2>1, WordsAre, ConcatProperties
  <2>3. QED
    BY <1>1, <2>2 DEF SetHeader
<1>4. Buffered(SetByPointer(b, "Server"))
  <2>1. <<Pointer, Word("Server"), Pointer>> \in Seq(Symbol)
    BY WordsAre, SymbolsAre
  <2>2. QED
    BY <1>1, <2>1 DEF SetByPointer
<1>5. ASSUME NEW i \in 1..3 PROVE Buffered(FillLine(b, i))
  <2>1. Default[LineField[i]] \in Seq(Symbol)
    <3>1. i = 1 \/ i = 2 \/ i = 3
      OBVIOUS
    <3>2. LineField[1] = "VER" /\ LineField[2] = "STATUS_CODE" /\ LineField[3] = "STATUS_PHRASE"
      BY DEF LineField
    <3>3. /\ Default["VER"] = <<Word("HTTP/1.1")>> /\ Default["STATUS_CODE"] = <<Word("200")>>
          /\ Default["STATUS_PHRASE"] = <<Word("OK")>>
      BY DEF Default
    <3>4. /\ <<Word("HTTP/1.1")>> \in Seq(Symbol) /\ <<Word("200")>> \in Seq(Symbol)
          /\ <<Word("OK")>> \in Seq(Symbol)
      BY WordsAre
    <3>5. QED
      BY <3>1, <3>2, <3>3, <3>4
  <2>2. QED
    BY <1>2, <2>1 DEF FillLine
<1>6. QED
  BY <1>2, <1>3, <1>4, <1>5

-----------------------------------------------------------------------------
(* The bytes of the header lines.                                          *)

\* The function FlattenSeq chooses.
IsFlatten(f, ss, n) == f = [i \in 1..n |-> IF i = 1 THEN ss[i] ELSE f[i - 1] \o ss[i]]

\* There is such a function for every length.
LEMMA FlattenExists ==
  ASSUME NEW ss
  PROVE  \A n \in Nat : \E f : IsFlatten(f, ss, n)
<1> DEFINE T == {n \in Nat : \E f : IsFlatten(f, ss, n)}
<1>1. 0 \in T
  <2> DEFINE f == [i \in 1..0 |-> 0]
  <2>1. f = [i \in 1..0 |-> IF i = 1 THEN ss[i] ELSE f[i - 1] \o ss[i]]
    OBVIOUS
  <2>2. IsFlatten(f, ss, 0)
    BY <2>1 DEF IsFlatten
  <2>3. QED
    BY <2>2
<1>2. ASSUME NEW n \in T PROVE n + 1 \in T
  <2>1. n \in Nat /\ n + 1 \in Nat
    OBVIOUS
  <2>2. PICK f : IsFlatten(f, ss, n)
    OBVIOUS
  <2> DEFINE h == [i \in 1..n + 1 |-> IF i <= n THEN f[i] ELSE IF i = 1 THEN ss[i] ELSE f[i - 1] \o ss[i]]
  <2>3. \A i \in 1..n : f[i] = IF i = 1 THEN ss[i] ELSE f[i - 1] \o ss[i]
    BY <2>2 DEF IsFlatten
  <2>4. \A i \in 1..n + 1 : h[i] = IF i <= n THEN f[i] ELSE IF i = 1 THEN ss[i] ELSE f[i - 1] \o ss[i]
    OBVIOUS
  <2>5. h = [i \in 1..n + 1 |-> h[i]]
    OBVIOUS
  <2> HIDE DEF h
  <2>6. \A i \in 1..n + 1 : i = 1 \/ (i - 1 \in 1..n /\ h[i - 1] = f[i - 1])
    BY <2>1, <2>4
  <2>7. \A i \in 1..n + 1 : h[i] = IF i = 1 THEN ss[i] ELSE f[i - 1] \o ss[i]
    BY <2>1, <2>3, <2>4
  <2>8. \A i \in 1..n + 1 : h[i] = IF i = 1 THEN ss[i] ELSE h[i - 1] \o ss[i]
    BY <2>6, <2>7
  <2>9. IsFlatten(h, ss, n + 1)
    BY <2>5, <2>8 DEF IsFlatten
  <2>10. QED
    BY <2>1, <2>9
<1>3. T \in SUBSET Nat
  OBVIOUS
<1>4. \A n \in Nat : n \in T
  <2> HIDE DEF T
  <2>1. QED
    BY <1>1, <1>2, <1>3, EveryNat
<1>5. QED
  BY <1>4

\* FlattenSeq(ss) is the last value of f.
Flattens(f, ss) ==
  /\ FlattenSeq(ss) = f[Len(ss)]
  /\ \A i \in 1..Len(ss) : f[i] = IF i = 1 THEN ss[i] ELSE f[i - 1] \o ss[i]

\* FlattenSeq is that function's last value.
LEMMA FlattenIs ==
  ASSUME NEW ss, Len(ss) \in Nat, Len(ss) # 0
  PROVE  \E f : Flattens(f, ss)
<1> DEFINE f == CHOOSE f : IsFlatten(f, ss, Len(ss))
<1>1. IsFlatten(f, ss, Len(ss))
  BY FlattenExists, Zenon
<1>2. FlattenSeq(ss) = f[Len(ss)]
  BY DEF FlattenSeq, IsFlatten
<1> HIDE DEF f
<1>3. \A i \in 1..Len(ss) : f[i] = IF i = 1 THEN ss[i] ELSE f[i - 1] \o ss[i]
  BY <1>1 DEF IsFlatten
<1>4. QED
  BY <1>2, <1>3 DEF Flattens

\* One more sequence goes to the end.
LEMMA FlattenAppend ==
  ASSUME NEW ss \in Seq(Seq(Symbol)), NEW x \in Seq(Symbol)
  PROVE  FlattenSeq(Append(ss, x)) = FlattenSeq(ss) \o x
<1>1. PICK n \in Nat : n = Len(ss)
  BY LenProperties
<1> DEFINE more == Append(ss, x)
<1>2. /\ more \in Seq(Seq(Symbol)) /\ Len(more) = n + 1
      /\ \A i \in 1..n : more[i] = ss[i]
      /\ more[n + 1] = x
  BY <1>1, AppendProperties
<1> HIDE DEF more
<1>3. PICK g : Flattens(g, more)
  <2>1. Len(more) \in Nat /\ Len(more) # 0
    BY <1>1, <1>2
  <2>2. QED
    BY <2>1, FlattenIs
<1>4. /\ FlattenSeq(more) = g[n + 1]
      /\ \A i \in 1..n + 1 : g[i] = IF i = 1 THEN more[i] ELSE g[i - 1] \o more[i]
  BY <1>2, <1>3 DEF Flattens
<1>5. CASE n = 0
  <2>1. g[1] = x
    BY <1>2, <1>4, <1>5
  <2>2. FlattenSeq(ss) = <<>>
    BY <1>1, <1>5, EmptySeq DEF FlattenSeq
  <2>3. <<>> \o x = x
    BY ConcatEmptySeq
  <2>4. QED
    BY <1>4, <1>5, <2>1, <2>2, <2>3 DEF more
<1>6. CASE n # 0
  <2>1. PICK f : Flattens(f, ss)
    BY <1>1, <1>6, FlattenIs
  <2>2. /\ FlattenSeq(ss) = f[n]
        /\ \A i \in 1..n : f[i] = IF i = 1 THEN ss[i] ELSE f[i - 1] \o ss[i]
    BY <1>1, <2>1 DEF Flattens
  <2> DEFINE T == {i \in Nat : i <= n => (i = 0 \/ g[i] = f[i])}
  <2>3. 0 \in T
    OBVIOUS
  <2>4. ASSUME NEW i \in T PROVE i + 1 \in T
    <3>1. i \in Nat /\ i + 1 \in Nat /\ i + 1 - 1 = i
      OBVIOUS
    <3>2. ASSUME i + 1 <= n PROVE g[i + 1] = f[i + 1]
      <4>1. /\ g[i + 1] = IF i + 1 = 1 THEN more[i + 1] ELSE g[i] \o more[i + 1]
            /\ f[i + 1] = IF i + 1 = 1 THEN ss[i + 1] ELSE f[i] \o ss[i + 1]
            /\ more[i + 1] = ss[i + 1]
        BY <1>2, <1>4, <2>2, <3>1, <3>2
      <4>2. i = 0 \/ g[i] = f[i]
        BY <3>1, <3>2
      <4>3. QED
        BY <3>1, <4>1, <4>2
    <3>3. QED
      BY <3>1, <3>2
  <2>5. T \in SUBSET Nat
    OBVIOUS
  <2>6. \A i \in Nat : i \in T
    <3> HIDE DEF T
    <3>1. QED
      BY <2>3, <2>4, <2>5, EveryNat
  <2>7. g[n] = f[n]
    BY <1>6, <2>6
  <2>8. n + 1 \in 1..n + 1 /\ n + 1 # 1 /\ n + 1 - 1 = n
    BY <1>6
  <2>9. g[n + 1] = g[n] \o more[n + 1]
    <3>1. \A i \in 1..n + 1 : g[i] = IF i = 1 THEN more[i] ELSE g[i - 1] \o more[i]
      BY <1>4
    <3>2. PICK m \in 1..n + 1 : m = n + 1
      BY <2>8
    <3>3. g[m] = IF m = 1 THEN more[m] ELSE g[m - 1] \o more[m]
      BY <3>1
    <3>4. g[n + 1] = IF n + 1 = 1 THEN more[n + 1] ELSE g[n + 1 - 1] \o more[n + 1]
      BY <3>2, <3>3
    <3>5. QED
      BY <2>8, <3>4, Zenon
  <2>10. QED
    BY <1>2, <1>4, <2>2, <2>7, <2>9 DEF more
<1>7. QED
  BY <1>5, <1>6

\* The header lines as they are written.
HeaderLines(headers) == FlattenSeq([i \in 1..Len(headers) |-> headers[i] \o CRLF])

\* The header lines, each with the CR LF it ends with.
LEMMA LinesAre ==
  ASSUME NEW hs \in Seq(Seq(Symbol))
  PROVE  /\ [i \in 1..Len(hs) |-> hs[i] \o CRLF] \in Seq(Seq(Symbol))
         /\ Len([i \in 1..Len(hs) |-> hs[i] \o CRLF]) = Len(hs)
<1>1. Len(hs) \in Nat /\ \A i \in 1..Len(hs) : hs[i] \in Seq(Symbol)
  BY LenProperties, ElementOfSeq
<1>2. \A i \in 1..Len(hs) : hs[i] \o CRLF \in Seq(Symbol)
  BY <1>1, WordsAre, ConcatProperties
<1>3. QED
  BY <1>1, <1>2

\* One header line more is that line more in the buffer.
LEMMA HeaderLinesAppend ==
  ASSUME NEW hs \in Seq(Seq(Symbol)), NEW h \in Seq(Symbol)
  PROVE  HeaderLines(Append(hs, h)) = HeaderLines(hs) \o (h \o CRLF)
<1>1. PICK n \in Nat : n = Len(hs)
  BY LenProperties
<1> DEFINE more == Append(hs, h)
           lines == [i \in 1..Len(hs) |-> hs[i] \o CRLF]
           longer == [i \in 1..Len(more) |-> more[i] \o CRLF]
           x == h \o CRLF
           a == Append(lines, x)
<1>2. x \in Seq(Symbol)
  BY WordsAre, ConcatProperties
<1>3. /\ more \in Seq(Seq(Symbol)) /\ Len(more) = n + 1
      /\ \A i \in 1..n : more[i] = hs[i]
      /\ more[n + 1] = h
  BY <1>1, AppendProperties
<1>4. lines \in Seq(Seq(Symbol)) /\ Len(lines) = n /\ \A i \in 1..n : lines[i] = hs[i] \o CRLF
  BY <1>1, LinesAre
<1>5. longer \in Seq(Seq(Symbol)) /\ Len(longer) = n + 1
      /\ \A i \in 1..n + 1 : longer[i] = more[i] \o CRLF
  <2> HIDE DEF more
  <2>1. QED
    BY <1>3, LinesAre
<1> HIDE DEF more, lines, longer, x
<1>6. /\ a \in Seq(Seq(Symbol)) /\ Len(a) = n + 1
      /\ \A i \in 1..n : a[i] = lines[i]
      /\ a[n + 1] = x
  BY <1>2, <1>4, AppendProperties
<1>7. longer = a
  <2> HIDE DEF a
  <2>1. \A i \in 1..n + 1 : longer[i] = a[i]
    <3>1. SUFFICES ASSUME NEW i \in 1..n + 1 PROVE longer[i] = a[i]
      OBVIOUS
    <3>2. i \in 1..n \/ i = n + 1
      OBVIOUS
    <3>3. CASE i \in 1..n
      BY <1>3, <1>4, <1>5, <1>6, <3>3
    <3>4. CASE i = n + 1
      <4>1. longer[n + 1] = h \o CRLF
        BY <1>3, <1>5, <3>4
      <4>2. QED
        BY <1>6, <3>4, <4>1 DEF x
    <3>5. QED
      BY <3>2, <3>3, <3>4
  <2>2. QED
    BY <1>5, <1>6, <2>1, SeqEqual
<1>8. FlattenSeq(a) = FlattenSeq(lines) \o x
  BY <1>2, <1>4, FlattenAppend
<1>9. QED
  BY <1>7, <1>8 DEF HeaderLines, longer, lines, more, x

\* They are symbols, whatever the headers.
LEMMA HeaderLinesTyped ==
  ASSUME NEW hs \in Seq(Seq(Symbol))
  PROVE  /\ HeaderLines(hs) \in Seq(Symbol)
         /\ HeaderLines(<<>>) = <<>>
<1>1. ASSUME NEW n \in Nat, \A gs \in Seq(Seq(Symbol)) : Len(gs) = n => HeaderLines(gs) \in Seq(Symbol),
             NEW gs \in Seq(Seq(Symbol)), Len(gs) = n + 1
      PROVE  HeaderLines(gs) \in Seq(Symbol)
  <2>1. gs # <<>>
    BY <1>1, EmptySeq
  <2>2. PICK fs \in Seq(Seq(Symbol)), h \in Seq(Symbol) : gs = Append(fs, h)
    BY <2>1, SequenceEmptyOrAppend
  <2>3. Len(fs) = n
    BY <1>1, <2>2, AppendProperties, LenProperties
  <2>4. HeaderLines(fs) \in Seq(Symbol) /\ h \o CRLF \in Seq(Symbol)
    BY <1>1, <2>3, WordsAre, ConcatProperties
  <2>5. HeaderLines(gs) = HeaderLines(fs) \o (h \o CRLF)
    BY <2>2, HeaderLinesAppend
  <2>6. QED
    BY <2>4, <2>5, ConcatProperties
<1>2. HeaderLines(<<>>) = <<>> /\ \A gs \in Seq(Seq(Symbol)) : Len(gs) = 0 => gs = <<>>
  <2>1. Len(<<>>) = 0 /\ \A gs \in Seq(Seq(Symbol)) : Len(gs) = 0 => gs = <<>>
    BY EmptySeq
  <2>2. [i \in 1..Len(<<>>) |-> <<>>[i] \o CRLF] = <<>>
    BY <2>1
  <2>3. QED
    BY <2>1, <2>2 DEF HeaderLines, FlattenSeq
<1> DEFINE T == {n \in Nat : \A gs \in Seq(Seq(Symbol)) : Len(gs) = n => HeaderLines(gs) \in Seq(Symbol)}
<1>3. 0 \in T
  <2>1. <<>> \in Seq(Symbol)
    BY EmptySeq
  <2>2. QED
    BY <1>2, <2>1
<1>4. ASSUME NEW n \in T PROVE n + 1 \in T
  <2>1. n \in Nat /\ n + 1 \in Nat
        /\ \A gs \in Seq(Seq(Symbol)) : Len(gs) = n => HeaderLines(gs) \in Seq(Symbol)
    OBVIOUS
  <2>2. \A gs \in Seq(Seq(Symbol)) : Len(gs) = n + 1 => HeaderLines(gs) \in Seq(Symbol)
    BY <1>1, <2>1
  <2>3. QED
    BY <2>1, <2>2
<1>5. T \in SUBSET Nat
  OBVIOUS
<1>6. \A n \in Nat : n \in T
  <2> HIDE DEF T
  <2>1. QED
    BY <1>3, <1>4, <1>5, EveryNat
<1>7. QED
  BY <1>2, <1>6, LenProperties

-----------------------------------------------------------------------------
(* What one well-formed piece of a message becomes.                        *)

\* The first hit is the one no other comes before.
LEMMA UpToFirst ==
  ASSUME NEW s \in Seq(Symbol), NEW hits \in SUBSET (1..Len(s)), NEW l \in hits,
         \A y \in hits : l <= y
  PROVE  UpTo(hits, s) = [hit |-> TRUE, len |-> l]
<1>1. hits \in SUBSET Nat /\ hits # {}
  BY LenProperties
<1>2. l = Least(hits)
  BY <1>1, LeastIs
<1>3. QED
  BY <1>1, <1>2 DEF UpTo

\* What is in front of a text.
LEMMA InFront ==
  ASSUME NEW a \in Seq(Symbol), NEW u \in Seq(Symbol)
  PROVE  /\ a \o u \in Seq(Symbol) /\ Len(a) \in Nat /\ Len(a) \in 0..Len(a \o u)
         /\ \A i \in 1..Len(a) : i \in 1..Len(a \o u) /\ (a \o u)[i] = a[i]
         /\ SubSeq(a \o u, 1, Len(a)) = a
         /\ After(a \o u, Len(a)) = u
<1>1. /\ a \o u \in Seq(Symbol) /\ Len(a \o u) = Len(a) + Len(u) /\ Len(a) \in Nat /\ Len(u) \in Nat
  BY ConcatProperties, LenProperties
<1>2. \A i \in 1..Len(a) + Len(u) : (a \o u)[i] = IF i <= Len(a) THEN a[i] ELSE u[i - Len(a)]
  BY ConcatProperties
<1>3. 0 \in 0..Len(u) /\ Len(a) + 0 = Len(a) /\ Len(a) \in 0..Len(a)
  BY <1>1
<1>4. SubSeq(a \o u, 1, Len(a)) = SubSeq(a, 1, Len(a))
  BY <1>3, PieceOfFirst
<1>5. After(a \o u, Len(a) + 0) = After(u, 0)
  BY <1>3, PieceOfSecond
<1>6. SubSeq(a, 1, Len(a)) = a /\ After(u, 0) = u
  BY WholePiece
<1>7. After(a \o u, Len(a)) = u
  BY <1>3, <1>5, <1>6
<1>8. ASSUME NEW i \in 1..Len(a) PROVE i \in 1..Len(a \o u) /\ (a \o u)[i] = a[i]
  BY <1>1, <1>2
<1>9. QED
  BY <1>1, <1>4, <1>6, <1>7, <1>8

\* A part of the first line with its space.
LEMMA PartScan ==
  ASSUME NEW w \in Seq(Symbol), \A j \in 1..Len(w) : w[j] # SP, NEW u \in Seq(Symbol)
  PROVE  LET a == w \o <<SP>>
         IN  /\ a \in Seq(Symbol) /\ Len(a) = Len(w) + 1
             /\ Parse1(a \o u, SP) = [hit |-> TRUE, len |-> Len(a)]
<1> DEFINE a == w \o <<SP>>
           s == a \o u
<1>1. <<SP>> \in Seq(Symbol) /\ Len(<<SP>>) = 1 /\ <<SP>>[1] = SP
  BY WordsAre
<1>2. /\ a \in Seq(Symbol) /\ Len(a) = Len(w) + 1 /\ Len(w) \in Nat
  BY <1>1, ConcatProperties, LenProperties
<1>3. \A i \in 1..Len(w) + 1 : a[i] = IF i <= Len(w) THEN w[i] ELSE <<SP>>[i - Len(w)]
  BY <1>1, ConcatProperties
<1>4. (\A i \in 1..Len(w) : a[i] = w[i]) /\ a[Len(w) + 1] = SP
  BY <1>1, <1>2, <1>3
<1> HIDE DEF a
<1>5. /\ s \in Seq(Symbol) /\ Len(a) \in 1..Len(s)
      /\ \A i \in 1..Len(a) : s[i] = a[i]
  BY <1>2, InFront
<1> HIDE DEF s
<1> DEFINE hits == {i \in 1..Len(s) : s[i] = SP}
<1>6. hits \in SUBSET (1..Len(s)) /\ Len(a) \in hits
  BY <1>2, <1>4, <1>5
<1>7. ASSUME NEW y \in hits PROVE Len(a) <= y
  <2>1. y \in 1..Len(s) /\ s[y] = SP /\ Len(s) \in Nat
    BY <1>5, LenProperties
  <2>2. ~ (y <= Len(w))
    BY <1>2, <1>4, <1>5, <2>1
  <2>3. QED
    BY <1>2, <2>1, <2>2
<1> HIDE DEF hits
<1>8. UpTo(hits, s) = [hit |-> TRUE, len |-> Len(a)]
  BY <1>5, <1>6, <1>7, UpToFirst
<1>9. Parse1(s, SP) = UpTo(hits, s)
  BY DEF Parse1, hits
<1>10. QED
  BY <1>2, <1>8, <1>9 DEF a, s

\* A line with its CR LF, in a message whose last line had its own.
LEMMA CRLFScan ==
  ASSUME NEW m, m.assist = FALSE, NEW w \in Seq(Symbol), IsLine(w), NEW u \in Seq(Symbol)
  PROVE  LET a == w \o CRLF
         IN  /\ a \in Seq(Symbol) /\ Len(a) = Len(w) + 2
             /\ ParseCRLF(m, a \o u) = [hit |-> TRUE, len |-> Len(a)]
<1> DEFINE a == w \o CRLF
           s == a \o u
<1>1. PICK e \in Seq(Symbol) : e = CRLF /\ Len(e) = 2 /\ e[1] = CR /\ e[2] = LF
  BY WordsAre
<1>2. /\ a \in Seq(Symbol) /\ Len(a) = Len(w) + 2 /\ Len(w) \in Nat
  <2>1. /\ w \o e \in Seq(Symbol) /\ Len(w \o e) = Len(w) + Len(e) /\ Len(w) \in Nat
    BY ConcatProperties, LenProperties
  <2>2. QED
    BY <1>1, <2>1
<1>3. \A i \in 1..Len(w) + 2 : a[i] = IF i <= Len(w) THEN w[i] ELSE e[i - Len(w)]
  <2>1. \A i \in 1..Len(w) + Len(e) : (w \o e)[i] = IF i <= Len(w) THEN w[i] ELSE e[i - Len(w)]
    BY ConcatProperties
  <2>2. QED
    BY <1>1, <2>1
<1> HIDE DEF a
<1>4. /\ \A i \in 1..Len(w) : a[i] = w[i]
      /\ a[Len(w) + 1] = CR
      /\ a[Len(w) + 2] = LF
  <2>1. ASSUME NEW i \in 1..Len(w) PROVE a[i] = w[i]
    <3>1. i \in 1..Len(w) + 2 /\ i <= Len(w)
      BY <1>2
    <3>2. QED
      BY <1>3, <3>1
  <2>2. PICK p, q : p = Len(w) + 1 /\ q = Len(w) + 2
    OBVIOUS
  <2>3. a[p] = e[p - Len(w)] /\ a[q] = e[q - Len(w)]
    <3>1. p \in 1..Len(w) + 2 /\ q \in 1..Len(w) + 2
      BY <1>2, <2>2
    <3>2. ~ (p <= Len(w)) /\ ~ (q <= Len(w))
      BY <1>2, <2>2
    <3>3. QED
      BY <1>3, <3>1, <3>2
  <2>4. p - Len(w) = 1 /\ q - Len(w) = 2
    BY <1>2, <2>2
  <2>5. QED
    BY <1>1, <2>1, <2>2, <2>3, <2>4
<1>5. /\ s \in Seq(Symbol) /\ Len(a) \in 1..Len(s)
      /\ \A i \in 1..Len(a) : s[i] = a[i]
  BY <1>2, InFront
<1> HIDE DEF s
<1> DEFINE hits == {i \in 1..Len(s) : s[i] = LF /\ (IF i = 1 THEN m.assist ELSE s[i - 1] = CR)}
<1>6. hits \in SUBSET (1..Len(s)) /\ Len(a) \in hits
  <2>1. /\ Len(a) # 1 /\ Len(a) - 1 = Len(w) + 1 /\ Len(a) - 1 \in 1..Len(a)
        /\ Len(a) \in 1..Len(a)
    BY <1>2
  <2>2. s[Len(a)] = LF /\ s[Len(a) - 1] = CR
    BY <1>2, <1>4, <1>5, <2>1
  <2>3. QED
    BY <1>5, <2>1, <2>2
<1>7. ASSUME NEW y \in hits PROVE Len(a) <= y
  <2>1. y \in 1..Len(s) /\ s[y] = LF /\ y # 1 /\ s[y - 1] = CR /\ Len(s) \in Nat
    <3>1. Len(s) \in Nat
      BY <1>5, LenProperties
    <3>2. QED
      BY <3>1
  <2>2. ~ (y <= Len(w))
    <3>1. ASSUME y <= Len(w) PROVE FALSE
      <4>1. y \in 1..Len(w) /\ y - 1 \in 1..Len(w) - 1 /\ y - 1 + 1 = y
        BY <1>2, <2>1, <3>1
      <4>2. PICK z \in 1..Len(w) - 1 : z = y - 1 /\ z + 1 = y /\ z \in 1..Len(w) /\ z \in 1..Len(a)
                                     /\ y \in 1..Len(a)
        BY <1>2, <4>1
      <4>3. w[y] = LF /\ w[z] = CR
        BY <1>4, <1>5, <2>1, <4>1, <4>2
      <4>4. QED
        BY <4>2, <4>3 DEF IsLine
    <3>2. QED
      BY <3>1
  <2>3. y # Len(w) + 1
    <3>1. CR # LF /\ Len(w) + 1 \in 1..Len(a)
      BY <1>2, SymbolsAre
    <3>2. QED
      BY <1>4, <1>5, <2>1, <3>1
  <2>4. QED
    BY <1>2, <2>1, <2>2, <2>3
<1> HIDE DEF hits
<1>8. UpTo(hits, s) = [hit |-> TRUE, len |-> Len(a)]
  BY SMTT(30), <1>5, <1>6, <1>7, UpToFirst
<1>9. ParseCRLF(m, s) = UpTo(hits, s)
  BY DEF ParseCRLF, hits
<1>10. QED
  BY <1>2, <1>8, <1>9 DEF a, s

\* What the buffer holds at a position, which more in the buffer does not change.
Holds(c, b, e, w) ==
  b \in Nat /\ e \in Nat /\ b <= e /\ e <= Len(c) /\ SubSeq(c, b + 1, e) = w

\* What a buffer holds, it still holds when something is written behind it.
LEMMA HoldsLonger ==
  ASSUME NEW c \in Seq(Symbol), NEW d \in Seq(Symbol), NEW b, NEW e, NEW w, Holds(c, b, e, w)
  PROVE  Holds(c \o d, b, e, w)
<1>1. /\ b \in Nat /\ e \in Nat /\ b <= e /\ e <= Len(c) /\ SubSeq(c, b + 1, e) = w
      /\ Len(c) \in Nat /\ Len(d) \in Nat /\ Len(c \o d) = Len(c) + Len(d)
  BY LenProperties, ConcatProperties DEF Holds
<1>2. SubSeq(c \o d, b + 1, e) = SubSeq(c, b + 1, e)
  BY <1>1, SubSeqOfConcat1
<1>3. QED
  BY <1>1, <1>2 DEF Holds

\* What is written last lies where the buffer ended.
LEMMA HoldsLast ==
  ASSUME NEW c \in Seq(Symbol), NEW w \in Seq(Symbol), NEW d \in Seq(Symbol)
  PROVE  Holds(c \o (w \o d), Len(c), Len(c) + Len(w), w)
<1> DEFINE wd == w \o d
<1>1. /\ wd \in Seq(Symbol) /\ Len(wd) = Len(w) + Len(d)
      /\ Len(w) \in Nat /\ Len(d) \in Nat /\ Len(c) \in Nat
  BY ConcatProperties, LenProperties
<1>2. SubSeq(wd, 1, Len(w)) = w
  BY InFront
<1> HIDE DEF wd
<1>3. Len(c \o wd) = Len(c) + Len(wd) /\ c \o wd \in Seq(Symbol)
  BY <1>1, ConcatProperties
<1>4. SubSeq(c \o wd, Len(c) + 1, Len(c) + Len(w)) = SubSeq(wd, 1, Len(w))
  <2> DEFINE cw == c \o wd
             p == SubSeq(cw, Len(c) + 1, Len(c) + Len(w))
             q == SubSeq(wd, 1, Len(w))
  <2>1. After(cw, Len(c)) = wd
    BY <1>1, InFront
  <2>2. \A i \in 1..Len(c) + Len(wd) : cw[i] = IF i <= Len(c) THEN c[i] ELSE wd[i - Len(c)]
    BY <1>1, ConcatProperties
  <2>3. cw \in Seq(Symbol) /\ Len(cw) = Len(c) + Len(wd)
    BY <1>3
  <2> HIDE DEF cw
  <2>4. \A i \in 1..Len(cw) : cw[i] \in Symbol
    BY <2>3, ElementOfSeq
  <2>5. /\ p \in Seq(Symbol) /\ Len(p) = Len(w)
        /\ \A i \in 1..Len(w) : p[i] = cw[Len(c) + i]
    <3>1. Len(c) + 1 \in Int /\ Len(c) + Len(w) \in Int
          /\ \A i \in Len(c) + 1..Len(c) + Len(w) : cw[i] \in Symbol
      BY <1>1, <2>3, <2>4
    <3>2. /\ p \in Seq(Symbol)
          /\ Len(p) = IF Len(c) + 1 <= Len(c) + Len(w) THEN Len(c) + Len(w) - (Len(c) + 1) + 1 ELSE 0
          /\ \A i \in 1..Len(c) + Len(w) - (Len(c) + 1) + 1 : p[i] = cw[Len(c) + 1 + i - 1]
      BY <3>1, SubSeqProperties
    <3>3. QED
      BY <1>1, <3>2
  <2>6. /\ q \in Seq(Symbol) /\ Len(q) = Len(w)
        /\ \A i \in 1..Len(w) : q[i] = wd[i]
    BY <1>1, Pieces
  <2> HIDE DEF p, q
  <2>7. ASSUME NEW i \in 1..Len(w) PROVE p[i] = q[i]
    <3>1. PICK j \in 1..Len(c) + Len(wd) : j = Len(c) + i /\ ~ (j <= Len(c)) /\ j - Len(c) = i
      <4>1. Len(c) + i \in 1..Len(c) + Len(wd)
        BY <1>1
      <4>2. ~ (Len(c) + i <= Len(c)) /\ Len(c) + i - Len(c) = i
        BY <1>1
      <4>3. QED
        BY <4>1, <4>2
    <3>2. cw[j] = wd[j - Len(c)]
      BY <2>2, <3>1
    <3>3. QED
      BY <2>5, <2>6, <3>1, <3>2
  <2>8. p = q
    BY <2>5, <2>6, <2>7, SeqEqual
  <2>9. QED
    BY <2>8 DEF p, q, cw
<1>5. QED
  BY <1>1, <1>2, <1>3, <1>4 DEF Holds, wd

-----------------------------------------------------------------------------
(* A well-formed message in the parser, piece by piece.                    *)

\* Before its i-th part, after n header lines, and before its body.
AtPart(m, k, r, i) ==
  /\ Kept(m) /\ m.kind = k /\ m.flag = Parts(k)[i] /\ m.assist = FALSE
  /\ m.body = Pos(0, 0) /\ m.vec = <<>> /\ m.line[i].beg = Len(m.buffer)
  /\ \A j \in 1..i - 1 : Holds(m.buffer, m.line[j].beg, m.line[j].end, r.line[j])

\* The parts of the first line, and the first n header lines, are in the buffer
\* where the message says they are.
LinesHold(m, r) ==
  \A j \in 1..3 : Holds(m.buffer, m.line[j].beg, m.line[j].end, r.line[j])
HeadersHold(m, r, n) ==
  \A j \in 1..n : Holds(m.buffer, m.vec[j].beg, m.vec[j].end - 2, r.headers[j])

\* Before its next header line.
AtHeader(m, k, r, n) ==
  /\ Kept(m) /\ m.kind = k /\ m.flag = "HEAD" /\ m.assist = FALSE
  /\ m.body = Pos(0, 0) /\ m.header2.beg = Len(m.buffer) /\ Len(m.vec) = n
  /\ LinesHold(m, r) /\ HeadersHold(m, r, n)

\* Before its body.
AtBody(m, k, r) ==
  /\ Kept(m) /\ m.kind = k /\ m.flag = "BODY" /\ m.bodysize = -1 /\ m.body = Pos(0, 0)
  /\ Len(m.vec) = Len(r.headers) + 1
  /\ LinesHold(m, r) /\ HeadersHold(m, r, Len(r.headers))
  /\ Holds(m.buffer, m.vec[Len(r.headers) + 1].beg, m.vec[Len(r.headers) + 1].end - 2, <<>>)
  /\ m.buffer[m.vec[Len(r.headers) + 1].beg + 1] = CR

\* From m, with s to parse, the parser gets to u: at the i-th part of r, after l
\* of its header lines, before its body.
PartLeads(m, s, u, k, r, i) ==
  \E n : AtPart(n, k, r, i) /\ ParseOf([msg |-> m, rest |-> s]) = ParseOf([msg |-> n, rest |-> u])
HeaderLeads(m, s, u, k, r, l) ==
  \E n : AtHeader(n, k, r, l) /\ ParseOf([msg |-> m, rest |-> s]) = ParseOf([msg |-> n, rest |-> u])
BodyLeads(m, s, u, k, r) ==
  \E n : AtBody(n, k, r) /\ ParseOf([msg |-> m, rest |-> s]) = ParseOf([msg |-> n, rest |-> u])

\* A round that leaves something else to do.
LEMMA RoundGoes ==
  ASSUME NEW m, Kept(m), m.flag # "OVER", NEW s \in Seq(Symbol), s # <<>>,
         NEW n, NEW u, ParseRound([msg |-> m, rest |-> s]) = [msg |-> n, rest |-> u]
  PROVE  /\ ParseOf([msg |-> m, rest |-> s]) = ParseOf([msg |-> n, rest |-> u])
         /\ Kept(n) /\ n.kind = m.kind
<1> DEFINE x == [msg |-> m, rest |-> s]
<1>1. Underway(x) /\ x.msg = m
  BY DEF Underway
<1>2. ParseOf(ParseRound(x)) = ParseOf(x)
  BY <1>1, ParseDoesRound
<1>3. Underway(ParseRound(x)) /\ ParseRound(x).msg.kind = m.kind
  BY <1>1, RoundRuns
<1>4. Kept(n) /\ n.kind = m.kind
  BY <1>3 DEF Underway
<1>5. QED
  BY <1>2, <1>4

\* The message w that m becomes when a is written.
WroteAll(w, m, a) ==
  /\ w \in Messages /\ w.buffer = m.buffer \o a /\ Len(w.buffer) = Len(m.buffer) + Len(a)
  /\ Len(m.buffer) \in Nat /\ m.buffer \in Seq(Symbol)
  /\ w.flag = m.flag /\ w.kind = m.kind /\ w.assist = m.assist /\ w.line = m.line
  /\ w.header2 = m.header2 /\ w.vec = m.vec /\ w.body = m.body /\ w.bodysize = m.bodysize

\* Writing all of the text in front.
LEMMA WriteInFront ==
  ASSUME NEW m \in Messages, NEW a \in Seq(Symbol), NEW u \in Seq(Symbol), NEW w,
         w = Write(m, a \o u, Len(a))
  PROVE  WroteAll(w, m, a)
<1> DEFINE s == a \o u
<1>1. s \in Seq(Symbol) /\ Len(a) \in 0..Len(s) /\ SubSeq(s, 1, Len(a)) = a
  BY InFront
<1>2. m.buffer \in Seq(Symbol)
  BY DEF Messages
<1>3. w = Write(m, s, Len(a))
  BY DEF s
<1> HIDE DEF s
<1>4. LET x == Write(m, s, Len(a))
      IN  /\ x \in Messages /\ x.buffer = m.buffer \o SubSeq(s, 1, Len(a))
          /\ Len(x.buffer) = Len(m.buffer) + Len(a) /\ Len(m.buffer) \in Nat
          /\ x.flag = m.flag /\ x.kind = m.kind /\ x.assist = m.assist /\ x.line = m.line
          /\ x.header2 = m.header2 /\ x.vec = m.vec /\ x.body = m.body /\ x.bodysize = m.bodysize
  BY <1>1, Written
<1>5. QED
  BY <1>1, <1>2, <1>3, <1>4 DEF WroteAll

\* A cleared message waits for the first part.
LEMMA FirstPart ==
  ASSUME NEW k \in {"svr", "cli"}, NEW r
  PROVE  AtPart(Cleared(k), k, r, 1)
<1>1. /\ Cleared(k).flag = Parts(k)[1] /\ Cleared(k).assist = FALSE /\ Cleared(k).body = Pos(0, 0)
      /\ Cleared(k).vec = <<>> /\ Cleared(k).buffer = <<>> /\ Cleared(k).line[1] = Pos(0, 0)
  BY DEF Cleared
<1>2. Pos(0, 0).beg = 0 /\ Len(<<>>) = 0
  BY EmptySeq DEF Pos
<1>3. QED
  BY <1>1, <1>2, ClearedKept DEF AtPart

\* The first two parts.
LEMMA PartGoes ==
  ASSUME NEW k \in {"svr", "cli"}, NEW r \in MessageOf, NEW i \in 1..2, NEW m, AtPart(m, k, r, i),
         \A j \in 1..Len(r.line[i]) : r.line[i][j] # SP, NEW u \in Seq(Symbol)
  PROVE  PartLeads(m, (r.line[i] \o <<SP>>) \o u, u, k, r, i + 1)
<1>1. PICK w \in Seq(Symbol) : w = r.line[i]
  BY DEF MessageOf
<1> DEFINE a == w \o <<SP>>
           s == a \o u
           v == Write(m, s, Len(a))
           n == EndPart(i, v)
<1>2. /\ a \in Seq(Symbol) /\ Len(a) = Len(w) + 1
      /\ Parse1(s, SP) = [hit |-> TRUE, len |-> Len(a)]
  BY <1>1, PartScan
<1>3. m \in Messages /\ Kept(m) /\ m.kind = k /\ m.flag = Parts(k)[i]
  BY DEF AtPart, Kept
<1>4. m.flag # "OVER"
  BY <1>3, PartFlags
<1>5. Holds(m.buffer \o a, Len(m.buffer), Len(m.buffer) + Len(w), w)
  BY <1>3, HoldsLast, WordsAre DEF Messages
<1>6. s \in Seq(Symbol) /\ After(s, Len(a)) = u /\ Len(w) \in Nat
  BY <1>2, InFront, LenProperties
<1>7. s # <<>>
  BY <1>2, <1>6, InFront, EmptySeq
<1>8. /\ v \in Messages /\ v.buffer = m.buffer \o a /\ Len(v.buffer) = Len(m.buffer) + Len(a)
      /\ Len(m.buffer) \in Nat /\ m.buffer \in Seq(Symbol)
      /\ v.flag = m.flag /\ v.kind = m.kind /\ v.assist = m.assist /\ v.line = m.line
      /\ v.vec = m.vec /\ v.body = m.body
  <2>1. a \in Seq(Symbol) /\ m \in Messages
    BY <1>2, <1>3
  <2>2. v = Write(m, a \o u, Len(a))
    OBVIOUS
  <2> HIDE DEF a, v
  <2>3. WroteAll(v, m, a)
    BY <2>1, <2>2, WriteInFront
  <2>4. QED
    BY <2>3 DEF WroteAll
<1>9. ParseRound([msg |-> m, rest |-> s]) = [msg |-> n, rest |-> u]
  <2>1. ParseRound([msg |-> m, rest |-> s]) = ParsePart(i, m, s)
    BY <1>3, <1>7, RoundIs
  <2>2. ParsePart(i, m, s) = [msg |-> EndPart(i, Write(m, s, Len(a))), rest |-> After(s, Len(a))]
    BY <1>2 DEF ParsePart
  <2>3. QED
    BY <1>6, <2>1, <2>2
<1> HIDE DEF s
<1>10. /\ ParseOf([msg |-> m, rest |-> s]) = ParseOf([msg |-> n, rest |-> u])
       /\ Kept(n) /\ n.kind = m.kind
  BY <1>3, <1>4, <1>6, <1>7, <1>9, RoundGoes
<1>11. /\ n.buffer = v.buffer /\ n.assist = v.assist /\ n.vec = v.vec /\ n.body = v.body
       /\ n.flag = Parts(v.kind)[i + 1]
       /\ n.line[i] = Pos(v.line[i].beg, Len(v.buffer) - 1)
       /\ n.line[i + 1] = Pos(Len(v.buffer), v.line[i + 1].end)
       /\ \A j \in 1..3 : j # i /\ j # i + 1 => n.line[j] = v.line[j]
  BY <1>8, EndPartIs
<1> HIDE DEF n, v, a
<1>12. m.line[i].beg = Len(m.buffer) /\ m.assist = FALSE /\ m.body = Pos(0, 0) /\ m.vec = <<>>
       /\ \A j \in 1..i - 1 : Holds(m.buffer, m.line[j].beg, m.line[j].end, r.line[j])
  BY DEF AtPart
<1>13. /\ n.line[i].beg = Len(m.buffer) /\ n.line[i].end = Len(m.buffer) + Len(w)
       /\ n.line[i + 1].beg = Len(n.buffer)
  <2>1. /\ n.line[i].beg = v.line[i].beg /\ n.line[i].end = Len(v.buffer) - 1
        /\ n.line[i + 1].beg = Len(v.buffer)
    BY <1>11 DEF Pos
  <2>2. Len(v.buffer) - 1 = Len(m.buffer) + Len(w)
    <3>1. PICK x, y \in Nat : x = Len(m.buffer) /\ y = Len(w)
      BY <1>6, <1>8
    <3>2. Len(v.buffer) = x + (y + 1)
      BY <1>2, <1>8, <3>1
    <3>3. x + (y + 1) - 1 = x + y
      BY <3>1
    <3>4. Len(v.buffer) - 1 = x + (y + 1) - 1
      BY <3>2
    <3>5. x + y = Len(m.buffer) + Len(w)
      BY <3>1
    <3>6. QED
      BY <3>3, <3>4, <3>5
  <2>3. QED
    BY <1>8, <1>11, <1>12, <2>1, <2>2
<1>14. \A j \in 1..i : Holds(n.buffer, n.line[j].beg, n.line[j].end, r.line[j])
  <2>1. SUFFICES ASSUME NEW j \in 1..i
                 PROVE  Holds(n.buffer, n.line[j].beg, n.line[j].end, r.line[j])
    OBVIOUS
  <2>2. CASE j = i
    BY <1>1, <1>5, <1>8, <1>11, <1>13, <2>2
  <2>3. CASE j # i
    <3>1. j \in 1..i - 1 /\ j \in 1..3 /\ j # i + 1
      BY <2>3
    <3>2. n.line[j] = m.line[j] /\ Holds(m.buffer, m.line[j].beg, m.line[j].end, r.line[j])
      BY <1>8, <1>11, <1>12, <2>3, <3>1
    <3>3. QED
      BY <1>2, <1>8, <1>11, <3>2, HoldsLonger
  <2>4. QED
    BY <2>2, <2>3
<1>15. i + 1 - 1 = i
  OBVIOUS
<1>16. AtPart(n, k, r, i + 1)
  BY <1>3, <1>8, <1>10, <1>11, <1>12, <1>13, <1>14, <1>15 DEF AtPart
<1>17. QED
  BY <1>1, <1>10, <1>16 DEF s, a, PartLeads

\* The last part.
LEMMA Part3Goes ==
  ASSUME NEW k \in {"svr", "cli"}, NEW r \in MessageOf, NEW m, AtPart(m, k, r, 3),
         IsLine(r.line[3]), NEW u \in Seq(Symbol)
  PROVE  HeaderLeads(m, (r.line[3] \o CRLF) \o u, u, k, r, 0)
<1>1. PICK w \in Seq(Symbol) : w = r.line[3]
  BY DEF MessageOf
<1> DEFINE a == w \o CRLF
           s == a \o u
           v == Write(m, s, Len(a))
           n == EndFirstLine(v)
<1>2. /\ a \in Seq(Symbol) /\ Len(a) = Len(w) + 2
      /\ ParseCRLF(m, s) = [hit |-> TRUE, len |-> Len(a)]
  <2>1. m.assist = FALSE /\ IsLine(w)
    BY <1>1 DEF AtPart
  <2>2. QED
    BY <2>1, CRLFScan
<1>3. m \in Messages /\ Kept(m) /\ m.kind = k /\ m.flag = Parts(k)[3]
  BY DEF AtPart, Kept
<1>4. m.flag # "OVER"
  BY <1>3, PartFlags
<1>5. Holds(m.buffer \o a, Len(m.buffer), Len(m.buffer) + Len(w), w)
  BY <1>3, HoldsLast, WordsAre DEF Messages
<1>6. s \in Seq(Symbol) /\ After(s, Len(a)) = u /\ Len(w) \in Nat
  BY <1>2, InFront, LenProperties
<1>7. s # <<>>
  BY <1>2, <1>6, InFront, EmptySeq
<1>8. /\ v \in Messages /\ v.buffer = m.buffer \o a /\ Len(v.buffer) = Len(m.buffer) + Len(a)
      /\ Len(m.buffer) \in Nat /\ m.buffer \in Seq(Symbol)
      /\ v.flag = m.flag /\ v.kind = m.kind /\ v.line = m.line
      /\ v.vec = m.vec /\ v.body = m.body
  <2>1. a \in Seq(Symbol) /\ m \in Messages
    BY <1>2, <1>3
  <2>2. v = Write(m, a \o u, Len(a))
    OBVIOUS
  <2> HIDE DEF a, v
  <2>3. WroteAll(v, m, a)
    BY <2>1, <2>2, WriteInFront
  <2>4. QED
    BY <2>3 DEF WroteAll
<1>9. ParseRound([msg |-> m, rest |-> s]) = [msg |-> n, rest |-> u]
  <2>1. ParseRound([msg |-> m, rest |-> s]) = ParsePart3(m, s)
    BY <1>3, <1>7, RoundIs
  <2>2. ParsePart3(m, s) = [msg |-> EndFirstLine(Write(m, s, Len(a))), rest |-> After(s, Len(a))]
    BY <1>2 DEF ParsePart3
  <2>3. QED
    BY <1>6, <2>1, <2>2
<1> HIDE DEF s
<1>10. /\ ParseOf([msg |-> m, rest |-> s]) = ParseOf([msg |-> n, rest |-> u])
       /\ Kept(n) /\ n.kind = m.kind
  BY <1>3, <1>4, <1>6, <1>7, <1>9, RoundGoes
<1>11. /\ n.buffer = v.buffer /\ n.assist = FALSE /\ n.vec = v.vec /\ n.body = v.body
       /\ n.flag = "HEAD" /\ n.header2 = Pos(Len(v.buffer), v.header2.end)
       /\ n.line[3] = Pos(v.line[3].beg, Len(v.buffer) - 2)
       /\ \A j \in 1..2 : n.line[j] = v.line[j]
  BY <1>8, EndFirstLineIs
<1> HIDE DEF n, v, a
<1>12. m.line[3].beg = Len(m.buffer) /\ m.body = Pos(0, 0) /\ m.vec = <<>>
       /\ \A j \in 1..3 - 1 : Holds(m.buffer, m.line[j].beg, m.line[j].end, r.line[j])
  BY DEF AtPart
<1>13. /\ n.line[3].beg = Len(m.buffer) /\ n.line[3].end = Len(m.buffer) + Len(w)
       /\ n.header2.beg = Len(n.buffer)
  <2>1. /\ n.line[3].beg = v.line[3].beg /\ n.line[3].end = Len(v.buffer) - 2
        /\ n.header2.beg = Len(v.buffer)
    BY <1>11 DEF Pos
  <2>2. Len(v.buffer) - 2 = Len(m.buffer) + Len(w)
    <3>1. PICK x, y \in Nat : x = Len(m.buffer) /\ y = Len(w)
      BY <1>6, <1>8
    <3>2. Len(v.buffer) = x + (y + 2)
      BY <1>2, <1>8, <3>1
    <3>3. x + (y + 2) - 2 = x + y
      BY <3>1
    <3>4. Len(v.buffer) - 2 = x + (y + 2) - 2
      BY <3>2
    <3>5. x + y = Len(m.buffer) + Len(w)
      BY <3>1
    <3>6. QED
      BY <3>3, <3>4, <3>5
  <2>3. QED
    BY <1>8, <1>11, <1>12, <2>1, <2>2
<1>14. LinesHold(n, r)
  <2>1. SUFFICES ASSUME NEW j \in 1..3
                 PROVE  Holds(n.buffer, n.line[j].beg, n.line[j].end, r.line[j])
    BY DEF LinesHold
  <2>2. CASE j = 3
    BY <1>1, <1>5, <1>8, <1>11, <1>13, <2>2
  <2>3. CASE j # 3
    <3>1. j \in 1..3 - 1 /\ j \in 1..2
      BY <2>3
    <3>2. n.line[j] = m.line[j] /\ Holds(m.buffer, m.line[j].beg, m.line[j].end, r.line[j])
      BY <1>8, <1>11, <1>12, <3>1
    <3>3. QED
      BY <1>2, <1>8, <1>11, <3>2, HoldsLonger
  <2>4. QED
    BY <2>2, <2>3
<1>15. Len(n.vec) = 0 /\ HeadersHold(n, r, 0)
  BY <1>8, <1>11, <1>12, EmptySeq DEF HeadersHold
<1>16. AtHeader(n, k, r, 0)
  BY <1>3, <1>8, <1>10, <1>11, <1>12, <1>13, <1>14, <1>15 DEF AtHeader
<1>17. QED
  BY <1>1, <1>10, <1>16 DEF s, a, HeaderLeads

\* The message n that m becomes with one more header line, w.
WithLine(m, n, w) ==
  /\ Kept(n) /\ n.kind = m.kind /\ n.assist = FALSE /\ n.line = m.line /\ n.body = m.body
  /\ n.bodysize = -1 /\ w \o CRLF \in Seq(Symbol) /\ n.buffer = m.buffer \o (w \o CRLF)
  /\ Len(m.buffer) \in Nat /\ m.buffer \in Seq(Symbol) /\ m.vec \in Seq(Position)
  /\ n.vec = Append(m.vec, Pos(Len(m.buffer), Len(m.buffer) + (Len(w) + 2)))
  /\ w # <<>> => n.flag = "HEAD" /\ n.header2.beg = Len(n.buffer)
  /\ w = <<>> => n.flag = "BODY"
  /\ Holds(n.buffer, Len(m.buffer), Len(m.buffer) + Len(w), w)

\* A line with its CR LF, parsed as a header line.
LEMMA LineGoes ==
  ASSUME NEW m, Kept(m), m.flag = "HEAD", m.assist = FALSE, m.header2.beg = Len(m.buffer),
         NEW w \in Seq(Symbol), IsLine(w), NEW u \in Seq(Symbol)
  PROVE  \E n : /\ WithLine(m, n, w)
                /\ ParseOf([msg |-> m, rest |-> (w \o CRLF) \o u])
                     = ParseOf([msg |-> n, rest |-> u])
<1> DEFINE a == w \o CRLF
           s == a \o u
           v == Write(m, s, Len(a))
           n == EndHeader(v)
<1>1. /\ a \in Seq(Symbol) /\ Len(a) = Len(w) + 2
      /\ ParseCRLF(m, s) = [hit |-> TRUE, len |-> Len(a)]
  BY CRLFScan
<1>2. m \in Messages /\ m.flag # "OVER" /\ m.bodysize = -1 /\ m.vec \in Seq(Position)
  BY DEF Kept, Messages
<1>3. Holds(m.buffer \o a, Len(m.buffer), Len(m.buffer) + Len(w), w)
  BY <1>2, HoldsLast, WordsAre DEF Messages
<1>4. s \in Seq(Symbol) /\ After(s, Len(a)) = u /\ Len(w) \in Nat
  BY <1>1, InFront, LenProperties
<1>5. s # <<>>
  BY <1>1, <1>4, InFront, EmptySeq
<1>6. /\ v \in Messages /\ v.buffer = m.buffer \o a /\ Len(v.buffer) = Len(m.buffer) + Len(a)
      /\ Len(m.buffer) \in Nat /\ m.buffer \in Seq(Symbol)
      /\ v.flag = m.flag /\ v.kind = m.kind /\ v.line = m.line
      /\ v.header2 = m.header2 /\ v.vec = m.vec /\ v.body = m.body /\ v.bodysize = m.bodysize
  <2>1. a \in Seq(Symbol) /\ m \in Messages
    BY <1>1, <1>2
  <2>2. v = Write(m, a \o u, Len(a))
    OBVIOUS
  <2> HIDE DEF a, v
  <2>3. WroteAll(v, m, a)
    BY <2>1, <2>2, WriteInFront
  <2>4. QED
    BY <2>3 DEF WroteAll
<1>7. ParseRound([msg |-> m, rest |-> s]) = [msg |-> n, rest |-> u]
  <2>1. ParseRound([msg |-> m, rest |-> s]) = ParseHead(m, s)
    BY <1>5, RoundIs
  <2>2. ParseHead(m, s) = [msg |-> EndHeader(Write(m, s, Len(a))), rest |-> After(s, Len(a))]
    BY <1>1 DEF ParseHead
  <2>3. QED
    BY <1>4, <2>1, <2>2
<1> HIDE DEF s
<1>8. /\ ParseOf([msg |-> m, rest |-> s]) = ParseOf([msg |-> n, rest |-> u])
      /\ Kept(n) /\ n.kind = m.kind
  BY SMTT(30), <1>2, <1>4, <1>5, <1>7, RoundGoes
<1>9. /\ n.buffer = v.buffer /\ n.assist = FALSE /\ n.line = v.line /\ n.body = v.body
      /\ n.bodysize = v.bodysize
      /\ n.vec = Append(v.vec, Pos(v.header2.beg, Len(v.buffer)))
      /\ v.header2.beg + 2 = Len(v.buffer) => n.flag = "BODY"
      /\ v.header2.beg + 2 # Len(v.buffer) => n.flag = "HEAD" /\ n.header2 = Pos(Len(v.buffer), 0)
  BY <1>6, EndHeaderIs
<1> HIDE DEF n, v
<1>10. PICK x, y \in Nat : x = Len(m.buffer) /\ y = Len(w)
  BY <1>4, <1>6
<1>11. Len(v.buffer) = x + (y + 2) /\ v.header2.beg = x
  BY <1>1, <1>6, <1>10
<1>12. w # <<>> => y > 0
  BY <1>10, EmptySeq
<1>13. w = <<>> => y = 0
  BY <1>10, EmptySeq
<1>14. w # <<>> => n.flag = "HEAD" /\ n.header2.beg = Len(n.buffer)
  <2>1. SUFFICES ASSUME w # <<>> PROVE n.flag = "HEAD" /\ n.header2.beg = Len(n.buffer)
    OBVIOUS
  <2>2. x + 2 # x + (y + 2)
    <3>1. y > 0 /\ x \in Nat /\ y \in Nat
      BY <1>10, <1>12, <2>1
    <3>2. QED
      BY <3>1
  <2>3. v.header2.beg + 2 # Len(v.buffer)
    BY <1>11, <2>2
  <2>4. QED
    BY <1>9, <2>3 DEF Pos
<1>15. w = <<>> => n.flag = "BODY"
  <2>1. SUFFICES ASSUME w = <<>> PROVE n.flag = "BODY"
    OBVIOUS
  <2>2. x + 2 = x + (y + 2)
    BY <1>10, <1>13, <2>1
  <2>3. v.header2.beg + 2 = Len(v.buffer)
    BY <1>11, <2>2
  <2>4. QED
    BY <1>9, <2>3
<1>16. n.vec = Append(m.vec, Pos(Len(m.buffer), Len(m.buffer) + (Len(w) + 2)))
  BY <1>6, <1>9, <1>10, <1>11
<1>17. /\ n.assist = FALSE /\ n.line = m.line /\ n.body = m.body /\ n.bodysize = -1
       /\ n.buffer = m.buffer \o a
       /\ Len(m.buffer) \in Nat /\ m.buffer \in Seq(Symbol) /\ m.vec \in Seq(Position)
       /\ a \in Seq(Symbol)
       /\ Holds(n.buffer, Len(m.buffer), Len(m.buffer) + Len(w), w)
  BY <1>1, <1>2, <1>3, <1>6, <1>9
<1>18. WithLine(m, n, w)
  BY <1>8, <1>14, <1>15, <1>16, <1>17 DEF WithLine
<1> HIDE DEF a
<1>19. QED
  BY <1>8, <1>18 DEF a, s

\* What the parser holds stays when more is written.
LEMMA LinesHoldLonger ==
  ASSUME NEW m, NEW n, NEW r, NEW d \in Seq(Symbol), m.buffer \in Seq(Symbol),
         n.buffer = m.buffer \o d, n.line = m.line, LinesHold(m, r)
  PROVE  LinesHold(n, r)
<1>1. SUFFICES ASSUME NEW j \in 1..3
               PROVE  Holds(n.buffer, n.line[j].beg, n.line[j].end, r.line[j])
  BY DEF LinesHold
<1>2. Holds(m.buffer, m.line[j].beg, m.line[j].end, r.line[j])
  BY DEF LinesHold
<1>3. QED
  BY <1>2, HoldsLonger

\* One more header line keeps what is held, and is held itself.
LEMMA WithLineHolds ==
  ASSUME NEW m, NEW n, NEW w \in Seq(Symbol), WithLine(m, n, w), NEW r, NEW l \in Nat,
         Len(m.vec) = l, LinesHold(m, r), HeadersHold(m, r, l)
  PROVE  /\ LinesHold(n, r) /\ HeadersHold(n, r, l) /\ Len(n.vec) = l + 1
         /\ n.vec[l + 1].beg = Len(m.buffer)
         /\ Holds(n.buffer, n.vec[l + 1].beg, n.vec[l + 1].end - 2, w)
<1> DEFINE d == w \o CRLF
           p == Pos(Len(m.buffer), Len(m.buffer) + (Len(w) + 2))
<1>1. /\ d \in Seq(Symbol) /\ n.buffer = m.buffer \o d /\ n.line = m.line
      /\ Len(m.buffer) \in Nat /\ m.buffer \in Seq(Symbol) /\ m.vec \in Seq(Position)
      /\ n.vec = Append(m.vec, p)
      /\ Holds(n.buffer, Len(m.buffer), Len(m.buffer) + Len(w), w)
  BY DEF WithLine
<1> HIDE DEF d
<1>2. PICK x \in Nat, y \in Nat : x = Len(m.buffer) /\ y = Len(w)
  BY <1>1, LenProperties
<1>3. p = Pos(x, x + (y + 2))
  BY <1>2
<1> HIDE DEF p
<1>4. x + (y + 2) \in Int /\ x + (y + 2) - 2 = x + y
  <2>1. x \in Nat /\ y \in Nat
    OBVIOUS
  <2>2. QED
    BY ONLY <2>1
<1>5. p \in Position /\ p.beg = x /\ p.end = x + (y + 2)
  BY <1>3, <1>4 DEF Pos, Position
<1>6. p.end - 2 = x + y
  <2>1. p.end - 2 = x + (y + 2) - 2
    BY <1>5
  <2>2. QED
    BY <1>4, <2>1
<1>7. /\ Len(n.vec) = l + 1 /\ n.vec[l + 1] = p
      /\ \A j \in 1..l : n.vec[j] = m.vec[j]
  BY <1>1, <1>5, AppendProperties
<1>8. ASSUME NEW j \in 1..l
      PROVE  Holds(n.buffer, n.vec[j].beg, n.vec[j].end - 2, r.headers[j])
  <2>1. Holds(m.buffer, m.vec[j].beg, m.vec[j].end - 2, r.headers[j])
    BY DEF HeadersHold
  <2>2. n.vec[j] = m.vec[j]
    BY <1>7
  <2>3. QED
    BY <1>1, <2>1, <2>2, HoldsLonger
<1>9. LinesHold(n, r)
  BY <1>1, LinesHoldLonger
<1>10. HeadersHold(n, r, l)
  BY <1>8 DEF HeadersHold
<1>11. QED
  BY <1>1, <1>2, <1>5, <1>6, <1>7, <1>9, <1>10

\* One header line.
LEMMA HeaderGoes ==
  ASSUME NEW k \in {"svr", "cli"}, NEW r \in MessageOf, NEW l \in Nat, l < Len(r.headers),
         NEW m, AtHeader(m, k, r, l), IsLine(r.headers[l + 1]), r.headers[l + 1] # <<>>,
         NEW u \in Seq(Symbol)
  PROVE  HeaderLeads(m, (r.headers[l + 1] \o CRLF) \o u, u, k, r, l + 1)
<1>1. PICK w \in Seq(Symbol) : w = r.headers[l + 1]
  <2>1. r.headers \in Seq(Seq(Symbol)) /\ Len(r.headers) \in Nat
    BY LenProperties DEF MessageOf
  <2>2. l + 1 \in 1..Len(r.headers)
    BY <2>1
  <2>3. QED
    BY <2>1, <2>2, ElementOfSeq
<1>2. /\ Kept(m) /\ m.kind = k /\ m.flag = "HEAD" /\ m.assist = FALSE
      /\ m.body = Pos(0, 0) /\ m.header2.beg = Len(m.buffer) /\ Len(m.vec) = l
      /\ LinesHold(m, r) /\ HeadersHold(m, r, l)
  BY DEF AtHeader
<1>3. PICK n : /\ WithLine(m, n, w)
               /\ ParseOf([msg |-> m, rest |-> (w \o CRLF) \o u])
                    = ParseOf([msg |-> n, rest |-> u])
  BY <1>1, <1>2, LineGoes
<1>4. /\ LinesHold(n, r) /\ HeadersHold(n, r, l) /\ Len(n.vec) = l + 1
      /\ Holds(n.buffer, n.vec[l + 1].beg, n.vec[l + 1].end - 2, w)
  BY <1>2, <1>3, WithLineHolds
<1>5. HeadersHold(n, r, l + 1)
  <2>1. SUFFICES ASSUME NEW j \in 1..l + 1
                 PROVE  Holds(n.buffer, n.vec[j].beg, n.vec[j].end - 2, r.headers[j])
    BY DEF HeadersHold
  <2>2. CASE j = l + 1
    BY <1>1, <1>4, <2>2
  <2>3. CASE j # l + 1
    <3>1. j \in 1..l
      BY <2>3
    <3>2. QED
      BY <1>4, <3>1 DEF HeadersHold
  <2>4. QED
    BY <2>2, <2>3
<1>6. /\ Kept(n) /\ n.kind = m.kind /\ n.assist = FALSE /\ n.body = m.body
      /\ n.flag = "HEAD" /\ n.header2.beg = Len(n.buffer)
  BY <1>1, <1>3 DEF WithLine
<1>7. AtHeader(n, k, r, l + 1)
  BY <1>2, <1>4, <1>5, <1>6 DEF AtHeader
<1>8. QED
  BY <1>1, <1>3, <1>7 DEF HeaderLeads

\* The empty line.
LEMMA LastHeaderGoes ==
  ASSUME NEW k \in {"svr", "cli"}, NEW r \in MessageOf, NEW m, AtHeader(m, k, r, Len(r.headers)),
         NEW u \in Seq(Symbol)
  PROVE  BodyLeads(m, CRLF \o u, u, k, r)
<1>1. PICK l \in Nat : l = Len(r.headers)
  BY LenProperties DEF MessageOf
<1>2. PICK w \in Seq(Symbol) : w = <<>> /\ w \o CRLF = CRLF /\ IsLine(w)
  <2>1. <<>> \in Seq(Symbol) /\ Len(<<>>) = 0
    BY EmptySeq
  <2>2. <<>> \o CRLF = CRLF
    BY WordsAre, ConcatEmptySeq
  <2>3. IsLine(<<>>)
    BY <2>1 DEF IsLine
  <2>4. QED
    BY <2>1, <2>2, <2>3
<1>3. /\ Kept(m) /\ m.kind = k /\ m.flag = "HEAD" /\ m.assist = FALSE
      /\ m.body = Pos(0, 0) /\ m.header2.beg = Len(m.buffer) /\ Len(m.vec) = l
      /\ LinesHold(m, r) /\ HeadersHold(m, r, l)
  BY <1>1 DEF AtHeader
<1>4. PICK n : /\ WithLine(m, n, w)
               /\ ParseOf([msg |-> m, rest |-> (w \o CRLF) \o u])
                    = ParseOf([msg |-> n, rest |-> u])
  BY <1>2, <1>3, LineGoes
<1>5. /\ LinesHold(n, r) /\ HeadersHold(n, r, l) /\ Len(n.vec) = l + 1
      /\ n.vec[l + 1].beg = Len(m.buffer)
      /\ Holds(n.buffer, n.vec[l + 1].beg, n.vec[l + 1].end - 2, w)
  BY <1>3, <1>4, WithLineHolds
<1>6. /\ Kept(n) /\ n.kind = m.kind /\ n.body = m.body /\ n.bodysize = -1 /\ n.flag = "BODY"
      /\ n.buffer = m.buffer \o CRLF /\ m.buffer \in Seq(Symbol) /\ Len(m.buffer) \in Nat
  BY <1>2, <1>4 DEF WithLine
<1>7. n.buffer[Len(m.buffer) + 1] = CR
  <2>1. PICK x \in Nat : x = Len(m.buffer)
    BY <1>6
  <2>2. PICK e \in Seq(Symbol) : e = CRLF /\ Len(e) = 2 /\ e[1] = CR
    BY WordsAre
  <2>3. \A j \in 1..Len(m.buffer) + Len(e) :
          (m.buffer \o e)[j] = IF j <= Len(m.buffer) THEN m.buffer[j] ELSE e[j - Len(m.buffer)]
    BY <1>6, ConcatProperties
  <2>4. PICK h \in Nat : h = x + 1
    OBVIOUS
  <2>5. h \in 1..Len(m.buffer) + Len(e) /\ ~ (h <= Len(m.buffer)) /\ h - Len(m.buffer) = 1
    BY <2>1, <2>2, <2>4
  <2>6. (m.buffer \o e)[h] = e[h - Len(m.buffer)]
    BY <2>3, <2>5, Zenon
  <2>7. QED
    BY <1>6, <2>1, <2>2, <2>4, <2>5, <2>6
<1>8. AtBody(n, k, r)
  BY <1>1, <1>2, <1>3, <1>5, <1>6, <1>7 DEF AtBody
<1>9. QED
  BY <1>2, <1>4, <1>8 DEF BodyLeads

-----------------------------------------------------------------------------
(* The body, and what the application reads.                               *)

\* What the application should get of r.
AsSent(r) == [line |-> r.line, headers |-> r.headers, body |-> r.body]

\* All of r in the message n.
Complete(n, r) ==
  /\ LinesHold(n, r) /\ HeadersHold(n, r, Len(r.headers))
  /\ Len(n.vec) = Len(r.headers) + 1
  /\ Holds(n.buffer, n.vec[Len(r.headers) + 1].beg, n.vec[Len(r.headers) + 1].end - 2, <<>>)
  /\ IF n.body.end = 0 THEN r.body = <<>> ELSE Text(n, n.body) = r.body

\* The first symbol of what the buffer holds.
LEMMA HoldsFirst ==
  ASSUME NEW c \in Seq(Symbol), NEW b, NEW e, NEW w, w # <<>>, Holds(c, b, e, w)
  PROVE  c[b + 1] = w[1]
<1>1. /\ b \in Nat /\ e \in Nat /\ b <= e /\ e <= Len(c) /\ SubSeq(c, b + 1, e) = w
      /\ Len(c) \in Nat /\ \A i \in 1..Len(c) : c[i] \in Symbol
  BY LenProperties, ElementOfSeq DEF Holds
<1>2. b + 1 \in Int /\ \A i \in b + 1..e : c[i] \in Symbol
  BY <1>1
<1>3. /\ w \in Seq(Symbol) /\ Len(w) = (IF b + 1 <= e THEN e - (b + 1) + 1 ELSE 0)
      /\ \A i \in 1..e - (b + 1) + 1 : w[i] = c[b + 1 + i - 1]
  BY SMTT(30), <1>1, <1>2, SubSeqProperties
<1>4. Len(w) # 0
  BY <1>3, EmptySeq
<1>5. b + 1 <= e
  BY <1>3, <1>4
<1>6. 1 \in 1..e - (b + 1) + 1 /\ b + 1 + 1 - 1 = b + 1
  BY <1>1, <1>5
<1>7. QED
  BY <1>3, <1>6

\* The view of a message that has all of r.
LEMMA ViewIs ==
  ASSUME NEW n, NEW r \in MessageOf, \A i \in 1..Len(r.headers) : r.headers[i] # <<>>,
         Complete(n, r)
  PROVE  View(n) = AsSent(r)
<1>1. PICK l \in Nat : l = Len(r.headers)
  BY LenProperties DEF MessageOf
<1>2. /\ LinesHold(n, r) /\ HeadersHold(n, r, l) /\ Len(n.vec) = l + 1
      /\ Holds(n.buffer, n.vec[l + 1].beg, n.vec[l + 1].end - 2, <<>>)
      /\ IF n.body.end = 0 THEN r.body = <<>> ELSE Text(n, n.body) = r.body
  BY <1>1 DEF Complete
<1>3. [i \in 1..3 |-> GetPart(n, i)] = r.line
  <2>1. ASSUME NEW i \in 1..3 PROVE GetPart(n, i) = r.line[i]
    <3>1. /\ n.line[i].beg \in Nat /\ n.line[i].end \in Nat /\ n.line[i].beg <= n.line[i].end
          /\ SubSeq(n.buffer, n.line[i].beg + 1, n.line[i].end) = r.line[i]
      BY <1>2 DEF LinesHold, Holds
    <3>2. CASE n.line[i].end = 0
      <4>1. n.line[i].beg + 1 = 1
        BY <3>1, <3>2
      <4>2. SubSeq(n.buffer, 1, 0) = r.line[i]
        BY <3>1, <3>2, <4>1
      <4>3. SubSeq(n.buffer, 1, 0) = <<>>
        BY SubSeqEmpty
      <4>4. QED
        BY <3>2, <4>2, <4>3 DEF GetPart
    <3>3. CASE n.line[i].end # 0
      BY <3>1, <3>3 DEF GetPart, Text
    <3>4. QED
      BY <3>2, <3>3
  <2>2. r.line = [i \in 1..3 |-> r.line[i]]
    BY DEF MessageOf
  <2>3. QED
    BY <2>1, <2>2
<1>4. Headers(n) = r.headers
  <2> DEFINE line(i) == SubSeq(n.buffer, n.vec[i].beg + 1, n.vec[i].end - 2)
             empty == {i \in 1..Len(n.vec) : line(i) = <<>>}
  <2>1. \A i \in 1..l : line(i) = r.headers[i]
    BY <1>2 DEF HeadersHold, Holds
  <2>2. line(l + 1) = <<>>
    BY <1>2 DEF Holds
  <2>3. Headers(n) = [i \in 1..(IF empty = {} THEN Len(n.vec) ELSE Least(empty) - 1) |-> line(i)]
    BY DEF Headers
  <2> HIDE DEF line
  <2>4. l + 1 \in empty
    BY <1>2, <2>2
  <2>5. ASSUME NEW i \in empty PROVE l + 1 <= i
    <3>1. i \in 1..l + 1 /\ line(i) = <<>>
      BY <1>2
    <3>2. i \notin 1..l
      BY <1>1, <2>1, <3>1
    <3>3. QED
      BY <3>1, <3>2
  <2>6. empty \in SUBSET Nat
    BY <1>2
  <2> HIDE DEF empty
  <2>7. Least(empty) = l + 1 /\ empty # {}
    BY <2>4, <2>5, <2>6, LeastIs
  <2>8. Headers(n) = [i \in 1..l + 1 - 1 |-> line(i)]
    BY <2>3, <2>7
  <2>9. l + 1 - 1 = l
    OBVIOUS
  <2>10. r.headers = [i \in 1..l |-> r.headers[i]]
    <3>1. r.headers \in Seq(Seq(Symbol))
      BY DEF MessageOf
    <3>2. QED
      BY <1>1, <3>1, LenProperties
  <2>11. QED
    BY <2>1, <2>8, <2>9, <2>10
<1>5. GetBody(n) = r.body
  BY <1>2 DEF GetBody
<1>6. QED
  BY <1>3, <1>4, <1>5 DEF View, AsSent

\* The length the headers announce is the one the parser finds.
LEMMA LengthFound ==
  ASSUME NEW k \in {"svr", "cli"}, NEW r \in MessageOf, WellFormed(r), NEW m, AtBody(m, k, r)
  PROVE  CheckContentLen(m) = Len(r.body)
<1>1. PICK l \in Nat : l = Len(r.headers)
  BY LenProperties DEF MessageOf
<1>2. /\ m.buffer \in Seq(Symbol) /\ HeadersHold(m, r, l) /\ Len(m.vec) = l + 1
      /\ m.buffer[m.vec[l + 1].beg + 1] = CR
  BY <1>1 DEF AtBody, Kept, Messages
<1>3. Len(r.body) = Announced(r.headers) /\ \A i \in 1..l : r.headers[i] # <<>>
  BY <1>1 DEF WellFormed
<1> DEFINE first(i) == m.buffer[m.vec[i].beg + 1]
           found == {i \in 1..Len(m.vec) : first(i).text = "Content-Length"}
           lines == {i \in 1..Len(r.headers) : r.headers[i][1].text = "Content-Length"}
<1>4. \A i \in 1..l : first(i) = r.headers[i][1]
  <2>1. SUFFICES ASSUME NEW i \in 1..l PROVE first(i) = r.headers[i][1]
    OBVIOUS
  <2>2. Holds(m.buffer, m.vec[i].beg, m.vec[i].end - 2, r.headers[i])
    BY <1>2 DEF HeadersHold
  <2>3. QED
    BY <1>2, <1>3, <2>2, HoldsFirst
<1>5. first(l + 1).text # "Content-Length"
  <2>1. first(l + 1) = CR /\ CR.text = "CR"
    BY <1>2 DEF CR, Word
  <2>2. "CR" # "Content-Length"
    OBVIOUS
  <2>3. QED
    BY <2>1, <2>2
<1>6. CheckContentLen(m) = IF found = {} THEN 0 ELSE first(Least(found)).length
  BY DEF CheckContentLen
<1>7. Announced(r.headers) = IF lines = {} THEN 0 ELSE r.headers[Least(lines)][1].length
  BY DEF Announced
<1> HIDE DEF first
<1>8. found = lines
  <2>1. ASSUME NEW i \in found PROVE i \in lines
    <3>1. i \in 1..l + 1 /\ first(i).text = "Content-Length" /\ i # l + 1
      BY <1>2, <1>5
    <3>2. i \in 1..l
      BY <3>1
    <3>3. QED
      BY <1>1, <1>4, <3>1, <3>2
  <2>2. ASSUME NEW i \in lines PROVE i \in found
    <3>1. i \in 1..l /\ i \in 1..l + 1 /\ r.headers[i][1].text = "Content-Length"
      BY <1>1
    <3>2. QED
      BY <1>2, <1>4, <3>1
  <2>3. QED
    BY <2>1, <2>2
<1>9. lines \in SUBSET Nat /\ lines \in SUBSET (1..l)
  BY <1>1
<1> HIDE DEF found, lines
<1>10. CASE lines = {}
  BY <1>3, <1>6, <1>7, <1>8, <1>10
<1>11. CASE lines # {}
  <2>1. Least(lines) \in 1..l
    BY <1>9, <1>11, LeastIs
  <2>2. QED
    BY <1>3, <1>4, <1>6, <1>7, <1>8, <1>11, <2>1
<1>12. QED
  BY <1>10, <1>11

\* A message that has its headers, and whose body is complete with what is left.
LEMMA CompleteFrom ==
  ASSUME NEW k, NEW r \in MessageOf, NEW m, AtBody(m, k, r), NEW n, NEW d \in Seq(Symbol),
         n.buffer = m.buffer \o d, n.line = m.line, n.vec = m.vec,
         IF n.body.end = 0 THEN r.body = <<>> ELSE Text(n, n.body) = r.body
  PROVE  Complete(n, r)
<1>1. PICK l \in Nat : l = Len(r.headers)
  BY LenProperties DEF MessageOf
<1>2. /\ m.buffer \in Seq(Symbol) /\ LinesHold(m, r) /\ HeadersHold(m, r, l)
      /\ Len(m.vec) = l + 1
      /\ Holds(m.buffer, m.vec[l + 1].beg, m.vec[l + 1].end - 2, <<>>)
  BY <1>1 DEF AtBody, Kept, Messages
<1>3. LinesHold(n, r)
  BY <1>2, LinesHoldLonger
<1>4. HeadersHold(n, r, l)
  <2>1. SUFFICES ASSUME NEW j \in 1..l
                 PROVE  Holds(n.buffer, n.vec[j].beg, n.vec[j].end - 2, r.headers[j])
    BY DEF HeadersHold
  <2>2. Holds(m.buffer, m.vec[j].beg, m.vec[j].end - 2, r.headers[j])
    BY <1>2 DEF HeadersHold
  <2>3. QED
    BY <1>2, <2>2, HoldsLonger
<1>5. Holds(n.buffer, n.vec[l + 1].beg, n.vec[l + 1].end - 2, <<>>)
  BY <1>2, HoldsLonger
<1>6. QED
  BY <1>1, <1>2, <1>3, <1>4, <1>5 DEF Complete

\* A message without a body.
LEMMA NoBodyGoes ==
  ASSUME NEW k \in {"svr", "cli"}, NEW r \in MessageOf, WellFormed(r), NEW m, AtBody(m, k, r),
         r.body = <<>>, NEW u \in Seq(Symbol)
  PROVE  \E n : ParseOf([msg |-> m, rest |-> u]) = [msg |-> n, rest |-> u] /\ Complete(n, r)
<1>1. /\ Kept(m) /\ m \in Messages /\ m.flag = "BODY" /\ m.bodysize = -1 /\ m.body = Pos(0, 0)
  BY DEF AtBody, Kept
<1>2. PICK z \in Seq(Symbol) : z = <<>> /\ Len(z) = 0
  BY EmptySeq
<1>3. m.body.end = 0 /\ m.buffer \in Seq(Symbol) /\ m.buffer \o z = m.buffer
  BY <1>1, <1>2, ConcatEmptySeq DEF Pos, Messages
<1>4. CASE u = <<>>
  <2> DEFINE x == [msg |-> m, rest |-> u]
  <2>1. Underway(x) /\ Done(x)
    BY <1>1, <1>4 DEF Underway, Done
  <2>2. ParseOf(x) = x
    BY <2>1, ParseEnds
  <2>3. m.buffer = m.buffer \o z /\ (IF m.body.end = 0 THEN r.body = <<>> ELSE Text(m, m.body) = r.body)
    BY <1>3
  <2>4. Complete(m, r)
    BY <2>3, CompleteFrom
  <2>5. QED
    BY <2>2, <2>4
<1>5. CASE u # <<>>
  <2> DEFINE b == SizeBody(m)
             w == Write(b, u, 0)
             n == EndBody(w)
  <2>1. CheckContentLen(m) = 0
    BY <1>2, LengthFound
  <2>2. /\ b \in Messages /\ b.flag = "BODY" /\ b.kind = m.kind /\ b.buffer = m.buffer
        /\ b.line = m.line /\ b.vec = m.vec /\ b.header2 = m.header2
        /\ b.bodysize = 0 /\ b.body = m.body
    <3>1. /\ b \in Messages /\ b.flag = "BODY" /\ b.kind = m.kind /\ b.buffer = m.buffer
          /\ b.line = m.line /\ b.vec = m.vec /\ b.header2 = m.header2
          /\ b.bodysize = 0 /\ m.bodysize = -1 => b.body = m.body
      BY <1>1, Sized
    <3>2. b.bodysize = 0
      BY <1>1, <2>1 DEF SizeBody, Messages
    <3> HIDE DEF b
    <3>3. QED
      BY <1>1, <3>1, <3>2
  <2>3. Len(u) \in Nat /\ 0 \in 0..Len(u) /\ SubSeq(u, 1, 0) = <<>> /\ After(u, 0) = u
    BY LenProperties, WholePiece
  <2>4. ParseBody(m, u) = [msg |-> n, rest |-> u]
    <3>1. BodyScan(b, u) = [hit |-> TRUE, len |-> 0]
      <4>1. b.bodysize = 0 /\ 0 <= Len(u)
        BY <2>2, <2>3
      <4> HIDE DEF b
      <4>2. QED
        BY <4>1 DEF BodyScan
    <3>2. ParseBody(m, u) = [msg |-> IF BodyScan(b, u).hit THEN EndBody(Write(b, u, BodyScan(b, u).len))
                                     ELSE Write(b, u, BodyScan(b, u).len),
                             rest |-> After(u, BodyScan(b, u).len)]
      BY DEF ParseBody, BodyScan
    <3> HIDE DEF b
    <3>3. QED
      BY <2>3, <3>1, <3>2
  <2>5. ParseRound([msg |-> m, rest |-> u]) = [msg |-> n, rest |-> u]
    BY <1>1, <1>5, <2>4, RoundIs
  <2>6. /\ ParseOf([msg |-> m, rest |-> u]) = ParseOf([msg |-> n, rest |-> u])
        /\ Kept(n)
    BY <1>1, <1>5, <2>5, RoundGoes
  <2> HIDE DEF b
  <2>7. /\ w \in Messages /\ w.buffer = m.buffer \o z /\ w.line = m.line /\ w.vec = m.vec
        /\ w.body = m.body /\ w.bodysize = 0
    <3>1. /\ w \in Messages /\ w.buffer = b.buffer \o SubSeq(u, 1, 0) /\ w.line = b.line
          /\ w.vec = b.vec /\ w.body = b.body /\ w.bodysize = b.bodysize
      BY <2>2, <2>3, Written
    <3> HIDE DEF w
    <3>2. QED
      BY <1>2, <2>2, <2>3, <3>1
  <2> HIDE DEF w
  <2>8. /\ n.buffer = m.buffer \o z /\ n.line = m.line /\ n.vec = m.vec
        /\ n.body = m.body /\ n.flag = "OVER"
    BY <2>7, EndBodyIs
  <2> HIDE DEF n
  <2>9. IF n.body.end = 0 THEN r.body = <<>> ELSE Text(n, n.body) = r.body
    BY <1>3, <2>8
  <2>10. Complete(n, r)
    BY <2>8, <2>9, CompleteFrom
  <2>11. ParseOf([msg |-> n, rest |-> u]) = [msg |-> n, rest |-> u]
    <3> DEFINE x == [msg |-> n, rest |-> u]
    <3>1. Underway(x) /\ Done(x)
      BY <2>6, <2>8 DEF Underway, Done
    <3>2. QED
      BY <3>1, ParseEnds
  <2>12. QED
    BY <2>6, <2>10, <2>11
<1>6. QED
  BY <1>4, <1>5

\* A message with a body.
LEMMA SomeBodyGoes ==
  ASSUME NEW k \in {"svr", "cli"}, NEW r \in MessageOf, WellFormed(r), NEW m, AtBody(m, k, r),
         r.body # <<>>, NEW u \in Seq(Symbol)
  PROVE  \E n : /\ ParseOf([msg |-> m, rest |-> r.body \o u]) = [msg |-> n, rest |-> u]
                /\ Complete(n, r)
<1> DEFINE d == r.body
           s == d \o u
           b == SizeBody(m)
           w == Write(b, s, Len(d))
           n == EndBody(w)
<1>1. /\ Kept(m) /\ m \in Messages /\ m.flag = "BODY" /\ m.bodysize = -1 /\ m.body = Pos(0, 0)
      /\ m.buffer \in Seq(Symbol) /\ m.body \in Position
  BY DEF AtBody, Kept, Messages
<1>2. PICK size \in Nat : size = Len(d) /\ size # 0 /\ d \in Seq(Symbol)
  <2>1. d \in Seq(Symbol)
    BY DEF MessageOf
  <2>2. QED
    BY <2>1, LenProperties, EmptySeq
<1>3. PICK pos \in Nat : pos = Len(m.buffer)
  BY <1>1, LenProperties
<1>4. CheckContentLen(m) = size
  BY <1>2, LengthFound
<1>5. /\ b \in Messages /\ b.flag = "BODY" /\ b.kind = m.kind /\ b.buffer = m.buffer
      /\ b.line = m.line /\ b.vec = m.vec /\ b.header2 = m.header2
      /\ b.bodysize = size /\ b.body.beg = pos
  <2>1. /\ b \in Messages /\ b.flag = "BODY" /\ b.kind = m.kind /\ b.buffer = m.buffer
        /\ b.line = m.line /\ b.vec = m.vec /\ b.header2 = m.header2
    BY <1>1, Sized
  <2>2. b = [m EXCEPT !.bodysize = size, !.body = Pos(pos, m.body.end)]
    BY <1>1, <1>2, <1>3, <1>4 DEF SizeBody, Messages
  <2>3. b.bodysize = size /\ b.body = Pos(pos, m.body.end)
    BY <1>1, <2>2 DEF Messages
  <2> HIDE DEF b
  <2>4. QED
    BY <2>1, <2>3 DEF Pos
<1> HIDE DEF b, d
<1>6. /\ s \in Seq(Symbol) /\ Len(d) \in 0..Len(s) /\ SubSeq(s, 1, Len(d)) = d
      /\ After(s, Len(d)) = u
  BY <1>2, InFront
<1>7. s # <<>> /\ size <= Len(s) /\ Len(s) \in Nat
  BY <1>2, <1>6, EmptySeq, LenProperties
<1> HIDE DEF s
<1>8. BodyScan(b, s) = [hit |-> TRUE, len |-> size]
  <2>1. size - (Len(b.buffer) - b.body.beg) = size
    <3>1. Len(b.buffer) = pos /\ b.body.beg = pos /\ pos \in Nat /\ size \in Nat
      BY <1>3, <1>5
    <3>2. QED
      BY ONLY <3>1
  <2>2. QED
    BY <1>2, <1>5, <1>7, <2>1 DEF BodyScan
<1>9. ParseBody(m, s) = [msg |-> n, rest |-> u]
  <2>1. ParseBody(m, s) = [msg |-> IF BodyScan(b, s).hit THEN EndBody(Write(b, s, BodyScan(b, s).len))
                                   ELSE Write(b, s, BodyScan(b, s).len),
                           rest |-> After(s, BodyScan(b, s).len)]
    BY DEF ParseBody, BodyScan, b
  <2>2. QED
    BY <1>2, <1>6, <1>8, <2>1
<1>10. ParseRound([msg |-> m, rest |-> s]) = [msg |-> n, rest |-> u]
  BY <1>1, <1>7, <1>9, RoundIs
<1>11. ParseOf([msg |-> m, rest |-> s]) = ParseOf([msg |-> n, rest |-> u]) /\ Kept(n)
  BY <1>1, <1>6, <1>7, <1>10, RoundGoes
<1>12. /\ w \in Messages /\ w.buffer = m.buffer \o d /\ Len(w.buffer) = pos + size
       /\ w.line = m.line /\ w.vec = m.vec /\ w.body = b.body /\ w.bodysize = size
  <2>1. /\ w \in Messages /\ w.buffer = b.buffer \o SubSeq(s, 1, Len(d))
        /\ Len(w.buffer) = Len(b.buffer) + Len(d) /\ w.line = b.line
        /\ w.vec = b.vec /\ w.body = b.body /\ w.bodysize = b.bodysize
    BY <1>5, <1>6, Written
  <2> HIDE DEF w
  <2>2. QED
    BY <1>2, <1>3, <1>5, <1>6, <2>1
<1> HIDE DEF w
<1>13. /\ n.buffer = m.buffer \o d /\ n.line = m.line /\ n.vec = m.vec /\ n.flag = "OVER"
       /\ n.body = Pos(pos, pos + size)
  <2>1. n.body = Pos(w.body.beg, Len(w.buffer))
    BY <1>2, <1>12, EndBodyIs
  <2>2. /\ n.buffer = w.buffer /\ n.line = w.line /\ n.vec = w.vec /\ n.flag = "OVER"
    BY <1>12, EndBodyIs
  <2>3. QED
    BY <1>5, <1>12, <2>1, <2>2
<1> HIDE DEF n
<1>14. n.body.end # 0 /\ Text(n, n.body) = d
  <2>1. n.body.beg = pos /\ n.body.end = pos + size
    BY <1>13 DEF Pos
  <2>2. PICK z \in Seq(Symbol) : z = <<>> /\ d \o z = d
    BY <1>2, EmptySeq, ConcatEmptySeq
  <2>3. Holds(m.buffer \o (d \o z), Len(m.buffer), Len(m.buffer) + Len(d), d)
    BY <1>1, <1>2, HoldsLast
  <2>4. SubSeq(m.buffer \o d, pos + 1, pos + size) = d
    BY <1>2, <1>3, <2>2, <2>3 DEF Holds
  <2>5. pos + size # 0
    BY <1>2, <1>3
  <2>6. QED
    BY <1>13, <2>1, <2>4, <2>5 DEF Text
<1>15. Complete(n, r)
  <2>1. IF n.body.end = 0 THEN r.body = <<>> ELSE Text(n, n.body) = r.body
    BY <1>14 DEF d
  <2>2. QED
    BY <1>2, <1>13, <2>1, CompleteFrom
<1>16. ParseOf([msg |-> n, rest |-> u]) = [msg |-> n, rest |-> u]
  <2> DEFINE x == [msg |-> n, rest |-> u]
  <2>1. Underway(x) /\ Done(x)
    BY <1>11, <1>13 DEF Underway, Done
  <2>2. QED
    BY <2>1, ParseEnds
<1>17. QED
  BY <1>11, <1>15, <1>16 DEF s, d

-----------------------------------------------------------------------------
(* A whole message.                                                        *)

\* Concatenation, as facts about all symbols.
LEMMA Joined ==
  /\ \A u, v \in Seq(Symbol) : u \o v \in Seq(Symbol)
  /\ \A u, v, w \in Seq(Symbol) : (u \o v) \o w = u \o (v \o w)
<1>1. ASSUME NEW u \in Seq(Symbol), NEW v \in Seq(Symbol) PROVE u \o v \in Seq(Symbol)
  BY ConcatProperties
<1>2. ASSUME NEW u \in Seq(Symbol), NEW v \in Seq(Symbol), NEW w \in Seq(Symbol)
      PROVE  (u \o v) \o w = u \o (v \o w)
  BY ConcatAssociative
<1>3. QED
  BY <1>1, <1>2

\* An equation with a concatenation, named for the provers.
Sum(z, x, y) == z = x \o y

\* Concatenation is associative.
LEMMA SumAssociates ==
  ASSUME NEW u \in Seq(Symbol), NEW v \in Seq(Symbol), NEW w \in Seq(Symbol),
         NEW x, NEW y, NEW z, Sum(x, u, v), Sum(y, v, w), Sum(z, x, w)
  PROVE  Sum(z, u, y)
BY ConcatAssociative DEF Sum

\* A part of the first line, taken.
LEMMA ToPart ==
  ASSUME NEW k \in {"svr", "cli"}, NEW r \in MessageOf, WellFormed(r), NEW i \in 1..2, NEW j, j = i + 1,
         NEW m, AtPart(m, k, r, i), NEW u \in Seq(Symbol), NEW s, s = (r.line[i] \o <<SP>>) \o u
  PROVE  PartLeads(m, s, u, k, r, j)
<1>1. \A l \in 1..Len(r.line[i]) : r.line[i][l] # SP
  BY DEF WellFormed
<1>2. QED
  BY <1>1, PartGoes

\* The rest of the first line, taken.
LEMMA ToHeader ==
  ASSUME NEW k \in {"svr", "cli"}, NEW r \in MessageOf, WellFormed(r), NEW m, AtPart(m, k, r, 3),
         NEW u \in Seq(Symbol), NEW s, s = (r.line[3] \o CRLF) \o u
  PROVE  HeaderLeads(m, s, u, k, r, 0)
<1>1. IsLine(r.line[3])
  BY DEF WellFormed
<1>2. QED
  BY <1>1, Part3Goes

\* A header line, taken.
LEMMA ToNextHeader ==
  ASSUME NEW k \in {"svr", "cli"}, NEW r \in MessageOf, WellFormed(r), NEW l \in Nat, l < Len(r.headers),
         NEW j, j = l + 1, NEW m, AtHeader(m, k, r, l), NEW u \in Seq(Symbol), NEW w,
         w = r.headers[j], NEW s, s = (w \o CRLF) \o u
  PROVE  HeaderLeads(m, s, u, k, r, j)
<1>1. IsLine(r.headers[l + 1]) /\ r.headers[l + 1] # <<>>
  <2>1. Len(r.headers) \in Nat
    BY LenProperties DEF MessageOf
  <2>2. l + 1 \in 1..Len(r.headers)
    BY <2>1
  <2>3. QED
    BY <2>2 DEF WellFormed
<1>2. QED
  BY <1>1, HeaderGoes

\* The blank line behind the headers, taken.
LEMMA ToBody ==
  ASSUME NEW k \in {"svr", "cli"}, NEW r \in MessageOf, NEW l, l = Len(r.headers), NEW m,
         AtHeader(m, k, r, l), NEW u \in Seq(Symbol), NEW s, s = CRLF \o u
  PROVE  BodyLeads(m, s, u, k, r)
BY LastHeaderGoes

\* The header lines, one by one.
LEMMA HeadersGo ==
  ASSUME NEW k \in {"svr", "cli"}, NEW r \in MessageOf, WellFormed(r), NEW m, AtHeader(m, k, r, 0),
         NEW u \in Seq(Symbol)
  PROVE  HeaderLeads(m, HeaderLines(r.headers) \o u, u, k, r, Len(r.headers))
<1> DEFINE hs == r.headers
           Goes(l, v, n) == /\ AtHeader(n, k, r, l)
                            /\ ParseOf([msg |-> m, rest |-> HeaderLines(SubSeq(hs, 1, l)) \o v])
                                 = ParseOf([msg |-> n, rest |-> v])
           T == {l \in Nat : l <= Len(hs) => \A v \in Seq(Symbol) : \E n : Goes(l, v, n)}
<1>1. hs \in Seq(Seq(Symbol)) /\ Len(hs) \in Nat
  BY LenProperties DEF MessageOf
<1>2. 0 \in T
  <2>1. SubSeq(hs, 1, 0) = <<>> /\ HeaderLines(<<>>) = <<>>
    <3>1. SubSeq(hs, 1, 0) = <<>>
      BY SubSeqEmpty
    <3>2. QED
      BY <1>1, <3>1, HeaderLinesTyped
  <2>2. ASSUME NEW v \in Seq(Symbol) PROVE \E n : Goes(0, v, n)
    <3>1. <<>> \o v = v
      BY ConcatEmptySeq
    <3>2. Goes(0, v, m)
      BY <2>1, <3>1
    <3>3. QED
      BY <3>2
  <2>3. QED
    BY <2>2
<1>3. ASSUME NEW l \in T PROVE l + 1 \in T
  <2>1. l \in Nat /\ l + 1 \in Nat
    OBVIOUS
  <2>2. SUFFICES ASSUME l + 1 <= Len(hs), NEW v \in Seq(Symbol) PROVE \E n : Goes(l + 1, v, n)
    BY <2>1
  <2>3. l + 1 \in 1..Len(hs) /\ l < Len(hs) /\ l <= Len(hs) /\ 1 \in 1..Len(hs) /\ l + 1 - 1 = l
    BY <1>1, <2>1, <2>2
  <2>4. PICK w \in Seq(Symbol) : w = hs[l + 1]
    BY <1>1, <2>3, ElementOfSeq
  <2>5. w # <<>> /\ IsLine(w)
    BY <2>3, <2>4 DEF WellFormed
  <2>6. PICK f \in Seq(Seq(Symbol)) : f = SubSeq(hs, 1, l)
    <3>1. \A i \in 1..l : hs[i] \in Seq(Symbol)
      BY <1>1, <2>1, <2>3, ElementOfSeq
    <3>2. SubSeq(hs, 1, l) \in Seq(Seq(Symbol))
      BY <2>1, <3>1, SubSeqProperties
    <3>3. QED
      BY <3>2
  <2>7. SubSeq(hs, 1, l + 1) = Append(f, w)
    <3>1. SubSeq(hs, 1, l + 1) = SubSeq(hs, 1, l + 1 - 1) \o <<hs[l + 1]>>
      <4> DEFINE q == l + 1
      <4>1. 1 \in 1..Len(hs) /\ q \in 1..Len(hs) /\ hs \in Seq(Seq(Symbol))
        BY <1>1, <2>3
      <4> HIDE DEF q
      <4>2. SubSeq(hs, 1, q) = SubSeq(hs, 1, q - 1) \o <<hs[q]>>
        BY <4>1, SubSeqRecursiveSecond
      <4>3. QED
        BY <4>2 DEF q
    <3>2. Append(f, w) = f \o <<w>>
      BY <2>4, <2>6, AppendIsConcat
    <3>3. QED
      BY <2>3, <2>4, <2>6, <3>1, <3>2
  <2>8. HeaderLines(Append(f, w)) = HeaderLines(f) \o (w \o CRLF)
    BY HeaderLinesAppend
  <2>9. PICK g \in Seq(Symbol), a \in Seq(Symbol) : g = HeaderLines(f) /\ a = w \o CRLF
    <3>1. HeaderLines(f) \in Seq(Symbol)
      BY HeaderLinesTyped
    <3>2. w \o CRLF \in Seq(Symbol)
      BY WordsAre, ConcatProperties
    <3>3. QED
      BY <3>1, <3>2
  <2>10. (g \o a) \o v = g \o (a \o v) /\ a \o v \in Seq(Symbol)
    BY SMTT(30), Joined
  <2>11. PICK x : Goes(l, a \o v, x)
    BY <2>1, <2>3, <2>10
  <2>12. PICK n : /\ AtHeader(n, k, r, l + 1)
                  /\ ParseOf([msg |-> x, rest |-> a \o v]) = ParseOf([msg |-> n, rest |-> v])
    <3>1. AtHeader(x, k, r, l)
      BY <2>11
    <3>2. PICK j : j = l + 1
      OBVIOUS
    <3>3. PICK s : s = (w \o CRLF) \o v
      OBVIOUS
    <3>4. w = r.headers[j] /\ l < Len(r.headers) /\ l \in Nat
      BY <2>1, <2>3, <2>4, <3>2
    <3> HIDE DEF Goes, hs
    <3>5. HeaderLeads(x, s, v, k, r, j)
      BY <3>1, <3>2, <3>3, <3>4, ToNextHeader
    <3>6. s = a \o v
      BY <2>9, <3>3
    <3>7. QED
      BY <3>2, <3>5, <3>6 DEF HeaderLeads
  <2>13. Goes(l + 1, v, n)
    <3>1. HeaderLines(SubSeq(hs, 1, l + 1)) \o v = HeaderLines(SubSeq(hs, 1, l)) \o (a \o v)
      BY <2>6, <2>7, <2>8, <2>9, <2>10
    <3>2. QED
      BY <2>11, <2>12, <3>1
  <2>14. QED
    BY <2>13
<1>4. T \in SUBSET Nat
  OBVIOUS
<1>5. \A l \in Nat : l \in T
  <2> HIDE DEF T
  <2>1. QED
    BY <1>2, <1>3, <1>4, EveryNat
<1>6. PICK n : Goes(Len(hs), u, n)
  <2>1. Len(hs) \in T /\ Len(hs) \in Nat
    BY <1>1, <1>5
  <2> HIDE DEF Goes
  <2>2. \A v \in Seq(Symbol) : \E n : Goes(Len(hs), v, n)
    BY <2>1
  <2>3. QED
    BY <2>2
<1>7. SubSeq(hs, 1, Len(hs)) = hs
  BY <1>1, SubSeqFull
<1>8. QED
  BY <1>6, <1>7 DEF HeaderLeads

\* A well-formed message in front of a chunk is parsed as what it is, whatever
\* follows it.
THEOREM MessageParsed ==
  ASSUME NEW k \in {"svr", "cli"}, NEW r \in MessageOf, WellFormed(r), NEW t \in Seq(Symbol)
  PROVE  LET p == Parse(Cleared(k), Bytes(r) \o t)
         IN  p.rest = t /\ View(p.msg) = AsSent(r)
<1>1. PICK a \in Seq(Symbol), b \in Seq(Symbol), c \in Seq(Symbol), d \in Seq(Symbol) :
        a = r.line[1] /\ b = r.line[2] /\ c = r.line[3] /\ d = r.body
  BY DEF MessageOf
<1>2. PICK h \in Seq(Symbol) : h = HeaderLines(r.headers)
  <2>1. r.headers \in Seq(Seq(Symbol))
    BY DEF MessageOf
  <2>2. HeaderLines(r.headers) \in Seq(Symbol)
    BY <2>1, HeaderLinesTyped
  <2>3. QED
    BY <2>2
<1>3. PICK p \in Seq(Symbol), e \in Seq(Symbol) : p = <<SP>> /\ e = CRLF
  BY WordsAre
<1>4. \A u, v \in Seq(Symbol) : u \o v \in Seq(Symbol)
  BY ConcatProperties
<1>5. PICK u1 \in Seq(Symbol), u2 \in Seq(Symbol), u3 \in Seq(Symbol), u4 \in Seq(Symbol) :
        /\ u4 = e \o (d \o t) /\ u3 = h \o u4 /\ u2 = (c \o e) \o u3 /\ u1 = (b \o p) \o u2
  <2>1. PICK u4 \in Seq(Symbol) : u4 = e \o (d \o t)
    BY <1>4
  <2>2. PICK u3 \in Seq(Symbol) : u3 = h \o u4
    BY <1>4
  <2>3. PICK u2 \in Seq(Symbol) : u2 = (c \o e) \o u3
    BY <1>4
  <2>4. PICK u1 \in Seq(Symbol) : u1 = (b \o p) \o u2
    BY <1>4
  <2>5. QED
    BY <2>1, <2>2, <2>3, <2>4
<1>6. Bytes(r) \o t = (a \o p) \o u1
  <2>1. Bytes(r) = (((((((a \o p) \o b) \o p) \o c) \o e) \o h) \o e) \o d
    BY <1>1, <1>2, <1>3 DEF Bytes, HeaderLines
  <2>2. \A x, y \in Seq(Symbol) : \E z \in Seq(Symbol) : Sum(z, x, y)
    BY <1>4 DEF Sum
  <2>3. PICK q1 \in Seq(Symbol) : Sum(q1, a, p)
    BY <2>2
  <2>4. PICK q2 \in Seq(Symbol) : Sum(q2, q1, b)
    BY <2>2
  <2>5. PICK q3 \in Seq(Symbol) : Sum(q3, q2, p)
    BY <2>2
  <2>6. PICK q4 \in Seq(Symbol) : Sum(q4, q3, c)
    BY <2>2
  <2>7. PICK q5 \in Seq(Symbol) : Sum(q5, q4, e)
    BY <2>2
  <2>8. PICK q6 \in Seq(Symbol) : Sum(q6, q5, h)
    BY <2>2
  <2>9. PICK q7 \in Seq(Symbol) : Sum(q7, q6, e)
    BY <2>2
  <2>10. PICK q8 \in Seq(Symbol) : Sum(q8, q7, d)
    BY <2>2
  <2>11. PICK g \in Seq(Symbol) : Sum(g, q8, t)
    BY <2>2
  <2>12. PICK s1 \in Seq(Symbol), y \in Seq(Symbol), z \in Seq(Symbol) :
           Sum(s1, d, t) /\ Sum(y, b, p) /\ Sum(z, c, e)
    BY <2>2
  <2>13. Sum(u4, e, s1) /\ Sum(u3, h, u4) /\ Sum(u2, z, u3) /\ Sum(u1, y, u2)
    BY <1>5, <2>12 DEF Sum
  <2>14. Sum(g, q7, s1)
    BY <2>10, <2>11, <2>12, SumAssociates
  <2>15. Sum(g, q6, u4)
    BY <2>9, <2>13, <2>14, SumAssociates
  <2>16. Sum(g, q5, u3)
    BY <2>8, <2>13, <2>15, SumAssociates
  <2>17. Sum(q5, q3, z)
    BY <2>6, <2>7, <2>12, SumAssociates
  <2>18. Sum(g, q3, u2)
    BY <2>13, <2>16, <2>17, SumAssociates
  <2>19. Sum(q3, q1, y)
    BY <2>4, <2>5, <2>12, SumAssociates
  <2>20. Sum(g, q1, u1)
    BY <2>13, <2>18, <2>19, SumAssociates
  <2>21. Bytes(r) = q8
    BY <2>1, <2>3, <2>4, <2>5, <2>6, <2>7, <2>8, <2>9, <2>10 DEF Sum
  <2>22. QED
    BY <2>3, <2>11, <2>20, <2>21 DEF Sum
<1>7. PICK v1, v2, v3, v4 :
        v1 = (a \o p) \o u1 /\ v2 = (b \o p) \o u2 /\ v3 = (c \o e) \o u3 /\ v4 = h \o u4
  OBVIOUS
<1> DEFINE m1 == Cleared(k)
<1>8. AtPart(m1, k, r, 1)
  BY FirstPart
<1> HIDE DEF m1
<1>9. PICK m2 : /\ AtPart(m2, k, r, 2)
                /\ ParseOf([msg |-> m1, rest |-> v1]) = ParseOf([msg |-> m2, rest |-> u1])
  <2>1. PICK i \in 1..2, j \in 2..3 : i = 1 /\ j = 2 /\ j = i + 1
    OBVIOUS
  <2>2. v1 = (r.line[i] \o <<SP>>) \o u1
    BY <1>1, <1>3, <1>7, <2>1
  <2>3. AtPart(m1, k, r, i)
    BY <1>8, <2>1
  <2>4. PartLeads(m1, v1, u1, k, r, j)
    BY <2>1, <2>2, <2>3, ToPart
  <2>5. QED
    BY <2>1, <2>4 DEF PartLeads
<1>10. PICK m3 : /\ AtPart(m3, k, r, 3)
                 /\ ParseOf([msg |-> m2, rest |-> v2]) = ParseOf([msg |-> m3, rest |-> u2])
  <2>1. PICK i \in 1..2, j \in 2..3 : i = 2 /\ j = 3 /\ j = i + 1
    OBVIOUS
  <2>2. v2 = (r.line[i] \o <<SP>>) \o u2
    BY <1>1, <1>3, <1>7, <2>1
  <2>3. AtPart(m2, k, r, i)
    BY <1>9, <2>1
  <2>4. PartLeads(m2, v2, u2, k, r, j)
    BY <2>1, <2>2, <2>3, ToPart
  <2>5. QED
    BY <2>1, <2>4 DEF PartLeads
<1>11. PICK m4 : /\ AtHeader(m4, k, r, 0)
                 /\ ParseOf([msg |-> m3, rest |-> v3]) = ParseOf([msg |-> m4, rest |-> u3])
  <2>1. v3 = (r.line[3] \o CRLF) \o u3
    BY <1>1, <1>3, <1>7
  <2>2. HeaderLeads(m3, v3, u3, k, r, 0)
    BY <1>10, <2>1, ToHeader
  <2>3. QED
    BY <2>2 DEF HeaderLeads
<1>12. PICK m5 : /\ AtHeader(m5, k, r, Len(r.headers))
                 /\ ParseOf([msg |-> m4, rest |-> v4]) = ParseOf([msg |-> m5, rest |-> u4])
  <2>1. HeaderLeads(m4, HeaderLines(r.headers) \o u4, u4, k, r, Len(r.headers))
    BY <1>11, HeadersGo
  <2>2. v4 = HeaderLines(r.headers) \o u4
    BY <1>2, <1>7
  <2>3. QED
    BY <2>1, <2>2 DEF HeaderLeads
<1>13. PICK u5 \in Seq(Symbol) : u5 = d \o t
  BY <1>4
<1>14. PICK m6 : /\ AtBody(m6, k, r)
                 /\ ParseOf([msg |-> m5, rest |-> u4]) = ParseOf([msg |-> m6, rest |-> u5])
  <2>1. PICK l : l = Len(r.headers)
    OBVIOUS
  <2>2. u4 = CRLF \o u5
    BY <1>3, <1>5, <1>13
  <2>3. BodyLeads(m5, u4, u5, k, r)
    BY <1>12, <2>1, <2>2, ToBody
  <2>4. QED
    BY <2>3 DEF BodyLeads
<1>15. PICK n : ParseOf([msg |-> m6, rest |-> u5]) = [msg |-> n, rest |-> t] /\ Complete(n, r)
  <2>1. CASE d = <<>>
    <3>1. u5 = t
      BY <1>13, <2>1, ConcatEmptySeq
    <3>2. QED
      <4>1. r.body = <<>> /\ AtBody(m6, k, r)
        BY <1>1, <1>14, <2>1
      <4>2. \E n : ParseOf([msg |-> m6, rest |-> t]) = [msg |-> n, rest |-> t] /\ Complete(n, r)
        BY ZenonT(30), <4>1, NoBodyGoes
      <4>3. QED
        BY <3>1, <4>2
  <2>2. CASE d # <<>>
    <3>1. r.body # <<>> /\ AtBody(m6, k, r)
      BY <1>1, <1>14, <2>2
    <3>2. \E n : /\ ParseOf([msg |-> m6, rest |-> r.body \o t]) = [msg |-> n, rest |-> t]
                 /\ Complete(n, r)
      BY ZenonT(30), <3>1, SomeBodyGoes
    <3>3. QED
      BY <1>1, <1>13, <3>2
  <2>3. QED
    BY <2>1, <2>2
<1>16. ParseOf([msg |-> m1, rest |-> Bytes(r) \o t]) = [msg |-> n, rest |-> t]
  <2>1. Bytes(r) \o t = v1 /\ u1 = v2 /\ u2 = v3 /\ u3 = v4
    BY <1>5, <1>6, <1>7
  <2>2. QED
    BY <1>9, <1>10, <1>11, <1>12, <1>14, <1>15, <2>1
<1>17. View(n) = AsSent(r)
  <2>1. \A i \in 1..Len(r.headers) : r.headers[i] # <<>>
    BY DEF WellFormed
  <2>2. QED
    BY <1>15, <2>1, ViewIs
<1>18. Parse(Cleared(k), Bytes(r) \o t) = [msg |-> n, rest |-> t]
  BY <1>16 DEF ParseOf, m1
<1>19. QED
  BY <1>17, <1>18

-----------------------------------------------------------------------------
(* What the sender has built, what is in the stream, what was received.    *)

\* The first n parts of the first line, as they are written.
FirstLine(r, n) ==
  CASE n = 0 -> <<>>
    [] n = 1 -> r.line[1] \o <<SP>>
    [] n = 2 -> r.line[1] \o <<SP>> \o r.line[2] \o <<SP>>
    [] n = 3 -> r.line[1] \o <<SP>> \o r.line[2] \o <<SP>> \o r.line[3] \o CRLF

\* n parts of the first line are set.
InLine(n, set) == \A i \in 1..3 : LineField[i] \in set <=> i <= n

\* The lines of a response, before it has a body.
LinesGood(r) ==
  /\ \A i \in 1..2 : \A j \in 1..Len(r.line[i]) : r.line[i][j] # SP
  /\ IsLine(r.line[3])
  /\ \A i \in 1..Len(r.headers) :
       r.headers[i] # <<>> /\ IsLine(r.headers[i]) /\ r.headers[i][1].text # "Content-Length"

\* The message r as the setters have built it in b: n parts of its first line,
\* its headers, no body yet.
Open(b, r, n) ==
  /\ "BODY" \notin b.set /\ InLine(n, b.set)
  /\ b.buffer = FirstLine(r, n) \o HeaderLines(r.headers)
  /\ n < 3 => r.headers = <<>>
  /\ LinesGood(r) /\ r.body = <<>>

\* ... and with its body.
Closed(b, r) == "BODY" \in b.set /\ LineSet(b) /\ WellFormed(r) /\ b.buffer = Bytes(r)

\* One of the two, if the setters are called in the usual order.
Built(b, r) == r.usual => Closed(b, r) \/ \E n \in 0..3 : Open(b, r, n)

\* The buffer of the message being built is what the application meant.
BuiltAsMeant == Built(building, meant)

\* Where the i-th message ends in the stream.
Mark(i) == IF i = 0 THEN 0 ELSE ends[i]

\* The i-th message sent, whole, lies in the stream where it should.
InStream(i) ==
  WellFormed(sent[i]) /\ SubSeq(stream, Mark(i - 1) + 1, Mark(i)) = Bytes(sent[i])

\* The stream is the messages sent, one after the other.
StreamAsSent ==
  /\ Len(ends) = Len(sent) /\ Mark(Len(ends)) = Len(stream)
  /\ \A i, j \in 0..Len(ends) : i < j => Mark(i) < Mark(j)
  /\ \A i \in 1..Len(ends) : sent[i].usual => InStream(i)

\* What OnReceiveData can be called with.
Views == {AsSent(r) : r \in MessageOf}

\* n messages are received, the first n sent; the chunk is what was taken of
\* the stream since, and ends where a message ends.
InOrder(n) ==
  /\ received \in Seq(Views) /\ Len(received) = n /\ n <= Len(sent)
  /\ \A i \in 1..n : received[i] = AsSent(sent[i])
  /\ \E j \in n..Len(ends) : taken = Mark(j)
  /\ chunk = SubSeq(stream, Mark(n) + 1, taken)

\* As long as every chunk ends where a message ends and all messages are usual.
ReceivedAsSent == aligned /\ Usual => \E n \in Nat : InOrder(n)

\* The inductive invariant.
HttpInv == Typed /\ BuiltAsMeant /\ StreamAsSent /\ ReceivedAsSent

-----------------------------------------------------------------------------
(* The variables stay what they are.                                       *)

\* The messages of MessageOf, by their parts.
LEMMA MessageOfIs ==
  /\ \A l \in [1..3 -> Seq(Symbol)], hs \in Seq(Seq(Symbol)), d \in Seq(Symbol), u \in BOOLEAN :
       [line |-> l, headers |-> hs, body |-> d, usual |-> u] \in MessageOf
  /\ \A r \in MessageOf :
       /\ r = [line |-> r.line, headers |-> r.headers, body |-> r.body, usual |-> r.usual]
       /\ r.line \in [1..3 -> Seq(Symbol)] /\ r.headers \in Seq(Seq(Symbol))
       /\ r.body \in Seq(Symbol) /\ r.usual \in BOOLEAN
BY DEF MessageOf

\* Nothing is a message, whose parts are all empty.
LEMMA NothingIs ==
  /\ Nothing \in MessageOf /\ Nothing.usual = TRUE /\ Nothing.headers = <<>> /\ Nothing.body = <<>>
  /\ \A i \in 1..3 : Nothing.line[i] = <<>>
<1>1. PICK e \in Seq(Symbol), f \in Seq(Seq(Symbol)) : e = <<>> /\ f = <<>>
  BY EmptySeq
<1>2. PICK l \in [1..3 -> Seq(Symbol)] : l = [i \in 1..3 |-> e]
  OBVIOUS
<1>3. <<<<>>, <<>>, <<>>>> = l
  BY <1>1, <1>2
<1>4. Nothing = [line |-> l, headers |-> f, body |-> e, usual |-> TRUE]
  BY <1>1, <1>3 DEF Nothing
<1>5. QED
  BY <1>1, <1>2, <1>4, MessageOfIs

\* The bytes of a message.
LEMMA BytesTyped ==
  ASSUME NEW r \in MessageOf
  PROVE  /\ Bytes(r) \in Seq(Symbol) /\ Bytes(r) # <<>>
         /\ Bytes(r) = (FirstLine(r, 3) \o HeaderLines(r.headers)) \o (CRLF \o r.body)
<1>1. PICK a \in Seq(Symbol), b \in Seq(Symbol), c \in Seq(Symbol), d \in Seq(Symbol) :
        a = r.line[1] /\ b = r.line[2] /\ c = r.line[3] /\ d = r.body
  BY DEF MessageOf
<1>2. PICK h \in Seq(Symbol) : h = HeaderLines(r.headers)
  <2>1. r.headers \in Seq(Seq(Symbol))
    BY DEF MessageOf
  <2>2. HeaderLines(r.headers) \in Seq(Symbol)
    BY <2>1, HeaderLinesTyped
  <2>3. QED
    BY <2>2
<1>3. PICK p \in Seq(Symbol), e \in Seq(Symbol) : p = <<SP>> /\ e = CRLF /\ Len(e) = 2
  BY WordsAre
<1>4. \A x, y \in Seq(Symbol) : \E z \in Seq(Symbol) : Sum(z, x, y)
  BY ConcatProperties DEF Sum
<1>5. PICK q \in Seq(Symbol) : q = (((((a \o p) \o b) \o p) \o c) \o e)
  BY ConcatProperties
<1>6. PICK g1 \in Seq(Symbol) : Sum(g1, q, h)
  BY <1>4
<1>7. PICK g2 \in Seq(Symbol) : Sum(g2, g1, e)
  BY <1>4
<1>8. PICK g3 \in Seq(Symbol), v \in Seq(Symbol) : Sum(g3, g2, d) /\ Sum(v, e, d)
  BY <1>4
<1>9. Bytes(r) = g3
  <2>1. Bytes(r) = (((((((a \o p) \o b) \o p) \o c) \o e) \o h) \o e) \o d
    BY <1>1, <1>2, <1>3 DEF Bytes, HeaderLines
  <2>2. QED
    BY <1>5, <1>6, <1>7, <1>8, <2>1 DEF Sum
<1>10. Sum(g3, g1, v)
  BY <1>7, <1>8, SumAssociates
<1>11. FirstLine(r, 3) = q
  <2>1. FirstLine(r, 3) = r.line[1] \o <<SP>> \o r.line[2] \o <<SP>> \o r.line[3] \o CRLF
    <3>1. 3 # 0 /\ 3 # 1 /\ 3 # 2
      OBVIOUS
    <3>2. QED
      BY <3>1, Zenon DEF FirstLine
  <2>2. QED
    BY <1>1, <1>3, <1>5, <2>1
<1>12. g3 # <<>>
  <2>1. Len(g3) = Len(g2) + Len(d) /\ Len(g2) = Len(g1) + Len(e)
    BY <1>7, <1>8, ConcatProperties DEF Sum
  <2>2. Len(g1) \in Nat /\ Len(d) \in Nat
    BY LenProperties
  <2>3. Len(g3) # 0
    BY <1>3, <2>1, <2>2
  <2>4. QED
    BY <2>3, EmptySeq
<1>13. Bytes(r) = (q \o h) \o (e \o d)
  BY <1>6, <1>8, <1>9, <1>10 DEF Sum
<1>14. QED
  BY <1>1, <1>2, <1>3, <1>9, <1>11, <1>12, <1>13

\* At first.
LEMMA TypedInit == Init => Typed
<1>1. SUFFICES ASSUME Init PROVE Typed
  OBVIOUS
<1>2. <<>> \in Seq(Symbol) /\ <<>> \in Seq(MessageOf) /\ <<>> \in Seq(Nat) /\ Len(<<>>) = 0
  BY EmptySeq
<1>3. building = [buffer |-> building.buffer, set |-> building.set] /\ building.buffer = <<>>
  BY <1>1 DEF Init, NoMsg
<1>4. QED
  BY <1>1, <1>2, <1>3, NothingIs DEF Init, Typed

\* What the sender sends.
LEMMA SendTyped ==
  ASSUME Typed, NEW msg \in MessageOf, NEW bytes \in Seq(Symbol), SendBytes(msg, bytes)
  PROVE  /\ sent' \in Seq(MessageOf) /\ stream' \in Seq(Symbol) /\ ends' \in Seq(Nat)
         /\ taken \in 0..Len(stream')
<1>1. sent' = Append(sent, msg) /\ stream' = stream \o bytes /\ ends' = Append(ends, Len(stream'))
  BY DEF SendBytes
<1>2. stream' \in Seq(Symbol) /\ Len(stream') = Len(stream) + Len(bytes)
  BY <1>1, ConcatProperties DEF Typed
<1>3. Len(stream') \in Nat /\ Len(stream) \in Nat /\ Len(bytes) \in Nat
  BY <1>2, LenProperties DEF Typed
<1>4. QED
  BY <1>1, <1>2, <1>3, AppendProperties DEF Typed

\* Each of the actions keeps the types, from here on.
LEMMA SendRequestTyped ==
  ASSUME Typed, NEW r \in Requests, SendRequest(r)
  PROVE  Typed'
<1> DEFINE msg == [line |-> r.line, headers |-> r.headers, body |-> r.body, usual |-> WellFormed(r)]
<1>1. msg \in MessageOf /\ Bytes(r) = Bytes(msg)
  <2>1. /\ r.line \in [1..3 -> Seq(Symbol)] /\ r.headers \in Seq(Seq(Symbol)) /\ r.body \in Seq(Symbol)
    BY RequestsAssumption
  <2>2. WellFormed(r) \in BOOLEAN
    BY DEF WellFormed
  <2>3. QED
    BY <2>1, <2>2, MessageOfIs DEF Bytes
<1>2. Bytes(r) \in Seq(Symbol)
  BY <1>1, BytesTyped
<1>3. SendBytes(msg, Bytes(r)) /\ UNCHANGED <<kind, building, meant, calls, receiverVars>>
  BY DEF SendRequest
<1> HIDE DEF msg
<1>4. QED
  BY <1>1, <1>2, <1>3, SendTyped DEF Typed, receiverVars

\* A response.
LEMMA SendHttpMsgTyped ==
  ASSUME Typed, SendHttpMsg
  PROVE  Typed'
<1> DEFINE msg == [meant EXCEPT !.usual = @ /\ "BODY" \in building.set]
<1>1. msg \in MessageOf
  BY DEF Typed, MessageOf
<1>2. building.buffer \in Seq(Symbol)
  BY DEF Typed
<1>3. SendBytes(msg, building.buffer) /\ building' = NoMsg /\ meant' = Nothing
      /\ UNCHANGED <<kind, calls, receiverVars>>
  BY DEF SendHttpMsg
<1> HIDE DEF msg
<1>4. building' = [buffer |-> building'.buffer, set |-> building'.set] /\ building'.buffer \in Seq(Symbol)
  BY <1>3, EmptySeq DEF NoMsg
<1>5. QED
  BY <1>1, <1>2, <1>3, <1>4, SendTyped, NothingIs DEF Typed, receiverVars

\* What the setters leave.
LEMMA SetTyped ==
  ASSUME Typed, Buffered(building'), meant' \in MessageOf,
         UNCHANGED <<kind, sent, stream, ends, receiverVars>>
  PROVE  Typed'
BY DEF Typed, Buffered, receiverVars

\* What the application sets is symbols.
LEMMA PartTextTyped ==
  ASSUME NEW i \in 1..3
  PROVE  PartText(i) \in Seq(Symbol)
BY WordsAre, PhraseAssumption DEF PartText

\* The first line.
LEMMA SetFirstLineTyped ==
  ASSUME Typed, NEW i \in 1..3, SetFirstLine(i)
  PROVE  Typed'
<1>1. PICK t \in Seq(Symbol) : t = PartText(i)
  BY PartTextTyped
<1>2. /\ building' = SetLine(building, i, t) /\ meant' = [meant EXCEPT !.line[i] = t]
      /\ UNCHANGED <<kind, sent, stream, ends, receiverVars>>
  BY <1>1 DEF SetFirstLine
<1>3. Buffered(building)
  BY DEF Typed, Buffered
<1>4. Buffered(building')
  BY <1>2, <1>3, SettersTyped
<1>5. meant' \in MessageOf
  BY <1>2 DEF Typed, MessageOf
<1>6. QED
  BY <1>2, <1>4, <1>5, SetTyped

\* One more header.
LEMMA HeaderTyped ==
  ASSUME NEW r \in MessageOf, NEW what \in {"Location", "Content-Type", "Server"}, NEW u \in BOOLEAN
  PROVE  [r EXCEPT !.headers = Append(@, <<Word(what)>>), !.usual = u] \in MessageOf
<1>1. <<Word(what)>> \in Seq(Symbol)
  BY WordsAre
<1>2. Append(r.headers, <<Word(what)>>) \in Seq(Seq(Symbol))
  BY <1>1, AppendProperties DEF MessageOf
<1>3. QED
  BY <1>2 DEF MessageOf

\* A header.
LEMMA SetOneHeaderTyped ==
  ASSUME Typed, NEW what \in {"Location", "Content-Type"}, SetOneHeader(what)
  PROVE  Typed'
<1>1. Buffered(building)
  BY DEF Typed, Buffered
<1>2. Buffered(building')
  BY <1>1, SettersTyped DEF SetOneHeader
<1>3. PICK u \in BOOLEAN : u = (meant.usual /\ "BODY" \notin building.set)
  BY DEF Typed, MessageOf
<1>4. meant' = [meant EXCEPT !.headers = Append(@, <<Word(what)>>), !.usual = u]
  BY <1>3 DEF SetOneHeader
<1>5. meant \in MessageOf /\ what \in {"Location", "Content-Type", "Server"}
  BY DEF Typed
<1>6. meant' \in MessageOf
  BY <1>4, <1>5, HeaderTyped
<1>7. UNCHANGED <<kind, sent, stream, ends, receiverVars>>
  BY DEF SetOneHeader
<1>8. QED
  BY <1>2, <1>6, <1>7, SetTyped

\* A header set by pointer.
LEMMA SetServerTyped ==
  ASSUME Typed, SetServerOrDate("Server")
  PROVE  Typed'
<1>1. Buffered(building)
  BY DEF Typed, Buffered
<1>2. Buffered(building')
  BY <1>1, SettersTyped DEF SetServerOrDate
<1>3. meant' = [meant EXCEPT !.headers = Append(@, <<Word("Server")>>), !.usual = FALSE]
  BY DEF SetServerOrDate
<1>4. meant' \in MessageOf
  BY <1>3, HeaderTyped DEF Typed
<1>5. UNCHANGED <<kind, sent, stream, ends, receiverVars>>
  BY DEF SetServerOrDate
<1>6. QED
  BY <1>2, <1>4, <1>5, SetTyped

\* The cases of FirstLine, one by one.
LEMMA FirstLineIs ==
  ASSUME NEW r
  PROVE  /\ FirstLine(r, 0) = <<>>
         /\ FirstLine(r, 1) = r.line[1] \o <<SP>>
         /\ FirstLine(r, 2) = r.line[1] \o <<SP>> \o r.line[2] \o <<SP>>
         /\ FirstLine(r, 3) = r.line[1] \o <<SP>> \o r.line[2] \o <<SP>> \o r.line[3] \o CRLF
<1>1. 0 # 1 /\ 0 # 2 /\ 0 # 3 /\ 1 # 2 /\ 1 # 3 /\ 2 # 3
  OBVIOUS
<1>2. FirstLine(r, 0) = <<>>
  BY <1>1, Zenon DEF FirstLine
<1>3. FirstLine(r, 1) = r.line[1] \o <<SP>>
  BY <1>1, Zenon DEF FirstLine
<1>4. FirstLine(r, 2) = r.line[1] \o <<SP>> \o r.line[2] \o <<SP>>
  BY <1>1, Zenon DEF FirstLine
<1>5. FirstLine(r, 3) = r.line[1] \o <<SP>> \o r.line[2] \o <<SP>> \o r.line[3] \o CRLF
  BY <1>1, Zenon DEF FirstLine
<1>6. QED
  BY <1>2, <1>3, <1>4, <1>5

\* What SetBody writes last, and the header it adds.
Ending(body) == <<LengthLine(Len(body))>> \o CRLF \o CRLF \o body

\* What SetBody writes at last.
LEMMA EndingTyped ==
  ASSUME NEW body \in Seq(Symbol)
  PROVE  /\ LengthLine(Len(body)) \in Symbol
         /\ <<LengthLine(Len(body))>> \in Seq(Symbol)
         /\ Ending(body) \in Seq(Symbol)
<1>1. LengthLine(Len(body)) \in Symbol
  BY LenProperties, TextsAssumption DEF LengthLine, Symbol
<1>2. PICK l \in Seq(Symbol) : l = <<LengthLine(Len(body))>>
  <2>1. PICK w \in Symbol : w = LengthLine(Len(body))
    BY <1>1
  <2>2. <<w>> \in Seq(Symbol)
    OBVIOUS
  <2>3. QED
    BY <2>1, <2>2, Zenon
<1>3. (l \o CRLF) \o CRLF \in Seq(Symbol)
  BY WordsAre, ConcatProperties
<1>4. ((l \o CRLF) \o CRLF) \o body \in Seq(Symbol)
  BY <1>3, ConcatProperties
<1>5. QED
  BY <1>1, <1>2, <1>4 DEF Ending

\* The first line SetBody fills in, and the header lines.
Filled(b) == FillLine(FillLine(FillLine(b, 1), 2), 3)
WithType(b) == IF "Content-Type" \in b.set THEN Filled(b) ELSE SetHeader(Filled(b), "Content-Type")

\* SetBody writes the missing lines, a content type, and the ending.
LEMMA SetBodyIs ==
  ASSUME NEW b, Buffered(b), NEW body \in Seq(Symbol)
  PROVE  /\ Buffered(Filled(b)) /\ Buffered(WithType(b)) /\ Buffered(SetBody(b, body))
         /\ SetBody(b, body) = Put(WithType(b), "BODY", Ending(body))
<1>1. Buffered(Filled(b))
  <2>1. Buffered(FillLine(b, 1))
    BY SettersTyped
  <2>2. Buffered(FillLine(FillLine(b, 1), 2))
    BY <2>1, SettersTyped
  <2>3. QED
    BY <2>2, SettersTyped DEF Filled
<1>2. Buffered(WithType(b))
  BY <1>1, SettersTyped DEF WithType
<1>3. SetBody(b, body) = Put(WithType(b), "BODY", Ending(body))
  BY Zenon DEF SetBody, WithType, Filled, Ending
<1>4. Buffered(SetBody(b, body))
  <2>1. PICK t, e : t = WithType(b) /\ e = Ending(body) /\ t.buffer \in Seq(Symbol) /\ e \in Seq(Symbol)
    BY <1>2, EndingTyped DEF Buffered
  <2>2. Buffered(Put(t, "BODY", e))
    BY <2>1, PutIs DEF Buffered
  <2>3. QED
    BY <1>3, <2>1, <2>2
<1>5. QED
  BY <1>1, <1>2, <1>3, <1>4

\* The lines of the message SetBody is asked for.
FilledLines(r, set) ==
  [i \in 1..3 |-> IF LineField[i] \in set THEN r.line[i] ELSE Default[LineField[i]]]
FilledHeaders(r, set, body) ==
  (IF "Content-Type" \in set THEN r.headers ELSE Append(r.headers, <<Word("Content-Type")>>))
    \o <<<<LengthLine(Len(body))>>>>

\* The parts SetBody gives a first line that has none.
LEMMA DefaultsAre ==
  /\ Default[LineField[1]] = <<Word("HTTP/1.1")>> /\ Default[LineField[2]] = <<Word("200")>>
  /\ Default[LineField[3]] = <<Word("OK")>>
  /\ \A i \in 1..3 : Default[LineField[i]] \in Seq(Symbol)
<1>1. LineField[1] = "VER" /\ LineField[2] = "STATUS_CODE" /\ LineField[3] = "STATUS_PHRASE"
  BY DEF LineField
<1>2. /\ Default["VER"] = <<Word("HTTP/1.1")>> /\ Default["STATUS_CODE"] = <<Word("200")>>
      /\ Default["STATUS_PHRASE"] = <<Word("OK")>>
  BY DEF Default
<1>3. /\ <<Word("HTTP/1.1")>> \in Seq(Symbol) /\ <<Word("200")>> \in Seq(Symbol)
      /\ <<Word("OK")>> \in Seq(Symbol)
  BY WordsAre
<1>4. \A i \in 1..3 : i = 1 \/ i = 2 \/ i = 3
  OBVIOUS
<1>5. QED
  BY <1>1, <1>2, <1>3, <1>4

\* What is meant once SetBody has filled in the rest is a message.
LEMMA FilledTyped ==
  ASSUME NEW r \in MessageOf, NEW set, NEW body \in Seq(Symbol)
  PROVE  /\ FilledLines(r, set) \in [1..3 -> Seq(Symbol)]
         /\ FilledHeaders(r, set, body) \in Seq(Seq(Symbol))
<1>1. FilledLines(r, set) \in [1..3 -> Seq(Symbol)]
  BY DefaultsAre DEF FilledLines, MessageOf
<1>2. <<Word("Content-Type")>> \in Seq(Symbol) /\ r.headers \in Seq(Seq(Symbol))
  BY WordsAre DEF MessageOf
<1>3. PICK hs \in Seq(Seq(Symbol)) :
        hs = IF "Content-Type" \in set THEN r.headers ELSE Append(r.headers, <<Word("Content-Type")>>)
  BY <1>2, AppendProperties
<1>4. PICK l \in Seq(Symbol) : l = <<LengthLine(Len(body))>>
  BY EndingTyped
<1>5. hs \o <<l>> \in Seq(Seq(Symbol))
  BY ConcatProperties
<1>6. QED
  BY <1>1, <1>3, <1>4, <1>5 DEF FilledHeaders

\* What SetMsgBody does to the variables, its parts named.
LEMMA SetMsgBodyIs ==
  ASSUME Typed, NEW body \in Bodies, SetMsgBody(body)
  PROVE  /\ body \in Seq(Symbol) /\ Buffered(building)
         /\ building' = SetBody(building, body)
         /\ meant' = [line |-> FilledLines(meant, building.set),
                      headers |-> FilledHeaders(meant, building.set, body),
                      body |-> body, usual |-> meant.usual]
         /\ meant' \in MessageOf
         /\ UNCHANGED <<kind, sent, stream, ends, receiverVars>>
<1>1. body \in Seq(Symbol)
  BY BodiesAssumption
<1>2. /\ building' = SetBody(building, body) /\ Buffered(building)
      /\ UNCHANGED <<kind, sent, stream, ends, receiverVars>>
  BY DEF SetMsgBody, Typed, Buffered
<1>3. PICK l, hs : l = FilledLines(meant, building.set) /\ hs = FilledHeaders(meant, building.set, body)
  OBVIOUS
<1>4. meant' = [meant EXCEPT !.line = l, !.headers = hs, !.body = body]
  BY <1>3 DEF SetMsgBody, FilledLines, FilledHeaders
<1>5. meant \in MessageOf
  BY DEF Typed
<1>6. meant' = [line |-> l, headers |-> hs, body |-> body, usual |-> meant.usual]
  BY <1>4, <1>5 DEF MessageOf
<1>7. l \in [1..3 -> Seq(Symbol)] /\ hs \in Seq(Seq(Symbol)) /\ meant.usual \in BOOLEAN
  BY <1>1, <1>3, <1>5, FilledTyped, MessageOfIs
<1>8. meant' \in MessageOf
  BY <1>1, <1>6, <1>7, MessageOfIs
<1>9. QED
  BY <1>1, <1>2, <1>3, <1>6, <1>8

\* The body.
LEMMA SetMsgBodyTyped ==
  ASSUME Typed, NEW body \in Bodies, SetMsgBody(body)
  PROVE  Typed'
<1>1. Buffered(building')
  BY SetMsgBodyIs, SetBodyIs
<1>2. QED
  BY <1>1, SetMsgBodyIs, SetTyped

\* A chunk.
LEMMA ReadTyped ==
  ASSUME Typed, NEW k \in 1..Len(stream) - taken, Read(k)
  PROVE  Typed'
<1>1. /\ stream \in Seq(Symbol) /\ taken \in 0..Len(stream) /\ Len(stream) \in Nat /\ k \in Nat
      /\ taken + k <= Len(stream)
  BY LenProperties DEF Typed, Read
<1>2. /\ chunk' = SubSeq(stream, taken + 1, taken + k) /\ taken' = taken + k
      /\ aligned' \in BOOLEAN /\ UNCHANGED <<kind, senderVars, httpmsg, received>>
  BY DEF Read, Typed
<1>3. PICK a \in Nat, b \in Nat : a = taken + 1 /\ b = taken + k /\ 1 <= a /\ b <= Len(stream)
  BY <1>1
<1>4. \A i \in a..b : stream[i] \in Symbol
  BY <1>1, <1>3, ElementOfSeq
<1>5. chunk' \in Seq(Symbol)
  BY <1>2, <1>3, <1>4, SubSeqProperties
<1>6. taken' \in 0..Len(stream)
  BY <1>1, <1>2
<1>7. QED
  BY <1>2, <1>5, <1>6 DEF Typed, senderVars

\* What Parse leaves of a chunk.
LEMMA ParseTyped ==
  ASSUME Typed
  PROVE  /\ Underway([msg |-> httpmsg, rest |-> chunk]) /\ kind \in {"svr", "cli"}
         /\ Parse(httpmsg, chunk).rest \in Seq(Symbol)
<1>1. kind \in {"svr", "cli"} /\ httpmsg = Cleared(kind) /\ chunk \in Seq(Symbol)
  BY KindsAssumption DEF Typed
<1>2. Kept(httpmsg)
  BY <1>1, ClearedKept
<1>3. Underway([msg |-> httpmsg, rest |-> chunk])
  BY <1>1, <1>2 DEF Underway
<1>4. Underway(ParseOf([msg |-> httpmsg, rest |-> chunk]))
  BY <1>3, ParseEnds
<1>5. QED
  BY <1>1, <1>3, <1>4 DEF Underway, ParseOf

\* A message cut.
LEMMA CutMsgPackTyped ==
  ASSUME Typed, CutMsgPack
  PROVE  Typed'
<1>1. /\ httpmsg' = Cleared(kind) /\ chunk' = Parse(httpmsg, chunk).rest
      /\ UNCHANGED <<kind, senderVars, taken, reads, aligned>>
  BY DEF CutMsgPack
<1>2. chunk' \in Seq(Symbol)
  BY <1>1, ParseTyped
<1>3. QED
  BY <1>1, <1>2 DEF Typed, senderVars

\* Every step keeps the types.
LEMMA TypedStep ==
  ASSUME Typed, [Next]_vars
  PROVE  Typed'
<1>1. CASE \E r \in Requests : SendRequest(r)
  BY <1>1, SendRequestTyped
<1>2. CASE \E i \in 1..3 : SetFirstLine(i)
  BY <1>2, SetFirstLineTyped
<1>3. CASE \E what \in {"Location", "Content-Type"} : SetOneHeader(what)
  BY <1>3, SetOneHeaderTyped
<1>4. CASE SetServerOrDate("Server")
  BY <1>4, SetServerTyped
<1>5. CASE \E body \in Bodies : SetMsgBody(body)
  BY <1>5, SetMsgBodyTyped
<1>6. CASE SendHttpMsg
  BY <1>6, SendHttpMsgTyped
<1>7. CASE \E k \in 1..Len(stream) - taken : Read(k)
  BY <1>7, ReadTyped
<1>8. CASE CutMsgPack
  BY <1>8, CutMsgPackTyped
<1>9. CASE UNCHANGED vars
  BY <1>9 DEF Typed, vars, senderVars, receiverVars
<1>10. QED
  BY <1>1, <1>2, <1>3, <1>4, <1>5, <1>6, <1>7, <1>8, <1>9 DEF Next

\* The messages, the bytes and the positions are what they should be.
THEOREM HttpTypes == Spec => []Typed
<1>1. Init => Typed
  BY TypedInit
<1>2. Typed /\ [Next]_vars => Typed'
  BY TypedStep
<1>3. QED
  BY <1>1, <1>2, PTL DEF Spec

\* Parse can be resumed: a chunk of any length, cut at any place, gives what it
\* gives when parsed at once (HttpBaseRecvMsg keeps what it consumed).
THEOREM HttpParseResumes == Spec => []ParseResumes
<1>1. Typed => ParseResumes
  <2>1. SUFFICES ASSUME Typed, NEW k \in 1..Len(chunk) - 1
                 PROVE  LET first == Parse(httpmsg, SubSeq(chunk, 1, k))
                            second == Parse(first.msg, first.rest \o After(chunk, k))
                        IN  second = Parse(httpmsg, chunk)
    BY DEF ParseResumes
  <2>2. chunk \in Seq(Symbol) /\ Len(chunk) \in Nat /\ k \in Nat /\ k < Len(chunk)
    BY <2>1, LenProperties DEF Typed
  <2>3. PICK a \in Seq(Symbol), b \in Seq(Symbol) :
          a = SubSeq(chunk, 1, k) /\ b = After(chunk, k) /\ a \o b = chunk
    <3>1. \A i \in 1..Len(chunk) : chunk[i] \in Symbol
      BY <2>2, ElementOfSeq
    <3>2. SubSeq(chunk, 1, k) \in Seq(Symbol)
      BY <2>2, <3>1, SubSeqProperties
    <3>3. SubSeq(chunk, k + 1, Len(chunk)) \in Seq(Symbol)
      BY <2>2, <3>1, SubSeqProperties
    <3>4. SubSeq(chunk, 1, k) \o SubSeq(chunk, k + 1, Len(chunk)) = SubSeq(chunk, 1, Len(chunk))
      BY <2>2, ConcatAdjacentSubSeq
    <3>5. SubSeq(chunk, 1, Len(chunk)) = chunk
      BY <2>2, SubSeqFull
    <3>6. QED
      BY <3>2, <3>3, <3>4, <3>5 DEF After
  <2>4. PICK x : x = [msg |-> httpmsg, rest |-> a]
    OBVIOUS
  <2>5. Kept(httpmsg)
    BY <2>1, ParseTyped DEF Underway
  <2>6. Underway(x)
    BY <2>4, <2>5 DEF Underway
  <2>7. ParseOf(Longer(ParseOf(x), b)) = ParseOf(Longer(x, b))
    BY <2>6, ParseGoesOn
  <2>8. PICK y : y = ParseOf(x) /\ y = Parse(httpmsg, a)
    BY <2>4 DEF ParseOf
  <2>9. ParseOf(Longer(y, b)) = Parse(y.msg, y.rest \o b)
    BY DEF ParseOf, Longer
  <2>10. ParseOf(Longer(x, b)) = Parse(httpmsg, chunk)
    BY <2>3, <2>4 DEF ParseOf, Longer
  <2>11. QED
    BY <2>3, <2>7, <2>8, <2>9, <2>10
<1>2. QED
  BY <1>1, HttpTypes, PTL

-----------------------------------------------------------------------------
(* What the setters build.                                                 *)

\* The flags of the parts of the first line are three, and no header's.
LEMMA FieldsAre ==
  /\ LineField[1] = "VER" /\ LineField[2] = "STATUS_CODE" /\ LineField[3] = "STATUS_PHRASE"
  /\ \A i, j \in 1..3 : LineField[i] = LineField[j] => i = j
  /\ \A i \in 1..3 : LineField[i] \notin {"BODY", "Location", "Content-Type", "Server"}
<1>1. LineField[1] = "VER" /\ LineField[2] = "STATUS_CODE" /\ LineField[3] = "STATUS_PHRASE"
  BY DEF LineField
<1>2. \A i \in 1..3 : i = 1 \/ i = 2 \/ i = 3
  OBVIOUS
<1>3. \A i, j \in 1..3 : LineField[i] = LineField[j] => i = j
  BY <1>1, <1>2
<1>4. \A i \in 1..3 : LineField[i] \notin {"BODY", "Location", "Content-Type", "Server"}
  BY <1>1, <1>2
<1>5. QED
  BY <1>1, <1>3, <1>4

\* Without headers no bytes of headers.
LEMMA NoHeaderLines ==
  ASSUME NEW f \in Seq(Symbol)
  PROVE  f \o HeaderLines(<<>>) = f
<1>1. <<>> \in Seq(Seq(Symbol))
  BY EmptySeq
<1>2. HeaderLines(<<>>) = <<>>
  BY <1>1, HeaderLinesTyped
<1>3. f \o <<>> = f
  BY ConcatEmptySeq
<1>4. QED
  BY <1>2, <1>3

\* The empty line is one.
LEMMA EmptyIsLine == IsLine(<<>>) /\ Len(<<>>) = 0
BY EmptySeq DEF IsLine

\* Nothing, to begin with.
LEMMA NothingBuilt == Open(NoMsg, Nothing, 0)
<1>1. NoMsg.set = {} /\ NoMsg.buffer = <<>>
  BY DEF NoMsg
<1>2. InLine(0, {})
  BY DEF InLine
<1>3. PICK f \in Seq(Symbol) : f = <<>>
  BY EmptySeq
<1>4. FirstLine(Nothing, 0) \o HeaderLines(Nothing.headers) = <<>>
  BY <1>3, FirstLineIs, NothingIs, NoHeaderLines
<1>5. LinesGood(Nothing)
  <2>1. \A i \in 1..3 : Nothing.line[i] = <<>> /\ 1..Len(Nothing.line[i]) = {}
    BY NothingIs, EmptyIsLine
  <2>2. 1..Len(Nothing.headers) = {}
    BY NothingIs, EmptyIsLine
  <2>3. QED
    BY <2>1, <2>2, EmptyIsLine DEF LinesGood
<1>6. QED
  BY <1>1, <1>2, <1>4, <1>5, NothingIs DEF Open

\* The front of a first line is symbols.
LEMMA FirstLineTyped ==
  ASSUME NEW r \in MessageOf, NEW n \in 0..3
  PROVE  FirstLine(r, n) \in Seq(Symbol)
<1>1. PICK a \in Seq(Symbol), b \in Seq(Symbol), c \in Seq(Symbol) :
        a = r.line[1] /\ b = r.line[2] /\ c = r.line[3]
  BY DEF MessageOf
<1>2. PICK p \in Seq(Symbol), e \in Seq(Symbol) : p = <<SP>> /\ e = CRLF
  BY WordsAre
<1>3. PICK z \in Seq(Symbol) : z = <<>>
  BY EmptySeq
<1>4. a \o p \in Seq(Symbol) /\ a \o p \o b \o p \in Seq(Symbol) /\ a \o p \o b \o p \o c \o e \in Seq(Symbol)
  BY ConcatProperties
<1>5. n = 0 \/ n = 1 \/ n = 2 \/ n = 3
  OBVIOUS
<1>6. QED
  BY <1>1, <1>2, <1>3, <1>4, <1>5, FirstLineIs

\* One more part of the first line.
Separator(i) == IF i = 3 THEN CRLF ELSE <<SP>>

\* q is r with t as the i-th part of its first line.
WithPart(q, r, i, t) == q.line[i] = t /\ \A j \in 1..3 : j # i => q.line[j] = r.line[j]
\* The first line of q is that of r with its next part.
LineGrows(q, r, i, n, t) == FirstLine(q, i) = FirstLine(r, n) \o (t \o Separator(i))

\* Its next part, and what separates it, is written behind it.
LEMMA FirstLineGrows ==
  ASSUME NEW r \in MessageOf, NEW i \in 1..3, NEW t \in Seq(Symbol), NEW q \in MessageOf,
         WithPart(q, r, i, t), NEW n, n = i - 1
  PROVE  LineGrows(q, r, i, n, t)
<1>1. PICK a \in Seq(Symbol), b \in Seq(Symbol) : a = r.line[1] /\ b = r.line[2]
  BY DEF MessageOf
<1>2. PICK p \in Seq(Symbol), e \in Seq(Symbol) : p = <<SP>> /\ e = CRLF
  BY WordsAre
<1>3. \A x, y \in Seq(Symbol) : \E z \in Seq(Symbol) : Sum(z, x, y)
  BY ConcatProperties DEF Sum
<1>4. CASE i = 1
  <2>1. FirstLine(q, i) = t \o p /\ FirstLine(r, n) = <<>> /\ Separator(i) = p
    <3>1. n = 0 /\ q.line[1] = t
      BY <1>4 DEF WithPart
    <3>2. Separator(i) = p
      BY <1>2, <1>4 DEF Separator
    <3>3. FirstLine(q, 1) = q.line[1] \o <<SP>> /\ FirstLine(r, 0) = <<>>
      BY FirstLineIs
    <3>4. QED
      BY <1>2, <1>4, <3>1, <3>2, <3>3
  <2>2. PICK x \in Seq(Symbol) : x = t \o p
    BY ConcatProperties
  <2>3. <<>> \o x = x
    BY ConcatEmptySeq
  <2>4. QED
    BY <2>1, <2>2, <2>3 DEF LineGrows
<1>5. CASE i = 2
  <2>1. n = 1 /\ q.line[1] = a /\ q.line[2] = t
    BY <1>1, <1>5 DEF WithPart
  <2>2. FirstLine(q, i) = ((a \o p) \o t) \o p /\ FirstLine(r, n) = a \o p /\ Separator(i) = p
    <3>1. Separator(i) = p
      BY <1>2, <1>5 DEF Separator
    <3>2. /\ FirstLine(q, 2) = q.line[1] \o <<SP>> \o q.line[2] \o <<SP>>
          /\ FirstLine(r, 1) = r.line[1] \o <<SP>>
      BY FirstLineIs
    <3>3. QED
      BY <1>1, <1>2, <1>5, <2>1, <3>1, <3>2
  <2>3. PICK f \in Seq(Symbol) : Sum(f, a, p)
    BY <1>3
  <2>4. PICK x \in Seq(Symbol) : Sum(x, f, t)
    BY <1>3
  <2>5. PICK y \in Seq(Symbol), z \in Seq(Symbol) : Sum(y, t, p) /\ Sum(z, x, p)
    BY <1>3
  <2>6. Sum(z, f, y)
    BY <2>4, <2>5, SumAssociates
  <2>7. QED
    BY <2>2, <2>3, <2>4, <2>5, <2>6 DEF Sum, LineGrows
<1>6. CASE i = 3
  <2>1. n = 2 /\ q.line[1] = a /\ q.line[2] = b /\ q.line[3] = t
    BY <1>1, <1>6 DEF WithPart
  <2>2. PICK f \in Seq(Symbol) : f = ((a \o p) \o b) \o p
    BY ConcatProperties
  <2>3. FirstLine(q, i) = (f \o t) \o e /\ FirstLine(r, n) = f /\ Separator(i) = e
    BY <1>1, <1>2, <1>6, <2>1, <2>2, FirstLineIs DEF Separator
  <2>4. PICK x \in Seq(Symbol) : Sum(x, f, t)
    BY <1>3
  <2>5. PICK y \in Seq(Symbol), z \in Seq(Symbol) : Sum(y, t, e) /\ Sum(z, x, e)
    BY <1>3
  <2>6. Sum(z, f, y)
    BY <2>4, <2>5, SumAssociates
  <2>7. QED
    BY <2>3, <2>4, <2>5, <2>6 DEF Sum, LineGrows
<1>7. i = 1 \/ i = 2 \/ i = 3
  OBVIOUS
<1>8. QED
  BY <1>4, <1>5, <1>6, <1>7, Zenon

\* What may stand at the i-th place of a first line.
LineGood(i, t) == IF i = 3 THEN IsLine(t) ELSE \A j \in 1..Len(t) : t[j] # SP

\* Setting the next part of the first line keeps the buffer as meant.
LEMMA OpenLine ==
  ASSUME NEW b, Buffered(b), NEW r \in MessageOf, NEW n, Open(b, r, n), NEW i \in 1..3, n = i - 1,
         NEW t \in Seq(Symbol), LineGood(i, t), NEW q \in MessageOf, q = [r EXCEPT !.line[i] = t]
  PROVE  Open(SetLine(b, i, t), q, i)
<1> DEFINE c == SetLine(b, i, t)
<1>1. Separator(i) \in Seq(Symbol) /\ t \o Separator(i) \in Seq(Symbol)
  BY WordsAre, ConcatProperties DEF Separator
<1>2. b.buffer \in Seq(Symbol)
  BY DEF Buffered
<1>3. c.buffer = b.buffer \o (t \o Separator(i)) /\ c.set = b.set \cup {LineField[i]}
  <2>1. SetLine(b, i, t) = Put(b, LineField[i], t \o Separator(i))
    BY DEF SetLine, Separator
  <2>2. PICK x \in Seq(Symbol) : x = t \o Separator(i)
    BY <1>1
  <2>3. PICK w : w = LineField[i]
    OBVIOUS
  <2>4. Put(b, w, x).buffer = b.buffer \o x /\ Put(b, w, x).set = b.set \cup {w}
    BY <1>2, PutIs
  <2>5. QED
    BY <2>1, <2>2, <2>3, <2>4
<1>4. /\ q.headers = r.headers /\ q.body = r.body /\ q.line[i] = t
      /\ \A j \in 1..3 : j # i => q.line[j] = r.line[j]
      /\ WithPart(q, r, i, t) /\ i \in 0..3
  BY DEF MessageOf, WithPart
<1>5. r.headers = <<>> /\ n \in 0..3 /\ n < 3
  BY DEF Open
<1>6. b.buffer = FirstLine(r, n)
  BY <1>5, FirstLineTyped, NoHeaderLines DEF Open
<1>7. c.buffer = FirstLine(q, i) \o HeaderLines(q.headers)
  <2>1. FirstLine(q, i) = FirstLine(r, n) \o (t \o Separator(i))
    <3>1. LineGrows(q, r, i, n, t)
      BY <1>4, FirstLineGrows
    <3>2. QED
      BY <3>1 DEF LineGrows
  <2>2. FirstLine(q, i) \o HeaderLines(<<>>) = FirstLine(q, i)
    BY <1>4, FirstLineTyped, NoHeaderLines
  <2>3. QED
    BY <1>3, <1>4, <1>5, <1>6, <2>1, <2>2
<1>8. "BODY" \notin c.set
  BY <1>3, FieldsAre DEF Open
<1>9. InLine(i, c.set)
  <2>1. SUFFICES ASSUME NEW j \in 1..3 PROVE LineField[j] \in c.set <=> j <= i
    BY DEF InLine
  <2>2. LineField[j] \in b.set <=> j <= i - 1
    BY DEF Open, InLine
  <2>3. LineField[j] = LineField[i] <=> j = i
    BY FieldsAre
  <2>4. QED
    BY <1>3, <2>2, <2>3
<1>10. LinesGood(q)
  <2>1. /\ \A j \in 1..2 : \A k \in 1..Len(r.line[j]) : r.line[j][k] # SP
        /\ IsLine(r.line[3]) /\ r.headers = <<>>
    BY <1>5 DEF Open, LinesGood
  <2>2. ASSUME NEW j \in 1..2 PROVE \A k \in 1..Len(q.line[j]) : q.line[j][k] # SP
    <3>1. CASE j = i
      BY <1>4, <3>1 DEF LineGood
    <3>2. CASE j # i
      BY <1>4, <2>1, <3>2
    <3>3. QED
      BY <3>1, <3>2
  <2>3. IsLine(q.line[3])
    <3>1. CASE i = 3
      BY <1>4, <3>1 DEF LineGood
    <3>2. CASE i # 3
      BY <1>4, <2>1, <3>2
    <3>3. QED
      BY <3>1, <3>2
  <2>4. 1..Len(q.headers) = {}
    BY <1>4, <1>5, EmptyIsLine
  <2>5. QED
    BY <2>2, <2>3, <2>4 DEF LinesGood
<1>11. QED
  BY <1>4, <1>5, <1>7, <1>8, <1>9, <1>10 DEF Open

\* hs is the headers of r with one more line, w.
Headed(hs, r, w) ==
  /\ hs \in Seq(Seq(Symbol)) /\ Len(hs) = Len(r.headers) + 1
  /\ hs[Len(r.headers) + 1] = w
  /\ \A i \in 1..Len(r.headers) : hs[i] = r.headers[i] /\ hs[i][1].text # "Content-Length"
  /\ \A i \in 1..Len(hs) : hs[i] # <<>> /\ IsLine(hs[i])

\* A header line more, none of which is the length's.
LEMMA GoodHeader ==
  ASSUME NEW r \in MessageOf, LinesGood(r), NEW w \in Seq(Symbol), w # <<>>, IsLine(w), NEW hs,
         hs = Append(r.headers, w)
  PROVE  Headed(hs, r, w)
<1>1. PICK l \in Nat : l = Len(r.headers)
  BY LenProperties DEF MessageOf
<1>2. r.headers \in Seq(Seq(Symbol))
  BY DEF MessageOf
<1>3. /\ hs \in Seq(Seq(Symbol)) /\ Len(hs) = l + 1 /\ hs[l + 1] = w
      /\ \A i \in 1..l : hs[i] = r.headers[i]
  BY <1>1, <1>2, AppendProperties
<1>4. \A i \in 1..l : /\ r.headers[i] # <<>> /\ IsLine(r.headers[i])
                      /\ r.headers[i][1].text # "Content-Length"
  BY <1>1 DEF LinesGood
<1>5. \A i \in 1..l + 1 : i \in 1..l \/ i = l + 1
  BY <1>1
<1>6. \A i \in 1..l + 1 : hs[i] # <<>> /\ IsLine(hs[i])
  BY <1>3, <1>4, <1>5
<1>7. QED
  BY <1>1, <1>3, <1>4, <1>6 DEF Headed

\* A word is a line of its own.
LEMMA OneWord ==
  ASSUME NEW w \in Symbol
  PROVE  <<w>> \in Seq(Symbol) /\ <<w>> # <<>> /\ IsLine(<<w>>) /\ <<w>>[1] = w
<1>1. Len(<<w>>) = 1 /\ <<w>> \in Seq(Symbol)
  OBVIOUS
<1>2. \A i \in 1..1 - 1 : FALSE
  OBVIOUS
<1>3. IsLine(<<w>>)
  BY <1>1, <1>2 DEF IsLine
<1>4. QED
  BY <1>1, <1>3, EmptySeq

\* What is written behind the header lines.
LEMMA SameLine ==
  ASSUME NEW r, NEW q, q.line = r.line
  PROVE  FirstLine(q, 3) = FirstLine(r, 3)
<1>1. FirstLine(q, 3) = q.line[1] \o <<SP>> \o q.line[2] \o <<SP>> \o q.line[3] \o CRLF
  BY FirstLineIs
<1>2. FirstLine(r, 3) = r.line[1] \o <<SP>> \o r.line[2] \o <<SP>> \o r.line[3] \o CRLF
  BY FirstLineIs
<1>3. QED
  BY <1>1, <1>2

\* A message up to the blank line.
Lead(r) == FirstLine(r, 3) \o HeaderLines(r.headers)

\* A header line is written behind what is there.
LEMMA FrontGrows ==
  ASSUME NEW r \in MessageOf, NEW q \in MessageOf, q.line = r.line, NEW w \in Seq(Symbol),
         q.headers = Append(r.headers, w), NEW x, Sum(x, w, CRLF)
  PROVE  x \in Seq(Symbol) /\ Lead(r) \in Seq(Symbol) /\ Sum(Lead(q), Lead(r), x)
<1>1. r.headers \in Seq(Seq(Symbol)) /\ 3 \in 0..3
  BY DEF MessageOf
<1>2. PICK f \in Seq(Symbol), h \in Seq(Symbol) : f = FirstLine(r, 3) /\ h = HeaderLines(r.headers)
  BY <1>1, FirstLineTyped, HeaderLinesTyped
<1>3. FirstLine(q, 3) = f
  BY <1>2, SameLine
<1>4. HeaderLines(q.headers) = h \o (w \o CRLF)
  BY <1>1, <1>2, HeaderLinesAppend
<1>5. x \in Seq(Symbol) /\ x = w \o CRLF
  BY WordsAre, ConcatProperties DEF Sum
<1>6. \A u, v \in Seq(Symbol) : \E z \in Seq(Symbol) : Sum(z, u, v)
  BY ConcatProperties DEF Sum
<1>7. PICK g \in Seq(Symbol), y \in Seq(Symbol) : Sum(g, f, h) /\ Sum(y, h, x)
  BY <1>5, <1>6
<1>8. PICK z \in Seq(Symbol) : Sum(z, g, x)
  BY <1>5, <1>6
<1>9. Sum(z, f, y)
  <2>1. x \in Seq(Symbol)
    BY <1>5
  <2>2. QED
    BY <1>7, <1>8, <2>1, SumAssociates
<1>10. z = f \o y /\ z = g \o x /\ g = f \o h /\ y = HeaderLines(q.headers)
  BY <1>4, <1>5, <1>7, <1>8, <1>9 DEF Sum
<1>11. Lead(r) = g /\ Lead(q) = z
  BY <1>2, <1>3, <1>10 DEF Lead
<1>12. QED
  BY <1>5, <1>8, <1>11

\* Setting a header keeps the buffer as meant.
LEMMA OpenHeader ==
  ASSUME NEW b, Buffered(b), NEW r \in MessageOf, Open(b, r, 3),
         NEW what \in {"Location", "Content-Type"}, NEW q \in MessageOf, q.line = r.line,
         q.headers = Append(r.headers, <<Word(what)>>), q.body = r.body
  PROVE  Open(SetHeader(b, what), q, 3)
<1>1. PICK w \in Seq(Symbol) :
        /\ w = <<Word(what)>> /\ w # <<>> /\ IsLine(w) /\ w[1] = Word(what)
  <2>1. Word(what) \in Symbol
    BY WordsAre
  <2>2. QED
    BY <2>1, OneWord
<1>2. PICK x : x = w \o CRLF /\ Sum(x, w, CRLF)
  BY DEF Sum
<1>3. q.headers = Append(r.headers, w)
  BY <1>1
<1>4. x \in Seq(Symbol) /\ Sum(Lead(q), Lead(r), x)
  <2>1. Sum(x, w, CRLF)
    BY <1>2
  <2>2. QED
    BY <1>3, <2>1, FrontGrows
<1>5. /\ b.buffer = Lead(r) /\ LinesGood(r) /\ r.body = <<>>
      /\ "BODY" \notin b.set /\ InLine(3, b.set)
  BY DEF Open, Lead
<1>6. /\ SetHeader(b, what).buffer = b.buffer \o x /\ SetHeader(b, what).set = b.set \cup {what}
  <2>1. SetHeader(b, what) = Put(b, what, x)
    BY <1>1, <1>2 DEF SetHeader
  <2>2. b.buffer \in Seq(Symbol)
    BY DEF Buffered
  <2>3. QED
    BY <1>4, <2>1, <2>2, PutIs
<1>7. InLine(3, b.set \cup {what}) /\ "BODY" \notin b.set \cup {what}
  BY <1>5, FieldsAre DEF InLine
<1>8. LinesGood(q)
  <2>1. PICK hs : hs = Append(r.headers, w)
    OBVIOUS
  <2>2. PICK l \in Nat : l = Len(r.headers)
    BY LenProperties DEF MessageOf
  <2>3. /\ Len(hs) = l + 1 /\ hs[l + 1] = w
        /\ \A i \in 1..l : hs[i] = r.headers[i] /\ hs[i][1].text # "Content-Length"
        /\ \A i \in 1..Len(hs) : hs[i] # <<>> /\ IsLine(hs[i])
    <3>1. w # <<>> /\ IsLine(w) /\ LinesGood(r)
      BY <1>1, <1>5
    <3>2. Headed(hs, r, w)
      BY <2>1, <3>1, GoodHeader
    <3>3. QED
      BY <2>2, <3>2 DEF Headed
  <2>4. w[1].text # "Content-Length"
    BY <1>1 DEF Word
  <2>5. \A i \in 1..l + 1 : i \in 1..l \/ i = l + 1
    BY <2>2
  <2>6. \A i \in 1..Len(hs) : hs[i] # <<>> /\ IsLine(hs[i]) /\ hs[i][1].text # "Content-Length"
    BY <2>3, <2>4, <2>5
  <2>7. /\ \A i \in 1..2 : \A j \in 1..Len(q.line[i]) : q.line[i][j] # SP
        /\ IsLine(q.line[3])
    BY <1>5 DEF LinesGood
  <2>8. \A i \in 1..Len(q.headers) :
          q.headers[i] # <<>> /\ IsLine(q.headers[i]) /\ q.headers[i][1].text # "Content-Length"
    BY <1>3, <2>1, <2>6
  <2>9. QED
    BY <2>7, <2>8 DEF LinesGood
<1>9. SetHeader(b, what).buffer = FirstLine(q, 3) \o HeaderLines(q.headers)
  BY <1>4, <1>5, <1>6 DEF Sum, Lead
<1>10. q.body = <<>> /\ ~ (3 < 3)
  BY <1>5
<1>11. QED
  BY <1>6, <1>7, <1>8, <1>9, <1>10 DEF Open

\* Setting the body makes a whole message of it, its length announced.
LEMMA OpenBody ==
  ASSUME NEW b, Buffered(b), NEW r \in MessageOf, Open(b, r, 3), NEW body \in Seq(Symbol),
         NEW q \in MessageOf, q.line = r.line,
         q.headers = Append(r.headers, <<LengthLine(Len(body))>>), q.body = body
  PROVE  Closed(Put(b, "BODY", Ending(body)), q)
<1>1. PICK w \in Seq(Symbol) :
        /\ w = <<LengthLine(Len(body))>> /\ w # <<>> /\ IsLine(w) /\ w[1] = LengthLine(Len(body))
  <2>1. LengthLine(Len(body)) \in Symbol
    BY EndingTyped
  <2>2. QED
    BY <2>1, OneWord
<1>2. PICK x : x = w \o CRLF /\ Sum(x, w, CRLF)
  BY DEF Sum
<1>3. q.headers = Append(r.headers, w)
  BY <1>1
<1>4. x \in Seq(Symbol) /\ Sum(Lead(q), Lead(r), x)
  <2>1. Sum(x, w, CRLF)
    BY <1>2
  <2>2. QED
    BY <1>3, <2>1, FrontGrows
<1>5. b.buffer = Lead(r) /\ LinesGood(r) /\ InLine(3, b.set)
  BY DEF Open, Lead
<1>6. PICK e \in Seq(Symbol) : e = CRLF
  BY WordsAre
<1>7. \A u, v \in Seq(Symbol) : \E z \in Seq(Symbol) : Sum(z, u, v)
  BY ConcatProperties DEF Sum
<1>8. PICK g \in Seq(Symbol) : g = b.buffer
  BY DEF Buffered
<1>9. PICK y \in Seq(Symbol), xe \in Seq(Symbol), gx \in Seq(Symbol) :
        Sum(y, e, body) /\ Sum(xe, x, e) /\ Sum(gx, g, x)
  BY <1>4, <1>7
<1>10. PICK s \in Seq(Symbol), z \in Seq(Symbol) : Sum(s, xe, body) /\ Sum(z, g, s)
  BY <1>7
<1>11. s = Ending(body)
  BY <1>1, <1>2, <1>6, <1>9, <1>10 DEF Sum, Ending
<1>12. Sum(s, x, y)
  BY <1>4, <1>9, <1>10, SumAssociates
<1>13. Sum(z, gx, y)
  <2>1. PICK zz \in Seq(Symbol) : Sum(zz, gx, y)
    BY <1>7
  <2>2. Sum(zz, g, s)
    BY <1>4, <1>9, <1>12, <2>1, SumAssociates
  <2>3. QED
    BY <1>10, <2>1, <2>2 DEF Sum
<1>14. Bytes(q) = z
  <2>1. Bytes(q) = Lead(q) \o (CRLF \o q.body)
    BY BytesTyped DEF Lead
  <2>2. Lead(q) = gx
    BY <1>4, <1>5, <1>8, <1>9 DEF Sum
  <2>3. CRLF \o q.body = y
    BY <1>6, <1>9 DEF Sum
  <2>4. QED
    BY <1>13, <2>1, <2>2, <2>3 DEF Sum
<1>15. /\ Put(b, "BODY", s).buffer = z /\ Put(b, "BODY", s).set = b.set \cup {"BODY"}
  <2>1. b.buffer \in Seq(Symbol)
    BY DEF Buffered
  <2>2. /\ Put(b, "BODY", s).buffer = b.buffer \o s
        /\ Put(b, "BODY", s).set = b.set \cup {"BODY"}
    BY SMTT(30), <2>1, PutIs
  <2>3. QED
    BY <1>8, <1>10, <2>2 DEF Sum
<1>16. WellFormed(q)
  <2>1. PICK hs : hs = Append(r.headers, w)
    OBVIOUS
  <2>2. PICK l \in Nat : l = Len(r.headers)
    BY LenProperties DEF MessageOf
  <2>3. /\ Len(hs) = l + 1 /\ hs[l + 1] = w
        /\ \A i \in 1..l : hs[i] = r.headers[i] /\ hs[i][1].text # "Content-Length"
        /\ \A i \in 1..Len(hs) : hs[i] # <<>> /\ IsLine(hs[i])
    <3>1. w # <<>> /\ IsLine(w) /\ LinesGood(r)
      BY <1>1, <1>5
    <3>2. Headed(hs, r, w)
      BY <2>1, <3>1, GoodHeader
    <3>3. QED
      BY <2>2, <3>2 DEF Headed
  <2>4. w[1].text = "Content-Length" /\ w[1].length = Len(body)
    BY <1>1 DEF LengthLine
  <2>5. /\ \A i \in 1..2 : \A j \in 1..Len(q.line[i]) : q.line[i][j] # SP
        /\ IsLine(q.line[3])
    BY <1>5 DEF LinesGood
  <2>6. Announced(hs) = Len(body)
    <3> DEFINE lines == {i \in 1..Len(hs) : hs[i][1].text = "Content-Length"}
    <3>1. PICK k \in Nat : k = l + 1 /\ k \in 1..Len(hs)
      <4>1. Len(hs) = l + 1
        BY <2>3
      <4>2. QED
        BY <2>2, <4>1
    <3>2. \A i \in 1..Len(hs) : i \in 1..l \/ i = k
      BY <2>2, <2>3, <3>1
    <3>3. lines = {k}
      BY <2>3, <2>4, <3>1, <3>2
    <3>4. Least(lines) = k
      <4>1. {k} \in SUBSET Nat /\ {k} # {}
        OBVIOUS
      <4>2. Least({k}) \in {k}
        BY <4>1, LeastIs
      <4>3. QED
        BY <3>3, <4>2
    <3>5. Announced(hs) = IF lines = {} THEN 0 ELSE hs[Least(lines)][1].length
      BY DEF Announced
    <3>6. QED
      BY <2>3, <2>4, <3>1, <3>3, <3>4, <3>5
  <2>7. QED
    BY <1>3, <2>1, <2>3, <2>5, <2>6 DEF WellFormed
<1>17. LineSet(Put(b, "BODY", s))
  BY <1>5, <1>15 DEF LineSet, InLine
<1>18. QED
  BY <1>11, <1>14, <1>15, <1>16, <1>17 DEF Closed

\* The parts the library itself writes.
LEMMA WordGood ==
  ASSUME NEW i \in 1..3, NEW text \in {"HTTP/1.1", "200", "404", "OK"}
  PROVE  LineGood(i, <<Word(text)>>)
<1>1. PICK w \in Symbol : w = Word(text) /\ w # SP
  BY WordsAre DEF Word, SP
<1>2. Len(<<w>>) = 1 /\ <<w>>[1] = w /\ IsLine(<<w>>)
  BY OneWord
<1>3. \A j \in 1..Len(<<w>>) : <<w>>[j] # SP
  BY <1>1, <1>2
<1>4. LineGood(i, <<w>>)
  BY <1>2, <1>3 DEF LineGood
<1>5. QED
  BY <1>1, <1>4

\* What the application sets is good for its place in the first line.
LEMMA PartTextGood ==
  ASSUME NEW i \in 1..3
  PROVE  LineGood(i, PartText(i))
<1>1. CASE i = 1
  BY <1>1, WordGood DEF PartText
<1>2. CASE i = 2
  BY <1>2, WordGood DEF PartText
<1>3. CASE i = 3
  BY <1>3, PhraseAssumption DEF PartText, LineGood
<1>4. i = 1 \/ i = 2 \/ i = 3
  OBVIOUS
<1>5. QED
  BY <1>1, <1>2, <1>3, <1>4

\* So is what SetBody fills in.
LEMMA DefaultGood ==
  ASSUME NEW i \in 1..3
  PROVE  LineGood(i, Default[LineField[i]])
<1>1. i = 1 \/ i = 2 \/ i = 3
  OBVIOUS
<1>2. QED
  BY <1>1, WordGood, DefaultsAre

\* Filling in the i-th part, when those before it are there.
Fills(b, r, i, c, q) ==
  /\ Buffered(c) /\ q \in MessageOf /\ c.set = b.set \cup {LineField[i]}
  /\ \E m \in 0..3 : i <= m /\ Open(c, q, m)
  /\ q.headers = r.headers /\ q.body = r.body /\ q.usual = r.usual
  /\ q.line[i] = IF LineField[i] \in b.set THEN r.line[i] ELSE Default[LineField[i]]
  /\ \A j \in 1..3 : j # i => q.line[j] = r.line[j]

\* Filling in a part of the first line, if it is the next one.
LEMMA FillOpen ==
  ASSUME NEW b, Buffered(b), NEW r \in MessageOf, NEW i \in 1..3, NEW n \in 0..3, i - 1 <= n,
         Open(b, r, n)
  PROVE  \E q : Fills(b, r, i, FillLine(b, i), q)
<1>1. LineField[i] \in b.set <=> i <= n
  BY DEF Open, InLine
<1>2. CASE i <= n
  <2>1. FillLine(b, i) = b /\ b.set = b.set \cup {LineField[i]}
    BY <1>1, <1>2 DEF FillLine
  <2>2. Fills(b, r, i, b, r)
    BY <1>1, <1>2, <2>1 DEF Fills
  <2>3. QED
    BY <2>1, <2>2
<1>3. CASE ~ (i <= n)
  <2>1. n = i - 1 /\ i \in 0..3 /\ i <= i
    BY <1>3
  <2>2. PICK t \in Seq(Symbol) : t = Default[LineField[i]] /\ LineGood(i, t)
    BY DefaultsAre, DefaultGood
  <2>3. PICK c : c = SetLine(b, i, t)
    OBVIOUS
  <2>4. FillLine(b, i) = c
    BY <1>1, <1>3, <2>2, <2>3 DEF FillLine
  <2>5. PICK q \in MessageOf : q = [r EXCEPT !.line[i] = t]
    <3>1. [r EXCEPT !.line[i] = t] \in MessageOf
      BY DEF MessageOf
    <3>2. QED
      BY <3>1
  <2>6. Open(c, q, i)
    <3>1. LineGood(i, t)
      BY <2>2
    <3>2. QED
      BY <2>1, <2>3, <2>5, <3>1, OpenLine
  <2>7. Buffered(c)
    BY <2>3, SettersTyped
  <2>8. c.set = b.set \cup {LineField[i]}
    BY <2>3 DEF SetLine, Put
  <2>9. /\ q.headers = r.headers /\ q.body = r.body /\ q.usual = r.usual /\ q.line[i] = t
        /\ \A j \in 1..3 : j # i => q.line[j] = r.line[j]
    BY <2>5 DEF MessageOf
  <2>10. Fills(b, r, i, c, q)
    BY <1>1, <1>3, <2>1, <2>2, <2>6, <2>7, <2>8, <2>9 DEF Fills
  <2>11. QED
    BY <2>4, <2>10
<1>4. QED
  BY <1>2, <1>3

\* Filling in all that is missing.
LEMMA FilledOpen ==
  ASSUME NEW b, Buffered(b), NEW r \in MessageOf, NEW n \in 0..3, Open(b, r, n)
  PROVE  \E q \in MessageOf : /\ Open(Filled(b), q, 3) /\ Buffered(Filled(b))
                              /\ q.line = FilledLines(r, b.set) /\ q.headers = r.headers
                              /\ q.body = r.body /\ q.usual = r.usual
<1>1. PICK b1, b2, b3 : b1 = FillLine(b, 1) /\ b2 = FillLine(b1, 2) /\ b3 = FillLine(b2, 3)
  OBVIOUS
<1>2. 1 \in 1..3 /\ 2 \in 1..3 /\ 3 \in 1..3 /\ 1 - 1 <= n
  OBVIOUS
<1>3. PICK r1 : Fills(b, r, 1, b1, r1)
  BY <1>1, <1>2, FillOpen
<1>4. PICK n1 \in 0..3 : 1 <= n1 /\ Open(b1, r1, n1) /\ Buffered(b1) /\ r1 \in MessageOf
  BY <1>3 DEF Fills
<1>5. 2 - 1 <= n1
  BY <1>4
<1>6. PICK r2 : Fills(b1, r1, 2, b2, r2)
  BY <1>1, <1>2, <1>4, <1>5, FillOpen
<1>7. PICK n2 \in 0..3 : 2 <= n2 /\ Open(b2, r2, n2) /\ Buffered(b2) /\ r2 \in MessageOf
  BY <1>6 DEF Fills
<1>8. 3 - 1 <= n2
  BY <1>7
<1>9. PICK r3 : Fills(b2, r2, 3, b3, r3)
  BY <1>1, <1>2, <1>7, <1>8, FillOpen
<1>10. PICK n3 \in 0..3 : 3 <= n3 /\ Open(b3, r3, n3) /\ Buffered(b3) /\ r3 \in MessageOf
  BY <1>9 DEF Fills
<1>11. n3 = 3
  BY <1>10
<1>12. r3.headers = r.headers /\ r3.body = r.body /\ r3.usual = r.usual
  BY <1>3, <1>6, <1>9 DEF Fills
<1>13. r3.line = FilledLines(r, b.set)
  <2>1. /\ b1.set = b.set \cup {LineField[1]}
        /\ r1.line[1] = IF LineField[1] \in b.set THEN r.line[1] ELSE Default[LineField[1]]
        /\ r1.line[2] = r.line[2] /\ r1.line[3] = r.line[3]
    BY <1>2, <1>3 DEF Fills
  <2>2. /\ b2.set = b1.set \cup {LineField[2]} /\ r2.line[1] = r1.line[1]
        /\ r2.line[2] = IF LineField[2] \in b1.set THEN r1.line[2] ELSE Default[LineField[2]]
        /\ r2.line[3] = r1.line[3]
    BY <1>2, <1>6 DEF Fills
  <2>3. /\ r3.line[1] = r2.line[1] /\ r3.line[2] = r2.line[2]
        /\ r3.line[3] = IF LineField[3] \in b2.set THEN r2.line[3] ELSE Default[LineField[3]]
    BY <1>2, <1>9 DEF Fills
  <2>4. LineField[1] # LineField[2] /\ LineField[1] # LineField[3] /\ LineField[2] # LineField[3]
    BY FieldsAre
  <2>5. /\ r3.line[1] = IF LineField[1] \in b.set THEN r.line[1] ELSE Default[LineField[1]]
        /\ r3.line[2] = IF LineField[2] \in b.set THEN r.line[2] ELSE Default[LineField[2]]
        /\ r3.line[3] = IF LineField[3] \in b.set THEN r.line[3] ELSE Default[LineField[3]]
    BY <2>1, <2>2, <2>3, <2>4
  <2>6. r3.line \in [1..3 -> Seq(Symbol)] /\ FilledLines(r, b.set) \in [1..3 -> Seq(Symbol)]
    <3>1. FilledLines(r, b.set) \in [1..3 -> Seq(Symbol)]
      BY DefaultsAre DEF FilledLines, MessageOf
    <3>2. QED
      BY <1>10, <3>1 DEF MessageOf
  <2>7. ASSUME NEW i \in 1..3 PROVE r3.line[i] = FilledLines(r, b.set)[i]
    <3>1. FilledLines(r, b.set)[i]
            = IF LineField[i] \in b.set THEN r.line[i] ELSE Default[LineField[i]]
      BY DEF FilledLines
    <3>2. i = 1 \/ i = 2 \/ i = 3
      OBVIOUS
    <3>3. QED
      BY <2>5, <3>1, <3>2
  <2>8. QED
    BY <2>6, <2>7
<1>14. Filled(b) = b3
  BY <1>1 DEF Filled
<1>15. QED
  BY <1>10, <1>11, <1>12, <1>13, <1>14

-----------------------------------------------------------------------------
(* The setters build what they were asked for.                             *)

\* The setters keep the buffer what was meant, from here on: the first line.
LEMMA SetFirstLineBuilt ==
  ASSUME Typed, BuiltAsMeant, NEW i \in 1..3, SetFirstLine(i)
  PROVE  BuiltAsMeant'
<1>1. PICK t \in Seq(Symbol) : t = PartText(i) /\ LineGood(i, t)
  BY PartTextTyped, PartTextGood
<1>2. /\ building' = SetLine(building, i, t) /\ meant' = [meant EXCEPT !.line[i] = t]
      /\ LineField[i] \notin building.set
      /\ \A j \in 1..i - 1 : LineField[j] \in building.set
  BY <1>1 DEF SetFirstLine, MaySetLine
<1>3. meant \in MessageOf /\ Buffered(building)
  BY DEF Typed, Buffered
<1>4. PICK r \in MessageOf, q \in MessageOf, b \in {building} : r = meant /\ q = meant' /\ b = building
  <2>1. meant' \in MessageOf
    BY SetFirstLineTyped DEF Typed
  <2>2. QED
    BY <1>3, <2>1
<1>5. q = [r EXCEPT !.line[i] = t] /\ q.usual = r.usual
  BY <1>2, <1>4 DEF MessageOf
<1>6. SUFFICES ASSUME r.usual PROVE \E n \in 0..3 : Open(SetLine(b, i, t), q, n)
  BY <1>2, <1>4, <1>5 DEF BuiltAsMeant, Built
<1>7. Closed(b, r) \/ \E n \in 0..3 : Open(b, r, n)
  BY <1>4, <1>6 DEF BuiltAsMeant, Built
<1>8. ~ Closed(b, r)
  BY <1>2, <1>4 DEF Closed, LineSet
<1>9. PICK n \in 0..3 : Open(b, r, n)
  BY <1>7, <1>8
<1>10. n = i - 1
  <2>1. \A j \in 1..3 : LineField[j] \in b.set <=> j <= n
    BY <1>9 DEF Open, InLine
  <2>2. ~ (i <= n)
    BY <1>2, <1>4, <2>1
  <2>3. CASE i = 1
    BY <2>2, <2>3
  <2>4. CASE i # 1
    <3>1. i - 1 \in 1..i - 1 /\ i - 1 \in 1..3
      BY <2>4
    <3>2. LineField[i - 1] \in b.set
      BY <1>2, <1>4, <3>1
    <3>3. i - 1 <= n
      BY <2>1, <3>1, <3>2
    <3>4. QED
      BY <2>2, <3>3
  <2>5. QED
    BY <2>3, <2>4
<1>11. Open(SetLine(b, i, t), q, i)
  <2>1. LineGood(i, t) /\ Buffered(b)
    BY <1>1, <1>3, <1>4
  <2>2. QED
    BY <1>5, <1>9, <1>10, <2>1, OpenLine
<1>12. i \in 0..3
  OBVIOUS
<1>13. QED
  BY <1>11, <1>12

\* A header.
LEMMA SetOneHeaderBuilt ==
  ASSUME Typed, BuiltAsMeant, NEW what \in {"Location", "Content-Type"}, SetOneHeader(what)
  PROVE  BuiltAsMeant'
<1>1. /\ building' = SetHeader(building, what) /\ LineSet(building)
      /\ meant' = [meant EXCEPT !.headers = Append(@, <<Word(what)>>),
                                !.usual = @ /\ "BODY" \notin building.set]
  BY DEF SetOneHeader, MaySetHeader
<1>2. meant \in MessageOf /\ Buffered(building)
  BY DEF Typed, Buffered
<1>3. PICK r \in MessageOf, q \in MessageOf, b \in {building} : r = meant /\ q = meant' /\ b = building
  <2>1. meant' \in MessageOf
    BY SetOneHeaderTyped DEF Typed
  <2>2. QED
    BY <1>2, <2>1
<1>4. /\ q.line = r.line /\ q.headers = Append(r.headers, <<Word(what)>>) /\ q.body = r.body
      /\ q.usual => r.usual /\ "BODY" \notin b.set
  <2>1. PICK hs, u : hs = Append(r.headers, <<Word(what)>>) /\ u = (r.usual /\ "BODY" \notin b.set)
    OBVIOUS
  <2>2. q = [r EXCEPT !.headers = hs, !.usual = u]
    BY <1>1, <1>3, <2>1
  <2>3. q.line = r.line /\ q.headers = hs /\ q.body = r.body /\ q.usual = u
    BY <2>2 DEF MessageOf
  <2>4. QED
    BY <2>1, <2>3
<1>5. SUFFICES ASSUME q.usual PROVE \E n \in 0..3 : Open(SetHeader(b, what), q, n)
  BY <1>1, <1>3 DEF BuiltAsMeant, Built
<1>6. Closed(b, r) \/ \E n \in 0..3 : Open(b, r, n)
  BY <1>3, <1>4, <1>5 DEF BuiltAsMeant, Built
<1>7. PICK n \in 0..3 : Open(b, r, n)
  BY <1>4, <1>5, <1>6 DEF Closed
<1>8. n = 3
  <2>1. LineField[3] \in b.set
    BY <1>1, <1>3 DEF LineSet
  <2>2. QED
    BY <1>7, <2>1 DEF Open, InLine
<1>9. Open(SetHeader(b, what), q, 3)
  <2>1. Buffered(b) /\ Open(b, r, 3)
    BY <1>2, <1>3, <1>7, <1>8
  <2>2. QED
    BY <1>4, <2>1, OpenHeader
<1>10. QED
  BY <1>9

\* A header set by pointer: the message is no longer a usual one.
LEMMA SetServerBuilt ==
  ASSUME Typed, SetServerOrDate("Server")
  PROVE  BuiltAsMeant'
<1>1. meant' = [meant EXCEPT !.headers = Append(@, <<Word("Server")>>), !.usual = FALSE]
  BY DEF SetServerOrDate
<1>2. meant \in MessageOf
  BY DEF Typed
<1>3. meant'.usual = FALSE
  BY <1>1, <1>2 DEF MessageOf
<1>4. QED
  BY <1>3 DEF BuiltAsMeant, Built

\* The body.
LEMMA SetMsgBodyBuilt ==
  ASSUME Typed, BuiltAsMeant, NEW body \in Bodies, SetMsgBody(body)
  PROVE  BuiltAsMeant'
<1>1. PICK r \in MessageOf, q \in MessageOf, b \in {building} :
        r = meant /\ q = meant' /\ b = building /\ Buffered(b) /\ "BODY" \notin b.set
  BY SetMsgBodyIs DEF Typed, SetMsgBody, MaySetBody
<1>2. /\ body \in Seq(Symbol) /\ building' = Put(WithType(b), "BODY", Ending(body))
      /\ q = [line |-> FilledLines(r, b.set), headers |-> FilledHeaders(r, b.set, body),
              body |-> body, usual |-> r.usual]
  BY <1>1, SetMsgBodyIs, SetBodyIs
<1>3. SUFFICES ASSUME q.usual PROVE Closed(Put(WithType(b), "BODY", Ending(body)), q)
  BY <1>1, <1>2 DEF BuiltAsMeant, Built
<1>4. r.usual
  BY <1>2, <1>3
<1>5. PICK n \in 0..3 : Open(b, r, n)
  BY <1>1, <1>4 DEF BuiltAsMeant, Built, Closed
<1>6. PICK f \in MessageOf : /\ Open(Filled(b), f, 3) /\ Buffered(Filled(b))
                             /\ f.line = FilledLines(r, b.set) /\ f.headers = r.headers
                             /\ f.body = r.body /\ f.usual = r.usual
  BY <1>1, <1>5, FilledOpen
<1>7. PICK g \in MessageOf : /\ Open(WithType(b), g, 3) /\ g.line = f.line
                             /\ g.headers = IF "Content-Type" \in b.set THEN r.headers
                                            ELSE Append(r.headers, <<Word("Content-Type")>>)
  <2>1. CASE "Content-Type" \in b.set
    BY <1>6, <2>1 DEF WithType
  <2>2. CASE "Content-Type" \notin b.set
    <3>1. PICK hs \in Seq(Seq(Symbol)) : hs = Append(f.headers, <<Word("Content-Type")>>)
      <4>1. <<Word("Content-Type")>> \in Seq(Symbol)
        BY WordsAre
      <4>2. Append(f.headers, <<Word("Content-Type")>>) \in Seq(Seq(Symbol))
        BY <4>1, AppendProperties DEF MessageOf
      <4>3. QED
        BY <4>2
    <3>2. PICK g \in MessageOf : g.line = f.line /\ g.headers = hs /\ g.body = f.body
      <4>1. [line |-> f.line, headers |-> hs, body |-> f.body, usual |-> f.usual] \in MessageOf
        BY DEF MessageOf
      <4>2. QED
        BY <4>1
    <3>3. Open(SetHeader(Filled(b), "Content-Type"), g, 3)
      <4>1. PICK c, what : /\ c = Filled(b) /\ what = "Content-Type"
                           /\ what \in {"Location", "Content-Type"}
        OBVIOUS
      <4>2. g.headers = Append(f.headers, <<Word(what)>>) /\ Buffered(c) /\ Open(c, f, 3)
        BY <1>6, <3>1, <3>2, <4>1
      <4>3. Open(SetHeader(c, what), g, 3)
        BY <3>2, <4>1, <4>2, OpenHeader
      <4>4. QED
        BY <4>1, <4>3
    <3>4. QED
      BY <1>6, <2>2, <3>1, <3>2, <3>3 DEF WithType
  <2>3. QED
    BY <2>1, <2>2
<1>8. /\ q.line = g.line /\ q.body = body
      /\ q.headers = Append(g.headers, <<LengthLine(Len(body))>>)
  <2>1. PICK l \in Seq(Symbol) : l = <<LengthLine(Len(body))>>
    BY <1>2, EndingTyped
  <2>2. g.headers \in Seq(Seq(Symbol))
    BY DEF MessageOf
  <2>3. Append(g.headers, l) = g.headers \o <<l>>
    BY <2>2, AppendIsConcat
  <2>4. FilledHeaders(r, b.set, body) = g.headers \o <<l>>
    BY <1>7, <2>1 DEF FilledHeaders
  <2>5. QED
    BY <1>2, <1>6, <1>7, <2>1, <2>3, <2>4
<1>9. PICK c : c = WithType(b) /\ Buffered(c) /\ Open(c, g, 3)
  BY <1>1, <1>2, <1>7, SetBodyIs
<1>10. QED
  BY <1>2, <1>8, <1>9, OpenBody

-----------------------------------------------------------------------------
(* What is in the stream.                                                  *)

\* At first nothing is built and nothing is meant.
LEMMA BuiltInit == Init => BuiltAsMeant
<1>1. 0 \in 0..3 /\ Open(NoMsg, Nothing, 0)
  BY NothingBuilt
<1>2. QED
  BY <1>1 DEF Init, BuiltAsMeant, Built

\* After sending, again nothing is.
LEMMA SendHttpMsgBuilt ==
  ASSUME SendHttpMsg
  PROVE  BuiltAsMeant'
<1>1. 0 \in 0..3 /\ Open(NoMsg, Nothing, 0)
  BY NothingBuilt
<1>2. building' = NoMsg /\ meant' = Nothing
  BY DEF SendHttpMsg
<1>3. QED
  BY <1>1, <1>2 DEF BuiltAsMeant, Built

\* All other actions leave both alone.
LEMMA OthersBuilt ==
  ASSUME BuiltAsMeant, UNCHANGED <<building, meant>>
  PROVE  BuiltAsMeant'
BY DEF BuiltAsMeant

\* A message more in the stream.
LEMMA SendInStream ==
  ASSUME Typed, StreamAsSent, NEW msg \in MessageOf, NEW bytes \in Seq(Symbol), bytes # <<>>,
         msg.usual => WellFormed(msg) /\ bytes = Bytes(msg),
         SendBytes(msg, bytes)
  PROVE  /\ StreamAsSent'
         /\ Len(sent') = Len(sent) + 1 /\ Len(ends') = Len(ends) + 1 /\ Len(ends) \in Nat
         /\ \A i \in 1..Len(sent) : sent'[i] = sent[i]
         /\ \A i \in 0..Len(ends) : Mark(i)' = Mark(i)
         /\ \A a \in Nat, b \in 0..Len(stream) : SubSeq(stream', a + 1, b) = SubSeq(stream, a + 1, b)
<1>1. /\ sent' = Append(sent, msg) /\ stream' = stream \o bytes /\ ends' = Append(ends, Len(stream'))
      /\ sent \in Seq(MessageOf) /\ stream \in Seq(Symbol) /\ ends \in Seq(Nat)
      /\ Len(ends) = Len(sent)
  BY DEF SendBytes, Typed, StreamAsSent
<1>2. PICK n \in Nat, l \in Nat, k \in Nat : n = Len(sent) /\ l = Len(stream) /\ k = Len(bytes)
  BY <1>1, LenProperties
<1>3. k > 0
  BY <1>2, EmptySeq
<1>4. /\ Len(sent') = n + 1 /\ sent'[n + 1] = msg /\ \A i \in 1..n : sent'[i] = sent[i]
  BY <1>1, <1>2, AppendProperties
<1>5. stream' \in Seq(Symbol) /\ Len(stream') = l + k
  BY <1>1, <1>2, ConcatProperties
<1>6. PICK h \in Nat : h = Len(stream') /\ h = l + k
  BY <1>5
<1>7. Len(ends') = n + 1 /\ ends'[n + 1] = h /\ \A i \in 1..n : ends'[i] = ends[i]
  BY <1>1, <1>2, <1>6, AppendProperties
<1>8. \A i \in 0..n : Mark(i)' = Mark(i)
  BY <1>2, <1>7 DEF Mark
<1>9. Mark(n + 1)' = h
  BY <1>2, <1>7 DEF Mark
<1>10. Mark(n) = l /\ \A i, j \in 0..n : i < j => Mark(i) < Mark(j)
  BY <1>1, <1>2 DEF StreamAsSent
<1>11. \A i \in 0..n : Mark(i) \in 0..l
  <2>1. SUFFICES ASSUME NEW i \in 0..n PROVE Mark(i) \in 0..l
    OBVIOUS
  <2>2. Mark(i) \in Nat
    BY <1>1, <1>2, ElementOfSeq DEF Mark
  <2>3. n \in 0..n /\ (i = n \/ i < n)
    BY <1>2
  <2>4. QED
    BY <1>2, <1>10, <2>2, <2>3
<1>12. \A a \in Nat, b \in 0..l : SubSeq(stream', a + 1, b) = SubSeq(stream, a + 1, b)
  <2>1. SUFFICES ASSUME NEW a \in Nat, NEW b \in 0..l
                 PROVE  SubSeq(stream', a + 1, b) = SubSeq(stream, a + 1, b)
    OBVIOUS
  <2>2. CASE a + 1 <= b
    <3>1. PICK c \in Nat, d \in Nat : c = a + 1 /\ d = b /\ 1 <= c /\ c <= d /\ d <= l
      BY <1>2, <2>2
    <3>2. c \in 1..Len(stream) /\ d \in 1..Len(stream)
      BY <1>2, <3>1
    <3>3. SubSeq(stream \o bytes, c, d) = SubSeq(stream, c, d)
      BY <1>1, <3>2, SubSeqOfConcat1
    <3>4. QED
      BY <1>1, <3>1, <3>3
  <2>3. CASE ~ (a + 1 <= b)
    <3>1. PICK c \in Nat, d \in Nat : c = a + 1 /\ d = b /\ d < c
      BY <1>2, <2>3
    <3>2. SubSeq(stream', c, d) = <<>> /\ SubSeq(stream, c, d) = <<>>
      BY <3>1, SubSeqEmpty
    <3>3. QED
      BY <3>1, <3>2
  <2>4. QED
    BY <2>2, <2>3
<1>13. SubSeq(stream', l + 1, h) = bytes
  <2>1. After(stream \o bytes, Len(stream)) = bytes
    BY <1>1, InFront
  <2>2. QED
    BY <1>1, <1>2, <1>6, <2>1 DEF After
<1>14. \A i \in 1..n : sent'[i].usual => InStream(i)'
  <2>1. SUFFICES ASSUME NEW i \in 1..n, sent'[i].usual PROVE InStream(i)'
    OBVIOUS
  <2>2. InStream(i)
    BY <1>1, <1>2, <1>4, <2>1 DEF StreamAsSent
  <2>3. PICK a \in Nat, b \in 0..l : a = Mark(i - 1) /\ b = Mark(i) /\ a = Mark(i - 1)' /\ b = Mark(i)'
    <3>1. i \in 0..n /\ i - 1 \in 0..n
      BY <1>2
    <3>2. Mark(i - 1) \in 0..l /\ Mark(i) \in 0..l
      BY <1>11, <3>1
    <3>3. Mark(i - 1)' = Mark(i - 1) /\ Mark(i)' = Mark(i)
      BY <1>8, <3>1
    <3>4. QED
      BY <1>2, <3>2, <3>3
  <2>4. WellFormed(sent[i]) /\ SubSeq(stream, a + 1, b) = Bytes(sent[i])
    BY <2>2, <2>3 DEF InStream
  <2>5. SubSeq(stream', a + 1, b) = SubSeq(stream, a + 1, b) /\ sent'[i] = sent[i]
    BY <1>4, <1>12, <2>3
  <2>6. WellFormed(sent'[i]) /\ SubSeq(stream', a + 1, b) = Bytes(sent'[i])
    BY <2>4, <2>5
  <2>7. QED
    BY <2>3, <2>6 DEF InStream
<1>15. sent'[n + 1].usual => InStream(n + 1)'
  <2>1. SUFFICES ASSUME msg.usual PROVE InStream(n + 1)'
    BY <1>4
  <2>2. WellFormed(msg) /\ SubSeq(stream', l + 1, h) = Bytes(msg)
    BY <1>13, <2>1
  <2>3. PICK i \in Nat : i = n + 1 /\ i - 1 = n
    BY <1>2
  <2>4. Mark(i - 1)' = l /\ Mark(i)' = h /\ sent'[i] = msg
    <3>1. n \in 0..n
      BY <1>2
    <3>2. QED
      BY <1>4, <1>8, <1>9, <1>10, <2>3, <3>1
  <2>5. InStream(i)'
    BY <2>2, <2>4 DEF InStream
  <2>6. QED
    BY <2>3, <2>5
<1>16. \A i, j \in 0..n + 1 : i < j => Mark(i)' < Mark(j)'
  <2>1. SUFFICES ASSUME NEW i \in 0..n + 1, NEW j \in 0..n + 1, i < j PROVE Mark(i)' < Mark(j)'
    OBVIOUS
  <2>2. i \in 0..n
    BY <1>2, <2>1
  <2>3. CASE j \in 0..n
    BY <1>8, <1>10, <2>1, <2>2, <2>3
  <2>4. CASE j \notin 0..n
    <3>1. j = n + 1
      BY <1>2, <2>4
    <3>2. Mark(j)' = h
      BY <1>9, <3>1
    <3>3. Mark(i)' \in 0..l
      BY <1>8, <1>11, <2>2
    <3>4. QED
      BY <1>2, <1>3, <1>6, <3>2, <3>3
  <2>5. QED
    BY <2>3, <2>4
<1>17. StreamAsSent'
  <2>1. Len(ends') = Len(sent') /\ Mark(Len(ends))' = Len(stream')
    BY <1>2, <1>4, <1>6, <1>7 DEF Mark
  <2>2. \A i \in 1..n + 1 : i \in 1..n \/ i = n + 1
    BY <1>2
  <2>3. \A i \in 1..n + 1 : sent'[i].usual => InStream(i)'
    BY <1>14, <1>15, <2>2
  <2>4. QED
    BY <1>7, <1>16, <2>1, <2>3 DEF StreamAsSent
<1>18. QED
  BY <1>1, <1>2, <1>4, <1>7, <1>8, <1>12, <1>17

\* The bytes of a message are those of its parts.
LEMMA SameBytes ==
  ASSUME NEW q, NEW r, q.line = r.line, q.headers = r.headers, q.body = r.body
  PROVE  Bytes(q) = Bytes(r) /\ WellFormed(q) = WellFormed(r)
BY DEF Bytes, WellFormed

\* What a send sends.
Sending(msg, bytes) ==
  /\ msg \in MessageOf /\ bytes \in Seq(Symbol) /\ bytes # <<>>
  /\ msg.usual => WellFormed(msg) /\ bytes = Bytes(msg)
  /\ SendBytes(msg, bytes)

\* A request is sent as what it is.
LEMMA SendRequestSends ==
  ASSUME NEW r \in Requests, SendRequest(r)
  PROVE  /\ \E msg, bytes : Sending(msg, bytes)
         /\ UNCHANGED <<kind, building, meant, receiverVars>>
<1> DEFINE msg == [line |-> r.line, headers |-> r.headers, body |-> r.body, usual |-> WellFormed(r)]
<1>1. msg \in MessageOf
  <2>1. r.line \in [1..3 -> Seq(Symbol)] /\ r.headers \in Seq(Seq(Symbol)) /\ r.body \in Seq(Symbol)
    BY RequestsAssumption
  <2>2. WellFormed(r) \in BOOLEAN
    BY DEF WellFormed
  <2>3. QED
    BY <2>1, <2>2, MessageOfIs
<1>2. msg.line = r.line /\ msg.headers = r.headers /\ msg.body = r.body /\ msg.usual = WellFormed(r)
  OBVIOUS
<1>3. SendBytes(msg, Bytes(r)) /\ UNCHANGED <<kind, building, meant, receiverVars>>
  BY DEF SendRequest
<1> HIDE DEF msg
<1>4. Bytes(msg) = Bytes(r) /\ WellFormed(msg) = WellFormed(r)
  BY <1>2, SameBytes
<1>5. Bytes(r) \in Seq(Symbol) /\ Bytes(r) # <<>>
  BY <1>1, <1>4, BytesTyped
<1>6. Sending(msg, Bytes(r))
  BY <1>1, <1>2, <1>3, <1>4, <1>5 DEF Sending
<1>7. QED
  BY <1>3, <1>6

\* A response is sent as what was meant.
LEMMA SendHttpMsgSends ==
  ASSUME Typed, BuiltAsMeant, SendHttpMsg
  PROVE  (\E msg, bytes : Sending(msg, bytes)) /\ UNCHANGED <<kind, receiverVars>>
<1>1. PICK u : u = (meant.usual /\ "BODY" \in building.set)
  OBVIOUS
<1>2. PICK msg \in MessageOf :
        /\ msg = [meant EXCEPT !.usual = @ /\ "BODY" \in building.set] /\ msg.usual = u
        /\ msg.line = meant.line /\ msg.headers = meant.headers /\ msg.body = meant.body
  <2>1. [meant EXCEPT !.usual = @ /\ "BODY" \in building.set] = [meant EXCEPT !.usual = u]
    BY <1>1
  <2>2. u \in BOOLEAN
    BY <1>1 DEF Typed, MessageOf
  <2>3. PICK q : q = [meant EXCEPT !.usual = u]
    OBVIOUS
  <2>4. q \in MessageOf /\ q.usual = u /\ q.line = meant.line /\ q.headers = meant.headers
        /\ q.body = meant.body
    BY <2>2, <2>3 DEF Typed, MessageOf
  <2>5. QED
    BY <2>1, <2>3, <2>4
<1>3. /\ SendBytes(msg, building.buffer) /\ building.buffer # <<>> /\ building.buffer \in Seq(Symbol)
      /\ UNCHANGED <<kind, receiverVars>>
  BY <1>2 DEF SendHttpMsg, Typed
<1>4. ASSUME msg.usual PROVE WellFormed(msg) /\ building.buffer = Bytes(msg)
  <2>1. meant.usual /\ "BODY" \in building.set
    BY <1>1, <1>2, <1>4
  <2>2. Closed(building, meant)
    BY <2>1 DEF BuiltAsMeant, Built, Open
  <2>3. QED
    BY <1>2, <2>2, SameBytes DEF Closed
<1>5. Sending(msg, building.buffer)
  BY <1>2, <1>3, <1>4 DEF Sending
<1>6. QED
  BY <1>3, <1>5

\* Sending puts one more message behind the stream, which keeps its front.
LEMMA SendingStream ==
  ASSUME Typed, StreamAsSent, NEW msg, NEW bytes, Sending(msg, bytes)
  PROVE  /\ StreamAsSent'
         /\ Len(sent') = Len(sent) + 1 /\ Len(ends') = Len(ends) + 1 /\ Len(ends) \in Nat
         /\ \A i \in 1..Len(sent) : sent'[i] = sent[i]
         /\ \A i \in 0..Len(ends) : Mark(i)' = Mark(i)
         /\ \A a \in Nat, b \in 0..Len(stream) : SubSeq(stream', a + 1, b) = SubSeq(stream, a + 1, b)
<1>1. msg \in MessageOf /\ bytes \in Seq(Symbol) /\ bytes # <<>>
      /\ (msg.usual => WellFormed(msg) /\ bytes = Bytes(msg)) /\ SendBytes(msg, bytes)
  BY DEF Sending
<1>2. QED
  BY <1>1, SendInStream

\* All other actions leave the stream alone.
LEMMA OthersStream ==
  ASSUME StreamAsSent, UNCHANGED <<sent, stream, ends>>
  PROVE  StreamAsSent'
BY DEF StreamAsSent, InStream, Mark

\* At first it is empty.
LEMMA StreamInit == Init => StreamAsSent
<1>1. SUFFICES ASSUME Init PROVE StreamAsSent
  OBVIOUS
<1>2. sent = <<>> /\ ends = <<>> /\ stream = <<>> /\ Len(<<>>) = 0
  BY <1>1, EmptySeq DEF Init
<1>3. QED
  BY <1>2 DEF StreamAsSent, Mark

\* The marks are in the stream, in order.
LEMMA MarksAre ==
  ASSUME Typed, StreamAsSent
  PROVE  /\ Len(ends) \in Nat /\ Len(sent) = Len(ends) /\ Len(stream) \in Nat
         /\ \A i \in 0..Len(ends) : Mark(i) \in 0..Len(stream)
         /\ \A i, j \in 0..Len(ends) : Mark(i) < Mark(j) <=> i < j
<1>1. stream \in Seq(Symbol) /\ ends \in Seq(Nat)
  BY DEF Typed
<1>2. PICK n \in Nat, l \in Nat : n = Len(ends) /\ l = Len(stream)
  BY <1>1, LenProperties
<1>3. Mark(n) = l /\ \A i, j \in 0..n : i < j => Mark(i) < Mark(j)
  BY <1>2 DEF StreamAsSent
<1>4. \A i \in 0..n : Mark(i) \in Nat
  BY <1>1, <1>2, ElementOfSeq DEF Mark
<1>5. ASSUME NEW i \in 0..n PROVE Mark(i) \in 0..l
  <2>1. n \in 0..n /\ (i = n \/ i < n)
    BY <1>2
  <2>2. QED
    BY <1>2, <1>3, <1>4, <2>1
<1>6. ASSUME NEW i \in 0..n, NEW j \in 0..n PROVE Mark(i) < Mark(j) <=> i < j
  <2>1. Mark(i) \in Nat /\ Mark(j) \in Nat
    BY <1>4
  <2>2. i < j \/ i = j \/ j < i
    BY <1>2
  <2>3. QED
    BY <1>3, <2>1, <2>2
<1>7. QED
  BY <1>2, <1>5, <1>6 DEF StreamAsSent

-----------------------------------------------------------------------------
(* What is received.                                                       *)

\* At first nothing is received.
LEMMA ReceivedInit == Init => ReceivedAsSent
<1>1. SUFFICES ASSUME Init PROVE InOrder(0)
  BY <1>1 DEF ReceivedAsSent
<1>2. /\ sent = <<>> /\ ends = <<>> /\ stream = <<>> /\ received = <<>> /\ chunk = <<>> /\ taken = 0
      /\ Len(<<>>) = 0 /\ <<>> \in Seq(Views)
  BY <1>1, EmptySeq DEF Init
<1>3. Mark(0) = 0
  BY DEF Mark
<1>4. SubSeq(stream, 0 + 1, 0) = <<>>
  BY SubSeqEmpty
<1>5. 0 \in 0..Len(ends)
  BY <1>2
<1>6. QED
  BY <1>2, <1>3, <1>4, <1>5 DEF InOrder

\* What is sent meanwhile changes nothing of what was received.
LEMMA ReceivedSend ==
  ASSUME Typed, StreamAsSent, ReceivedAsSent, NEW msg, NEW bytes, Sending(msg, bytes),
         UNCHANGED receiverVars
  PROVE  ReceivedAsSent'
<1>1. SUFFICES ASSUME aligned', Usual' PROVE \E n \in Nat : InOrder(n)'
  BY DEF ReceivedAsSent
<1>2. PICK h \in Nat : h = Len(ends) /\ h = Len(sent)
  BY MarksAre
<1>3. /\ Len(sent') = h + 1 /\ Len(ends') = h + 1
      /\ \A i \in 1..h : sent'[i] = sent[i]
      /\ \A i \in 0..h : Mark(i)' = Mark(i)
      /\ \A a \in Nat, b \in 0..Len(stream) : SubSeq(stream', a + 1, b) = SubSeq(stream, a + 1, b)
  BY <1>2, SendingStream
<1>4. /\ taken' = taken /\ aligned' = aligned /\ chunk' = chunk /\ received' = received
  BY DEF receiverVars
<1>5. Usual
  <2>1. \A i \in 1..h + 1 : sent'[i].usual
    BY <1>1, <1>3 DEF Usual
  <2>2. \A i \in 1..h : i \in 1..h + 1
    BY <1>2
  <2>3. QED
    BY <1>2, <1>3, <2>1, <2>2 DEF Usual
<1>6. PICK n \in Nat : InOrder(n)
  BY <1>1, <1>4, <1>5 DEF ReceivedAsSent
<1>7. PICK j \in n..h : taken = Mark(j)
  BY <1>2, <1>6 DEF InOrder
<1>8. n <= h
  BY <1>2, <1>6 DEF InOrder
<1>9. \A i \in 1..n : received'[i] = AsSent(sent'[i])
  <2>1. \A i \in 1..n : i \in 1..h
    BY <1>2, <1>8
  <2>2. \A i \in 1..n : received[i] = AsSent(sent[i])
    BY <1>6 DEF InOrder
  <2>3. QED
    BY <1>3, <1>4, <2>1, <2>2
<1>10. taken' = Mark(j)' /\ j \in n..h + 1
  BY <1>2, <1>3, <1>4, <1>7
<1>11. chunk' = SubSeq(stream', Mark(n)' + 1, taken')
  <2>1. chunk = SubSeq(stream, Mark(n) + 1, taken)
    BY <1>6 DEF InOrder
  <2>2. n \in 0..h
    BY <1>2, <1>8
  <2>3. PICK a \in Nat, b \in 0..Len(stream) : a = Mark(n) /\ b = taken
    BY <1>2, <2>2, MarksAre DEF Typed
  <2>4. SubSeq(stream', a + 1, b) = SubSeq(stream, a + 1, b) /\ Mark(n)' = a
    BY <1>3, <2>2, <2>3
  <2>5. QED
    BY <1>4, <2>1, <2>3, <2>4
<1>12. received' \in Seq(Views) /\ Len(received') = n /\ n <= Len(sent')
  BY <1>2, <1>3, <1>4, <1>6, <1>8 DEF InOrder
<1>13. InOrder(n)'
  BY <1>3, <1>9, <1>10, <1>11, <1>12 DEF InOrder
<1>14. QED
  BY <1>13

\* Building does not touch the receiver.
LEMMA OthersReceived ==
  ASSUME ReceivedAsSent, UNCHANGED <<sent, stream, ends, receiverVars>>
  PROVE  ReceivedAsSent'
BY DEF ReceivedAsSent, InOrder, Usual, Mark, receiverVars

\* What is left of the chunk, when n messages are received.
LEMMA ChunkIs ==
  ASSUME Typed, StreamAsSent, NEW n \in Nat, InOrder(n)
  PROVE  \E j \in n..Len(ends) : taken = Mark(j) /\ (chunk = <<>> <=> j = n)
<1>1. PICK h \in Nat : h = Len(ends) /\ h = Len(sent)
  BY MarksAre
<1>2. PICK j \in n..h : taken = Mark(j)
  BY <1>1 DEF InOrder
<1>3. n \in 0..h /\ j \in 0..h /\ (j = n \/ n < j)
  BY <1>1, <1>2
<1>4. PICK a \in Nat, b \in Nat : a = Mark(n) /\ b = Mark(j) /\ b <= Len(stream)
  BY <1>1, <1>3, MarksAre
<1>5. chunk = SubSeq(stream, a + 1, b)
  BY <1>2, <1>4 DEF InOrder
<1>6. CASE j = n
  <2>1. b < a + 1
    BY <1>4, <1>6
  <2>2. chunk = <<>>
    BY <1>5, <2>1, SubSeqEmpty
  <2>3. QED
    BY <1>1, <1>2, <1>6, <2>2
<1>7. CASE j # n
  <2>1. a < b
    BY <1>1, <1>3, <1>4, <1>7, MarksAre
  <2>2. stream \in Seq(Symbol) /\ Len(stream) \in Nat
    BY LenProperties DEF Typed
  <2>3. PICK c \in Nat : c = a + 1 /\ 1 <= c /\ c <= b
    BY <2>1
  <2>4. \A i \in c..b : stream[i] \in Symbol
    BY <1>4, <2>2, <2>3, ElementOfSeq
  <2>5. Len(SubSeq(stream, c, b)) = b - c + 1
    <3>1. Len(SubSeq(stream, c, b)) = IF c <= b THEN b - c + 1 ELSE 0
      BY <2>4, SubSeqProperties
    <3>2. QED
      BY <2>3, <3>1
  <2>6. Len(chunk) # 0
    <3>1. b - c + 1 # 0
      BY <2>3
    <3>2. QED
      BY <1>5, <2>3, <2>5, <3>1
  <2>7. chunk # <<>>
    BY <2>6, EmptySeq
  <2>8. QED
    BY <1>1, <1>2, <1>7, <2>7
<1>8. QED
  BY <1>6, <1>7

\* A chunk that ends where a message ends begins where the last one ended.
LEMMA ReadReceived ==
  ASSUME Typed, StreamAsSent, ReceivedAsSent, NEW k \in 1..Len(stream) - taken, Read(k)
  PROVE  ReceivedAsSent'
<1>1. SUFFICES ASSUME aligned', Usual' PROVE \E n \in Nat : InOrder(n)'
  BY DEF ReceivedAsSent
<1>2. PICK h \in Nat : h = Len(ends) /\ h = Len(sent)
  BY MarksAre
<1>3. /\ chunk = <<>> /\ chunk' = SubSeq(stream, taken + 1, taken + k) /\ taken' = taken + k
      /\ aligned' = (aligned /\ \E i \in 1..Len(ends) : ends[i] = taken')
      /\ UNCHANGED <<kind, senderVars, httpmsg, received>>
  BY DEF Read
<1>4. sent' = sent /\ stream' = stream /\ ends' = ends /\ received' = received
  BY <1>3 DEF senderVars
<1>5. aligned /\ Usual
  BY <1>1, <1>3, <1>4 DEF Usual
<1>6. PICK n \in Nat : InOrder(n)
  BY <1>5 DEF ReceivedAsSent
<1>7. taken = Mark(n) /\ n <= h
  <2>1. PICK j \in n..Len(ends) : taken = Mark(j) /\ (chunk = <<>> <=> j = n)
    BY <1>6, ChunkIs
  <2>2. QED
    BY <1>2, <1>3, <1>6, <2>1 DEF InOrder
<1>8. PICK i \in 1..h : ends[i] = taken + k
  BY <1>1, <1>2, <1>3
<1>9. Mark(i) = taken + k
  BY <1>8 DEF Mark
<1>10. i \in n..h
  <2>1. n \in 0..h /\ i \in 0..h
    BY <1>2, <1>7
  <2>2. taken \in Nat /\ k \in Nat /\ taken < taken + k
    BY LenProperties DEF Typed
  <2>3. n < i
    BY <1>2, <1>7, <1>9, <2>1, <2>2, MarksAre
  <2>4. QED
    BY <1>2, <2>3
<1>11. InOrder(n)'
  <2>1. Mark(n)' = Mark(n) /\ Mark(i)' = Mark(i)
    BY <1>4 DEF Mark
  <2>2. chunk' = SubSeq(stream', Mark(n)' + 1, taken')
    BY <1>3, <1>4, <1>7, <2>1
  <2>3. taken' = Mark(i)' /\ i \in n..Len(ends')
    BY <1>2, <1>3, <1>4, <1>9, <1>10, <2>1
  <2>4. received' \in Seq(Views) /\ Len(received') = n /\ n <= Len(sent')
        /\ \A l \in 1..n : received'[l] = AsSent(sent'[l])
    BY <1>4, <1>6 DEF InOrder
  <2>5. QED
    BY <2>2, <2>3, <2>4 DEF InOrder
<1>12. QED
  BY <1>11

\* Cutting a message off the chunk receives the next one sent.
LEMMA CutReceived ==
  ASSUME Typed, StreamAsSent, ReceivedAsSent, CutMsgPack
  PROVE  ReceivedAsSent'
<1>1. SUFFICES ASSUME aligned', Usual' PROVE \E n \in Nat : InOrder(n)'
  BY DEF ReceivedAsSent
<1>2. PICK h \in Nat : h = Len(ends) /\ h = Len(sent)
  BY MarksAre
<1>3. PICK p : p = Parse(httpmsg, chunk)
  OBVIOUS
<1>4. /\ chunk # <<>> /\ received' = Append(received, View(p.msg)) /\ chunk' = p.rest
      /\ UNCHANGED <<kind, senderVars, taken, reads, aligned>>
  BY <1>3 DEF CutMsgPack
<1>5. sent' = sent /\ stream' = stream /\ ends' = ends /\ taken' = taken /\ aligned' = aligned
  BY <1>4 DEF senderVars
<1>6. Usual
  BY <1>1, <1>5 DEF Usual
<1>7. PICK n \in Nat : InOrder(n)
  BY <1>1, <1>5, <1>6 DEF ReceivedAsSent
<1>8. PICK j \in n..h : taken = Mark(j) /\ j # n
  BY <1>2, <1>4, <1>7, ChunkIs
<1>9. PICK m \in Nat : m = n + 1 /\ m - 1 = n /\ m \in 1..h /\ m \in 0..h /\ n \in 0..h /\ j \in m..h
  BY <1>2, <1>8
<1>10. PICK r \in MessageOf : r = sent[m]
  BY <1>2, <1>9, ElementOfSeq DEF Typed
<1>11. InStream(m)
  <2>1. sent[m].usual
    BY <1>2, <1>6, <1>9 DEF Usual
  <2>2. QED
    BY <1>2, <1>9, <2>1 DEF StreamAsSent
<1>12. PICK a \in Nat, b \in Nat, c \in Nat :
         /\ a = Mark(n) /\ b = Mark(m) /\ c = taken /\ c = Mark(j)
         /\ a < b /\ b <= c /\ c <= Len(stream)
  <2>1. n < m /\ (j = m \/ m < j) /\ j \in 0..h
    BY <1>9
  <2>2. Mark(n) \in 0..Len(stream) /\ Mark(m) \in 0..Len(stream) /\ Mark(j) \in 0..Len(stream)
        /\ Len(stream) \in Nat
    BY <1>2, <1>9, <2>1, MarksAre
  <2>3. Mark(n) < Mark(m)
    BY <1>2, <1>9, <2>1, MarksAre
  <2>4. Mark(m) <= Mark(j)
    <3>1. CASE j = m
      BY <2>2, <3>1
    <3>2. CASE m < j
      <4>1. Mark(m) < Mark(j)
        BY <1>2, <1>9, <2>1, <3>2, MarksAre
      <4>2. QED
        BY <2>2, <4>1
    <3>3. QED
      BY <2>1, <3>1, <3>2
  <2>5. QED
    BY <1>8, <2>2, <2>3, <2>4
<1>13. WellFormed(r) /\ SubSeq(stream, a + 1, b) = Bytes(r)
  BY <1>9, <1>10, <1>11, <1>12 DEF InStream
<1>14. chunk = SubSeq(stream, a + 1, c)
  BY <1>7, <1>12 DEF InOrder
<1>15. PICK t \in Seq(Symbol) : t = SubSeq(stream, b + 1, c)
  <2>1. stream \in Seq(Symbol)
    BY DEF Typed
  <2>2. PICK d \in Nat : d = b + 1 /\ 1 <= d
    BY <1>12
  <2>3. \A i \in d..c : stream[i] \in Symbol
    BY <1>12, <2>1, <2>2, ElementOfSeq
  <2>4. SubSeq(stream, d, c) \in Seq(Symbol)
    BY <1>12, <2>2, <2>3, SubSeqProperties
  <2>5. QED
    BY <2>2, <2>4
<1>16. chunk = Bytes(r) \o t
  <2>1. stream \in Seq(Symbol) /\ Len(stream) \in Nat
    BY LenProperties DEF Typed
  <2>2. PICK d \in Nat : d = a + 1 /\ d - 1 = a
    BY <1>12
  <2>3. d \in 1..Len(stream) + 1 /\ b \in d - 1..Len(stream) /\ c \in b..Len(stream)
    BY <1>12, <2>1, <2>2
  <2>4. SubSeq(stream, d, b) \o SubSeq(stream, b + 1, c) = SubSeq(stream, d, c)
    BY <2>1, <2>3, ConcatAdjacentSubSeq
  <2>5. QED
    BY <1>13, <1>14, <1>15, <2>2, <2>4
<1>17. p.rest = t /\ View(p.msg) = AsSent(r)
  <2>1. PICK k \in {"svr", "cli"} : k = kind
    BY KindsAssumption DEF Typed
  <2>2. p = Parse(Cleared(k), Bytes(r) \o t)
    BY <1>3, <1>16, <2>1 DEF Typed
  <2>3. Parse(Cleared(k), Bytes(r) \o t).rest = t
        /\ View(Parse(Cleared(k), Bytes(r) \o t).msg) = AsSent(r)
    BY <1>13, MessageParsed
  <2>4. QED
    BY <2>2, <2>3
<1>18. PICK v \in Views : v = AsSent(r) /\ received' = Append(received, v)
  BY <1>4, <1>17 DEF Views
<1>19. /\ received' \in Seq(Views) /\ Len(received') = m /\ received'[m] = AsSent(sent[m])
       /\ \A i \in 1..n : received'[i] = AsSent(sent[i])
  <2>1. /\ received \in Seq(Views) /\ Len(received) = n
        /\ \A i \in 1..n : received[i] = AsSent(sent[i])
    BY <1>7 DEF InOrder
  <2>2. /\ received' \in Seq(Views) /\ Len(received') = n + 1 /\ received'[n + 1] = v
        /\ \A i \in 1..n : received'[i] = received[i]
    BY <1>18, <2>1, AppendProperties
  <2>3. QED
    BY <1>9, <1>10, <1>18, <2>1, <2>2
<1>20. InOrder(m)'
  <2>1. \A i \in 1..m : received'[i] = AsSent(sent'[i])
    <3>1. \A i \in 1..m : i \in 1..n \/ i = m
      BY <1>9
    <3>2. QED
      BY <1>5, <1>19, <3>1
  <2>2. Mark(m)' = b /\ Mark(j)' = c
    BY <1>5, <1>12 DEF Mark
  <2>3. chunk' = SubSeq(stream', Mark(m)' + 1, taken')
    BY <1>4, <1>5, <1>12, <1>15, <1>17, <2>2
  <2>4. taken' = Mark(j)' /\ j \in m..Len(ends')
    BY <1>2, <1>5, <1>9, <1>12, <2>2
  <2>5. m <= Len(sent')
    BY <1>2, <1>5, <1>9
  <2>6. QED
    BY <1>19, <2>1, <2>3, <2>4, <2>5 DEF InOrder
<1>21. QED
  BY <1>20

\* Every step keeps the invariant.
LEMMA HttpInvStep ==
  ASSUME HttpInv, [Next]_vars
  PROVE  HttpInv'
<1>1. Typed /\ BuiltAsMeant /\ StreamAsSent /\ ReceivedAsSent
  BY DEF HttpInv
<1>2. Typed'
  BY <1>1, TypedStep
<1>3. CASE \E r \in Requests : SendRequest(r)
  <2>1. PICK msg, bytes : Sending(msg, bytes) /\ UNCHANGED <<kind, building, meant, receiverVars>>
    BY <1>3, SendRequestSends
  <2>2. StreamAsSent'
    BY <1>1, <2>1, SendingStream
  <2>3. BuiltAsMeant'
    BY <1>1, <2>1, OthersBuilt
  <2>4. ReceivedAsSent'
    BY <1>1, <2>1, ReceivedSend
  <2>5. QED
    BY <1>2, <2>2, <2>3, <2>4 DEF HttpInv
<1>4. CASE SendHttpMsg
  <2>1. PICK msg, bytes : Sending(msg, bytes) /\ UNCHANGED <<kind, receiverVars>>
    BY <1>1, <1>4, SendHttpMsgSends
  <2>2. StreamAsSent'
    BY <1>1, <2>1, SendingStream
  <2>3. BuiltAsMeant'
    BY <1>4, SendHttpMsgBuilt
  <2>4. ReceivedAsSent'
    BY <1>1, <2>1, ReceivedSend
  <2>5. QED
    BY <1>2, <2>2, <2>3, <2>4 DEF HttpInv
<1>5. ASSUME BuiltAsMeant', UNCHANGED <<kind, sent, stream, ends, receiverVars>>
      PROVE  HttpInv'
  <2>1. StreamAsSent'
    BY <1>1, <1>5, OthersStream
  <2>2. ReceivedAsSent'
    BY <1>1, <1>5, OthersReceived
  <2>3. QED
    BY <1>2, <1>5, <2>1, <2>2 DEF HttpInv
<1>6. CASE \E i \in 1..3 : SetFirstLine(i)
  <2>1. BuiltAsMeant'
    BY <1>1, <1>6, SetFirstLineBuilt
  <2>2. QED
    BY <1>5, <1>6, <2>1 DEF SetFirstLine
<1>7. CASE \E what \in {"Location", "Content-Type"} : SetOneHeader(what)
  <2>1. BuiltAsMeant'
    BY <1>1, <1>7, SetOneHeaderBuilt
  <2>2. QED
    BY <1>5, <1>7, <2>1 DEF SetOneHeader
<1>8. CASE SetServerOrDate("Server")
  <2>1. BuiltAsMeant'
    BY <1>1, <1>8, SetServerBuilt
  <2>2. QED
    BY <1>5, <1>8, <2>1 DEF SetServerOrDate
<1>9. CASE \E body \in Bodies : SetMsgBody(body)
  <2>1. BuiltAsMeant'
    BY <1>1, <1>9, SetMsgBodyBuilt
  <2>2. QED
    BY <1>5, <1>9, <2>1 DEF SetMsgBody
<1>10. ASSUME ReceivedAsSent', UNCHANGED senderVars PROVE HttpInv'
  <2>1. StreamAsSent' /\ BuiltAsMeant'
    BY <1>1, <1>10, OthersStream, OthersBuilt DEF senderVars
  <2>2. QED
    BY <1>2, <1>10, <2>1 DEF HttpInv
<1>11. CASE \E k \in 1..Len(stream) - taken : Read(k)
  <2>1. ReceivedAsSent'
    BY <1>1, <1>11, ReadReceived
  <2>2. UNCHANGED senderVars
    BY <1>11 DEF Read
  <2>3. QED
    BY <1>10, <2>1, <2>2
<1>12. CASE CutMsgPack
  <2>1. ReceivedAsSent'
    BY <1>1, <1>12, CutReceived
  <2>2. UNCHANGED senderVars
    BY <1>12 DEF CutMsgPack
  <2>3. QED
    BY <1>10, <2>1, <2>2
<1>13. CASE UNCHANGED vars
  <2>1. UNCHANGED <<building, meant>> /\ UNCHANGED <<kind, sent, stream, ends, receiverVars>>
    BY <1>13 DEF vars, senderVars
  <2>2. BuiltAsMeant'
    BY <1>1, <2>1, OthersBuilt
  <2>3. QED
    BY <1>5, <2>1, <2>2
<1>14. QED
  BY <1>3, <1>4, <1>6, <1>7, <1>8, <1>9, <1>11, <1>12, <1>13 DEF Next

\* Between the sender and the receiver everything is as meant: what is built,
\* what is in the stream, and which messages are received.
THEOREM HttpInvariant == Spec => []HttpInv
<1>1. Init => HttpInv
  BY TypedInit, BuiltInit, StreamInit, ReceivedInit DEF HttpInv
<1>2. HttpInv /\ [Next]_vars => HttpInv'
  BY HttpInvStep
<1>3. QED
  BY <1>1, <1>2, PTL DEF Spec

\* Chunks that end where messages end are cut into exactly the messages that
\* were sent (_CutMsgPack), for every number and length of messages.
THEOREM HttpCutAsSent == Spec => []CutAsSent
<1>1. HttpInv => CutAsSent
  <2>1. SUFFICES ASSUME HttpInv, aligned, Usual, chunk = <<>>
                 PROVE  /\ \A i \in 1..Len(received) :
                             received[i] = [line |-> sent[i].line, headers |-> sent[i].headers,
                                            body |-> sent[i].body]
                        /\ \A i \in 1..Len(sent) : (i <= Len(received)) = (ends[i] <= taken)
    BY DEF CutAsSent
  <2>2. Typed /\ StreamAsSent /\ ReceivedAsSent
    BY <2>1 DEF HttpInv
  <2>3. PICK n \in Nat : InOrder(n)
    BY <2>1, <2>2 DEF ReceivedAsSent
  <2>4. \A i \in 1..Len(received) :
          received[i] = [line |-> sent[i].line, headers |-> sent[i].headers, body |-> sent[i].body]
    BY <2>3 DEF InOrder, AsSent
  <2>5. PICK h \in Nat : h = Len(ends) /\ h = Len(sent)
    BY <2>2, MarksAre
  <2>6. taken = Mark(n) /\ n \in 0..h /\ Len(received) = n
    <3>1. PICK j \in n..Len(ends) : taken = Mark(j) /\ (chunk = <<>> <=> j = n)
      BY <2>2, <2>3, ChunkIs
    <3>2. QED
      BY <2>1, <2>3, <2>5, <3>1 DEF InOrder
  <2>7. ASSUME NEW i \in 1..h PROVE (i <= n) = (ends[i] <= taken)
    <3>1. Mark(i) = ends[i] /\ i \in 0..h
      BY <2>5 DEF Mark
    <3>2. Mark(n) < Mark(i) <=> n < i
      BY <2>2, <2>5, <2>6, <3>1, MarksAre
    <3>3. Mark(n) \in Nat /\ Mark(i) \in Nat
      BY <2>2, <2>5, <2>6, <3>1, MarksAre
    <3>4. QED
      BY <2>6, <3>1, <3>2, <3>3
  <2>8. QED
    BY <2>4, <2>5, <2>6, <2>7
<1>2. QED
  BY <1>1, HttpInvariant, PTL

=============================================================================
