------------------------------- MODULE SList -------------------------------
(***************************************************************************)
(* base::slist: a singly linked list with a pointer to its last node.  The *)
(* nodes are in a memory mem, a function from addresses that is shared by  *)
(* all lists, since join moves nodes from one list to another.  An         *)
(* operation returns the memory and the list after it.                     *)
(***************************************************************************)
EXTENDS Integers, Sequences, FiniteSets

CONSTANT Addresses      \* bound: the addresses a node may get
ASSUME AddressesAssumption == Addresses \subseteq Nat \ {0}

Null == 0
Free == [used |-> FALSE, val |-> 0, next |-> Null]

NewMemory == [a \in Addresses |-> Free]
NewList   == [head |-> Null, tail |-> Null, count |-> 0]

\* new Node: some address that is not in use.
FreshAddress(mem) ==
  CHOOSE a \in Addresses : ~mem[a].used /\ \A b \in Addresses : mem[b].used \/ a <= b
CanPush(mem) == \E a \in Addresses : ~mem[a].used

\* The new node is linked behind the last one, if there is one, and _head is
\* set if the list has none.
PushBack(mem, l, x) ==
  LET a    == FreshAddress(mem)
      node == [used |-> TRUE, val |-> x, next |-> Null]
      m    == [mem EXCEPT ![a] = node]
  IN  [mem  |-> IF l.tail = Null THEN m ELSE [m EXCEPT ![l.tail].next = a],
       list |-> [head  |-> IF l.head = Null THEN a ELSE l.head,
                 tail  |-> a,
                 count |-> l.count + 1]]

Front(mem, l) == mem[l.head].val

PopFront(mem, l) ==
  IF l.head = Null THEN [mem |-> mem, list |-> l]
  ELSE LET next == mem[l.head].next
       IN  [mem  |-> [mem EXCEPT ![l.head] = Free],
            list |-> [head  |-> next,
                      tail  |-> IF l.head = l.tail THEN next ELSE l.tail,
                      count |-> l.count - 1]]

\* Nodes reachable from a.
Reach(mem, a) ==
  LET next[k \in 0..Cardinality(Addresses)] ==
        IF k = 0 THEN a
        ELSE IF next[k - 1] = Null THEN Null ELSE mem[next[k - 1]].next
  IN  {next[k] : k \in DOMAIN next} \ {Null}

\* clear frees the nodes and forgets the head, not the tail.
Clear(mem, l) ==
  [mem  |-> [a \in Addresses |-> IF a \in Reach(mem, l.head) THEN Free ELSE mem[a]],
   list |-> [l EXCEPT !.head = Null, !.count = 0]]

\* l.join(o): all nodes of o go behind those of l.  An empty o leaves l
\* without its tail: callers join to an empty list, or a list that is not empty.
Join(mem, l, o) ==
  [mem  |-> IF l.tail = Null THEN mem ELSE [mem EXCEPT ![l.tail].next = o.head],
   list |-> [head  |-> IF l.tail = Null THEN o.head ELSE l.head,
             tail  |-> o.tail,
             count |-> l.count + o.count],
   rest |-> NewList]

-----------------------------------------------------------------------------
\* The sequence that a list stands for: its first count values.
Values(mem, l) ==
  LET node[k \in 1..l.count] == IF k = 1 THEN l.head ELSE mem[node[k - 1]].next
  IN  [k \in 1..l.count |-> mem[node[k]].val]
=============================================================================
