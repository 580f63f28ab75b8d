---------------------------- MODULE HelperProofs ----------------------------
(***************************************************************************)
(* Two of the helpers that the assignments share.                          *)
(*                                                                         *)
(* list_head.h, for any number of lists and entries: after every call the  *)
(* pointers are the links of one ring per list, and what Queues says of    *)
(* the call has happened to the sequences of entries on them.              *)
(*                                                                         *)
(* parse_command, for any lines: the words it points to are those that     *)
(* were typed.                                                             *)
(***************************************************************************)
EXTENDS LinkedList, Words, SequenceTheorems, FiniteSetTheorems, WellFoundedInduction, TLAPS

Memories == [next : [Nodes -> Nodes \cup {Poison}], prev : [Nodes -> Nodes \cup {Poison}]]
Arrangements == [Heads -> Seq(Entries)]

(* The nodes of a ring, from its head at 0 to its head again.              *)
Node(q, h, i) == IF i \in 1 .. Len(q[h]) THEN q[h][i] ELSE h

(* No entry is in two lists, nor twice in one.                             *)
Distinct(q) ==
    \A g, h \in Heads : \A i \in 1 .. Len(q[g]), j \in 1 .. Len(q[h]) :
        q[g][i] = q[h][j] => g = h /\ i = j
Free(q, e) == \A h \in Heads : \A i \in 1 .. Len(q[h]) : q[h][i] # e

Ring(m, q, h) ==
    \A i \in 0 .. Len(q[h]) : /\ m.next[Node(q, h, i)] = Node(q, h, i + 1)
                              /\ m.prev[Node(q, h, i + 1)] = Node(q, h, i)
LooseEntry(m, e) == m.next[e] = m.prev[e] /\ m.next[e] \in {e, Poison}

(* The sequences q are what the pointers of m stand for.                   *)
Represents(m, q) ==
    /\ m \in Memories
    /\ q \in Arrangements /\ Distinct(q)
    /\ \A h \in Heads : Ring(m, q, h)
    /\ \A e \in Entries : Free(q, e) => LooseEntry(m, e)

-----------------------------------------------------------------------------
(* The nodes of the rings.                                                 *)

LEMMA SeqFacts ==
    ASSUME NEW q \in Arrangements, NEW h \in Heads
    PROVE  /\ q[h] \in Seq(Entries) /\ Len(q[h]) \in Nat /\ DOMAIN q[h] = 1 .. Len(q[h])
           /\ \A i \in 1 .. Len(q[h]) : q[h][i] \in Entries /\ q[h][i] \notin Heads
BY NodesAssumption, LenProperties, ElementOfSeq DEF Arrangements

LEMMA NodeFacts ==
    ASSUME NEW q \in Arrangements, NEW h \in Heads
    PROVE  /\ Node(q, h, 0) = h /\ Node(q, h, Len(q[h]) + 1) = h
           /\ \A i \in 0 .. Len(q[h]) + 1 :
                /\ Node(q, h, i) \in Nodes
                /\ i \in 1 .. Len(q[h]) => Node(q, h, i) = q[h][i] /\ Node(q, h, i) # h
<1>1. /\ Len(q[h]) \in Nat
      /\ \A i \in 1 .. Len(q[h]) : q[h][i] \in Entries /\ q[h][i] \notin Heads
  BY SeqFacts
<1> QED
  BY <1>1 DEF Node, Nodes

(* Two places of the rings are the same node only where a head is the      *)
(* beginning and the end of its ring.                                      *)
LEMMA NodesDiffer ==
    ASSUME NEW q \in Arrangements, Distinct(q), NEW g \in Heads, NEW h \in Heads,
           NEW i \in 0 .. Len(q[g]), NEW j \in 0 .. Len(q[h])
    PROVE  /\ Node(q, g, i) = Node(q, h, j) => g = h /\ i = j
           /\ Node(q, g, i + 1) = Node(q, h, j + 1) => g = h /\ i = j
<1>1. /\ Len(q[h]) \in Nat /\ Len(q[g]) \in Nat
      /\ \A k \in 1 .. Len(q[h]) : q[h][k] \notin Heads
      /\ \A k \in 1 .. Len(q[g]) : q[g][k] \notin Heads
  BY SeqFacts
<1>2. Node(q, g, i) = Node(q, h, j) => g = h /\ i = j
  BY <1>1 DEF Node, Distinct
<1>3. Node(q, g, i + 1) = Node(q, h, j + 1) => g = h /\ i = j
  BY <1>1 DEF Node, Distinct
<1> QED
  BY <1>2, <1>3

Around(q, g, i, h, k) ==
    /\ Node(q, g, i) = Node(q, h, k - 1) => g = h /\ i = k - 1
    /\ Node(q, g, i) = Node(q, h, k) => g = h /\ i = k
    /\ Node(q, g, i + 1) = Node(q, h, k + 1) => g = h /\ i = k
    /\ Node(q, g, i + 1) = Node(q, h, (k - 1) + 1) => g = h /\ i = k - 1

LEMMA AroundAnEntry ==
    ASSUME NEW q \in Arrangements, Distinct(q), NEW g \in Heads, NEW h \in Heads,
           NEW i \in 0 .. Len(q[g]), NEW k \in 1 .. Len(q[h])
    PROVE  Around(q, g, i, h, k)
<1>1. k \in 0 .. Len(q[h]) /\ k - 1 \in 0 .. Len(q[h])
  BY SeqFacts
<1>2. /\ Node(q, g, i) = Node(q, h, k) => g = h /\ i = k
      /\ Node(q, g, i + 1) = Node(q, h, k + 1) => g = h /\ i = k
  BY <1>1, NodesDiffer
<1>3. PICK j \in 0 .. Len(q[h]) : j = k - 1
  BY <1>1
<1>4. /\ Node(q, g, i) = Node(q, h, j) => g = h /\ i = j
      /\ Node(q, g, i + 1) = Node(q, h, j + 1) => g = h /\ i = j
  BY NodesDiffer
<1> QED
  BY <1>2, <1>3, <1>4, Zenon DEF Around

(* A node off the rings is none of theirs.                                 *)
LEMMA FreeIsOffTheRings ==
    ASSUME NEW q \in Arrangements, NEW e \in Entries, Free(q, e), NEW h \in Heads,
           NEW i \in 0 .. Len(q[h]) + 1
    PROVE  Node(q, h, i) # e
BY NodesAssumption, SeqFacts DEF Node, Free

LEMMA ChangedArrangement ==
    ASSUME NEW q \in Arrangements, NEW h \in Heads, NEW s \in Seq(Entries)
    PROVE  LET r == [q EXCEPT ![h] = s] IN
           /\ r \in Arrangements /\ r[h] = s
           /\ \A g \in Heads \ {h} : r[g] = q[g] /\ \A i : Node(r, g, i) = Node(q, g, i)
BY DEF Arrangements, Node

(* An entry that is off the rings is put between two nodes of one.         *)
LEMMA InsertRepresents ==
    ASSUME NEW m, NEW q, Represents(m, q), NEW e \in Entries, Free(q, e),
           NEW h \in Heads, NEW k \in 0 .. Len(q[h]),
           NEW s \in Seq(Entries), Len(s) = Len(q[h]) + 1,
           \A i \in 1 .. Len(s) :
               s[i] = IF i <= k THEN q[h][i] ELSE IF i = k + 1 THEN e ELSE q[h][i - 1]
    PROVE  Represents(list_insert(m, e, Node(q, h, k), Node(q, h, k + 1)), [q EXCEPT ![h] = s])
<1> DEFINE a == Node(q, h, k)
           b == Node(q, h, k + 1)
           m2 == list_insert(m, e, a, b)
           r == [q EXCEPT ![h] = s]
<1>1. /\ m \in Memories /\ q \in Arrangements /\ Distinct(q)
      /\ \A g \in Heads : Ring(m, q, g)
      /\ \A x \in Entries : Free(q, x) => LooseEntry(m, x)
  BY DEF Represents
<1>2. /\ Len(q[h]) \in Nat /\ k \in 0 .. Len(q[h]) + 1 /\ k + 1 \in 0 .. Len(q[h]) + 1
  BY <1>1, SeqFacts
<1>3. a \in Nodes /\ b \in Nodes /\ e \in Nodes /\ a # e /\ b # e
  BY <1>1, <1>2, NodeFacts, FreeIsOffTheRings DEF Nodes
<1>4. /\ r \in Arrangements /\ r[h] = s
      /\ \A g \in Heads \ {h} : r[g] = q[g] /\ \A i : Node(r, g, i) = Node(q, g, i)
  BY <1>1, ChangedArrangement
<1>5. /\ m2 \in Memories
      /\ \A n \in Nodes : /\ m2.next[n] = IF n = a THEN e ELSE IF n = e THEN b ELSE m.next[n]
                          /\ m2.prev[n] = IF n = e THEN a ELSE IF n = b THEN e ELSE m.prev[n]
  BY <1>1, <1>3 DEF list_insert, Memories
<1> HIDE DEF m2, r
<1>6. \A i \in 0 .. Len(s) + 1 :
         Node(r, h, i) = IF i <= k THEN Node(q, h, i)
                         ELSE IF i = k + 1 THEN e ELSE Node(q, h, i - 1)
  BY <1>2, <1>4, SMTT(30) DEF Node
<1>7. ASSUME NEW g \in Heads, NEW i \in 0 .. Len(q[g]), ~(g = h /\ i = k)
      PROVE  /\ m2.next[Node(q, g, i)] = Node(q, g, i + 1)
             /\ m2.prev[Node(q, g, i + 1)] = Node(q, g, i)
  <2>1. /\ Len(q[g]) \in Nat /\ i \in 0 .. Len(q[g]) + 1 /\ i + 1 \in 0 .. Len(q[g]) + 1
    BY <1>1, SeqFacts
  <2>2. /\ Node(q, g, i) \in Nodes /\ Node(q, g, i + 1) \in Nodes
        /\ Node(q, g, i) # e /\ Node(q, g, i + 1) # e
    BY <1>1, <2>1, NodeFacts, FreeIsOffTheRings
  <2>3. Node(q, g, i) # a /\ Node(q, g, i + 1) # b
    <3>1. /\ Node(q, g, i) = Node(q, h, k) => g = h /\ i = k
          /\ Node(q, g, i + 1) = Node(q, h, k + 1) => g = h /\ i = k
      BY <1>1, NodesDiffer
    <3> QED
      BY <1>7, <3>1
  <2>4. /\ m.next[Node(q, g, i)] = Node(q, g, i + 1)
        /\ m.prev[Node(q, g, i + 1)] = Node(q, g, i)
    BY <1>1 DEF Ring
  <2> QED
    BY <1>5, <2>2, <2>3, <2>4
<1>8. Ring(m2, r, h)
  <2> SUFFICES ASSUME NEW i \in 0 .. Len(s)
               PROVE  /\ m2.next[Node(r, h, i)] = Node(r, h, i + 1)
                      /\ m2.prev[Node(r, h, i + 1)] = Node(r, h, i)
    BY <1>4 DEF Ring
  <2>1. CASE i < k
    <3>1. i \in 0 .. Len(q[h]) /\ i # k
      BY <1>2, <2>1
    <3>2. /\ i \in 0 .. Len(s) + 1 /\ i + 1 \in 0 .. Len(s) + 1
          /\ i <= k /\ i + 1 <= k
      BY <1>2, <2>1
    <3>3. Node(r, h, i) = Node(q, h, i) /\ Node(r, h, i + 1) = Node(q, h, i + 1)
      BY <1>6, <3>2
    <3> QED
      BY <1>7, <3>1, <3>3
  <2>2. CASE i = k
    BY <1>2, <1>3, <1>5, <1>6, <2>2
  <2>3. CASE i = k + 1
    BY <1>2, <1>3, <1>5, <1>6, <2>3
  <2>4. CASE i > k + 1
    <3>1. i - 1 \in 0 .. Len(q[h]) /\ i - 1 # k /\ (i - 1) + 1 = i
      BY <1>2, <2>4
    <3>2. Node(r, h, i) = Node(q, h, i - 1) /\ Node(r, h, i + 1) = Node(q, h, i)
      BY <1>2, <1>6, <2>4
    <3> QED
      BY <1>7, <3>1, <3>2
  <2> QED
    BY <2>1, <2>2, <2>3, <2>4, <1>2
<1>9. \A g \in Heads : Ring(m2, r, g)
  BY <1>4, <1>7, <1>8, SMTT(30) DEF Ring
<1>10. Distinct(r)
  <2>1. \A g \in Heads \ {h} : \A i \in 1 .. Len(q[g]), j \in 1 .. Len(s) : q[g][i] # s[j]
    BY <1>1, <1>2, SMTT(30) DEF Distinct, Free
  <2>2. ASSUME NEW i \in 1 .. Len(s), NEW j \in 1 .. Len(s), s[i] = s[j]
        PROVE  i = j
    <3>1. \A n \in 1 .. Len(s) \ {k + 1} :
             LET o == IF n <= k THEN n ELSE n - 1 IN o \in 1 .. Len(q[h]) /\ s[n] = q[h][o]
      BY <1>2
    <3>2. \A n, o \in 1 .. Len(q[h]) : q[h][n] = q[h][o] => n = o
      BY <1>1 DEF Distinct
    <3>3. \A n \in 1 .. Len(q[h]) : q[h][n] # e
      BY DEF Free
    <3>4. i = k + 1 <=> j = k + 1
      <4>1. s[k + 1] = e
        BY <1>2
      <4>2. \A n \in 1 .. Len(s) \ {k + 1} : s[n] # e
        BY <3>1, <3>3
      <4> QED
        BY <2>2, <4>1, <4>2
    <3>5. CASE i # k + 1 /\ j # k + 1
      <4> DEFINE o(n) == IF n <= k THEN n ELSE n - 1
      <4>1. /\ o(i) \in 1 .. Len(q[h]) /\ s[i] = q[h][o(i)]
            /\ o(j) \in 1 .. Len(q[h]) /\ s[j] = q[h][o(j)]
        BY <3>1, <3>5
      <4>2. o(i) = o(j)
        BY <2>2, <3>2, <4>1
      <4> QED
        BY <3>5, <4>2
    <3> QED
      BY <3>4, <3>5
  <2>3. \A g \in Heads \ {h} : \A f \in Heads \ {h} :
            \A i \in 1 .. Len(q[g]), j \in 1 .. Len(q[f]) : q[g][i] = q[f][j] => g = f /\ i = j
    BY <1>1 DEF Distinct
  <2> QED
    <3> SUFFICES ASSUME NEW f \in Heads, NEW g \in Heads,
                        NEW i \in 1 .. Len(r[f]), NEW j \in 1 .. Len(r[g]), r[f][i] = r[g][j]
                 PROVE  f = g /\ i = j
      BY Zenon DEF Distinct
    <3>1. CASE f = h /\ g = h
      BY <1>4, <2>2, <3>1
    <3>2. CASE f # h /\ g # h
      BY <1>4, <2>3, <3>2
    <3>3. CASE f = h /\ g # h
      <4>1. r[f] = s /\ r[g] = q[g] /\ g \in Heads \ {h}
        BY <1>4, <3>3
      <4>2. i \in 1 .. Len(s) /\ j \in 1 .. Len(q[g]) /\ s[i] = q[g][j]
        BY <4>1
      <4> QED
        BY <2>1, <4>1, <4>2, Zenon
    <3>4. CASE f # h /\ g = h
      BY <1>4, <2>1, <3>4
    <3> QED
      BY <3>1, <3>2, <3>3, <3>4
<1>11. ASSUME NEW x \in Entries, Free(r, x)
       PROVE  LooseEntry(m2, x)
  <2>1. \A i \in 1 .. Len(s) : s[i] # x
    BY <1>4, <1>11 DEF Free
  <2>2. x # e
    <3>1. k + 1 \in 1 .. Len(s) /\ s[k + 1] = e
      BY <1>2
    <3> QED
      BY <2>1, <3>1
  <2>3. \A i \in 1 .. Len(q[h]) : q[h][i] # x
    <3> SUFFICES ASSUME NEW i \in 1 .. Len(q[h]) PROVE q[h][i] # x
      OBVIOUS
    <3>1. CASE i <= k
      <4>1. i \in 1 .. Len(s) /\ s[i] = q[h][i]
        BY <1>2, <3>1
      <4> QED
        BY <2>1, <4>1
    <3>2. CASE i > k
      <4>1. i + 1 \in 1 .. Len(s) /\ s[i + 1] = q[h][i]
        BY <1>2, <3>2
      <4> QED
        BY <2>1, <4>1
    <3> QED
      BY <3>1, <3>2, <1>2
  <2>4. Free(q, x)
    BY <1>4, <1>11, <2>3, SMTT(30) DEF Free
  <2>5. x # a /\ x # b /\ x \in Nodes
    BY <1>1, <1>2, <2>4, FreeIsOffTheRings DEF Nodes
  <2> QED
    BY <1>1, <1>5, <2>2, <2>4, <2>5 DEF LooseEntry
<1> QED
  BY <1>4, <1>5, <1>9, <1>10, <1>11 DEF Represents, m2, r

(* The entries of different places differ where each of them tells which   *)
(* place it is at.                                                         *)
Located(q, list, place) ==
    \A h \in Heads : \A i \in 1 .. Len(q[h]) : list[q[h][i]] = h /\ place[q[h][i]] = i

LEMMA DistinctIsLocated ==
    ASSUME NEW q \in Arrangements, Distinct(q)
    PROVE  \E list, place : Located(q, list, place)
<1> DEFINE list == [e \in Entries |-> CHOOSE g \in Heads : \E i \in 1 .. Len(q[g]) : q[g][i] = e]
           place == [e \in Entries |-> CHOOSE i \in 1 .. Len(q[list[e]]) : q[list[e]][i] = e]
<1>1. ASSUME NEW h \in Heads, NEW i \in 1 .. Len(q[h])
      PROVE  list[q[h][i]] = h /\ place[q[h][i]] = i
  <2> DEFINE e == q[h][i]
  <2>0. e \in Entries
    BY SeqFacts
  <2>1. \A g \in Heads : \A j \in 1 .. Len(q[g]) : q[g][j] = e => g = h /\ j = i
    BY DEF Distinct
  <2>2. list[e] = CHOOSE g \in Heads : \E j \in 1 .. Len(q[g]) : q[g][j] = e
    BY <2>0
  <2>3. \E g \in Heads : \E j \in 1 .. Len(q[g]) : q[g][j] = e
    OBVIOUS
  <2>4. list[e] \in Heads /\ \E j \in 1 .. Len(q[list[e]]) : q[list[e]][j] = e
    <3> HIDE DEF list, e
    <3> QED
      BY <2>2, <2>3
  <2>5. list[e] = h
    <3> HIDE DEF list, e
    <3> QED
      BY <2>1, <2>4
  <2>6. place[e] = CHOOSE j \in 1 .. Len(q[list[e]]) : q[list[e]][j] = e
    BY <2>0
  <2>7. place[e] \in 1 .. Len(q[list[e]]) /\ q[list[e]][place[e]] = e
    <3> HIDE DEF list, e, place
    <3> QED
      BY <2>4, <2>6
  <2>8. place[e] = i
    <3> HIDE DEF list, e, place
    <3> QED
      BY <2>1, <2>5, <2>7
  <2> QED
    BY <2>5, <2>8
<1> HIDE DEF list, place
<1>2. Located(q, list, place)
  BY <1>1 DEF Located
<1> QED
  BY <1>2

LEMMA LocatedIsDistinct ==
    ASSUME NEW q, NEW list, NEW place, Located(q, list, place)
    PROVE  Distinct(q)
<1> SUFFICES ASSUME NEW f \in Heads, NEW g \in Heads,
                    NEW i \in 1 .. Len(q[f]), NEW j \in 1 .. Len(q[g]), q[f][i] = q[g][j]
             PROVE  f = g /\ i = j
  BY Zenon DEF Distinct
<1> QED
  BY DEF Located

(* An entry is taken off its ring and left pointing to itself or nowhere.  *)
Parked(m, e, v) == [next |-> [m.next EXCEPT ![e] = v], prev |-> [m.prev EXCEPT ![e] = v]]

LEMMA UnlinkRepresents ==
    ASSUME NEW m, NEW q, Represents(m, q), NEW h \in Heads, NEW k \in 1 .. Len(q[h]),
           NEW v \in {q[h][k], Poison},
           NEW s \in Seq(Entries), Len(s) = Len(q[h]) - 1,
           \A i \in 1 .. Len(s) : s[i] = IF i < k THEN q[h][i] ELSE q[h][i + 1]
    PROVE  Represents(Parked(list_del_entry(m, q[h][k]), q[h][k], v), [q EXCEPT ![h] = s])
<1> DEFINE e == q[h][k]
           a == Node(q, h, k - 1)
           b == Node(q, h, k + 1)
           m2 == Parked(list_del_entry(m, e), e, v)
           r == [q EXCEPT ![h] = s]
<1>1. /\ m \in Memories /\ q \in Arrangements /\ Distinct(q)
      /\ \A g \in Heads : Ring(m, q, g)
      /\ \A x \in Entries : Free(q, x) => LooseEntry(m, x)
  BY DEF Represents
<1>2. /\ Len(q[h]) \in Nat /\ k \in 0 .. Len(q[h]) /\ k - 1 \in 0 .. Len(q[h])
      /\ k \in 0 .. Len(q[h]) + 1 /\ k - 1 \in 0 .. Len(q[h]) + 1 /\ k + 1 \in 0 .. Len(q[h]) + 1
      /\ (k - 1) + 1 = k /\ k - 1 # k
  BY <1>1, SeqFacts
<1>3. e = Node(q, h, k) /\ e \in Entries
  BY <1>1, SeqFacts DEF Node
<1>4. a \in Nodes /\ b \in Nodes /\ e \in Nodes /\ a # e /\ b # e
  <2>1. a \in Nodes /\ b \in Nodes /\ e \in Nodes
    BY <1>1, <1>2, <1>3, NodeFacts
  <2>2. Node(q, h, k - 1) # Node(q, h, k)
    BY <1>1, <1>2, NodesDiffer
  <2>3. Node(q, h, k + 1) # Node(q, h, (k - 1) + 1)
    BY <1>1, <1>2, NodesDiffer
  <2> QED
    BY <1>2, <1>3, <2>1, <2>2, <2>3
<1>5. m.next[e] = b /\ m.prev[e] = a
  <2>1. m.next[Node(q, h, k)] = b
    BY <1>1, <1>2 DEF Ring
  <2>2. m.prev[Node(q, h, (k - 1) + 1)] = a
    BY <1>1, <1>2, Zenon DEF Ring
  <2> QED
    BY <1>2, <1>3, <2>1, <2>2
<1>6. /\ r \in Arrangements /\ r[h] = s
      /\ \A g \in Heads \ {h} : r[g] = q[g] /\ \A i : Node(r, g, i) = Node(q, g, i)
  BY <1>1, ChangedArrangement
<1>7. /\ m2 \in Memories
      /\ \A n \in Nodes : /\ m2.next[n] = IF n = e THEN v ELSE IF n = a THEN b ELSE m.next[n]
                          /\ m2.prev[n] = IF n = e THEN v ELSE IF n = b THEN a ELSE m.prev[n]
  BY <1>1, <1>4, <1>5 DEF list_del_entry, list_unlink, Parked, Memories
<1> HIDE DEF m2, r, e
<1>8. \A i \in 0 .. Len(s) + 1 :
         Node(r, h, i) = IF i < k THEN Node(q, h, i) ELSE Node(q, h, i + 1)
  <2>1. PICK l \in Nat : l = Len(q[h])
    BY <1>2
  <2>2. /\ Len(s) = l - 1 /\ k \in 0 .. l
        /\ \A i \in 1 .. l - 1 : s[i] = IF i < k THEN q[h][i] ELSE q[h][i + 1]
    BY <1>2, <2>1
  <2>3. \A i : /\ Node(q, h, i) = IF i \in 1 .. l THEN q[h][i] ELSE h
               /\ Node(r, h, i) = IF i \in 1 .. l - 1 THEN s[i] ELSE h
    BY <1>6, <2>1, <2>2, Zenon DEF Node
  <2>4. k \in 1 .. l
    BY <2>1
  <2>5. ASSUME NEW i \in 0 .. (l - 1) + 1
        PROVE  Node(r, h, i) = IF i < k THEN Node(q, h, i) ELSE Node(q, h, i + 1)
    <3>1. CASE i < k
      <4>1. (i \in 1 .. l - 1 /\ i \in 1 .. l) \/ (i \notin 1 .. l - 1 /\ i \notin 1 .. l)
        BY <2>4, <3>1
      <4> QED
        BY <2>2, <2>3, <3>1, <4>1, Zenon
    <3>2. CASE ~(i < k)
      <4>1. (i \in 1 .. l - 1 /\ i + 1 \in 1 .. l) \/ (i \notin 1 .. l - 1 /\ i + 1 \notin 1 .. l)
        BY <2>4, <3>2
      <4> QED
        BY <2>2, <2>3, <3>2, <4>1, Zenon
    <3> QED
      BY <3>1, <3>2
  <2> QED
    BY <2>2, <2>5, Zenon
<1>9. ASSUME NEW g \in Heads, NEW i \in 0 .. Len(q[g]), ~(g = h /\ i \in {k - 1, k})
      PROVE  /\ m2.next[Node(q, g, i)] = Node(q, g, i + 1)
             /\ m2.prev[Node(q, g, i + 1)] = Node(q, g, i)
  <2>1. Len(q[g]) \in Nat /\ i \in 0 .. Len(q[g]) + 1 /\ i + 1 \in 0 .. Len(q[g]) + 1
    BY <1>1, SeqFacts
  <2>2. Node(q, g, i) \in Nodes /\ Node(q, g, i + 1) \in Nodes
    BY <1>1, <2>1, NodeFacts
  <2>3. /\ Node(q, g, i) = Node(q, h, k - 1) => g = h /\ i = k - 1
        /\ Node(q, g, i) = Node(q, h, k) => g = h /\ i = k
        /\ Node(q, g, i + 1) = Node(q, h, k + 1) => g = h /\ i = k
        /\ Node(q, g, i + 1) = Node(q, h, (k - 1) + 1) => g = h /\ i = k - 1
    <3>1. q \in Arrangements /\ Distinct(q)
      BY <1>1
    <3>2. Around(q, g, i, h, k)
      BY <3>1, AroundAnEntry, Zenon
    <3> QED
      BY <3>2, Zenon DEF Around
  <2>4. /\ Node(q, g, i) # a /\ Node(q, g, i) # e
        /\ Node(q, g, i + 1) # b /\ Node(q, g, i + 1) # e
    <3>1. ~(g = h /\ i = k - 1) /\ ~(g = h /\ i = k)
      BY <1>9
    <3> QED
      BY <1>2, <1>3, <2>3, <3>1
  <2>5. /\ m.next[Node(q, g, i)] = Node(q, g, i + 1)
        /\ m.prev[Node(q, g, i + 1)] = Node(q, g, i)
    BY <1>1 DEF Ring
  <2> QED
    BY <1>7, <2>2, <2>4, <2>5
<1>10. Ring(m2, r, h)
  <2> SUFFICES ASSUME NEW i \in 0 .. Len(s)
               PROVE  /\ m2.next[Node(r, h, i)] = Node(r, h, i + 1)
                      /\ m2.prev[Node(r, h, i + 1)] = Node(r, h, i)
    BY <1>6 DEF Ring
  <2>0. i \in 0 .. Len(s) + 1 /\ i + 1 \in 0 .. Len(s) + 1
    BY <1>2
  <2>1. CASE i < k - 1
    <3>1. i \in 0 .. Len(q[h]) /\ i \notin {k - 1, k} /\ i < k /\ i + 1 < k
      BY <1>2, <2>1
    <3>2. Node(r, h, i) = Node(q, h, i) /\ Node(r, h, i + 1) = Node(q, h, i + 1)
      BY <1>8, <2>0, <3>1
    <3> QED
      BY <1>9, <3>1, <3>2
  <2>2. CASE i = k - 1
    <3>1. i < k /\ i + 1 = k /\ ~(i + 1 < k)
      BY <1>2, <2>2
    <3>2. Node(r, h, i) = a /\ Node(r, h, i + 1) = b
      BY <1>8, <2>0, <2>2, <3>1
    <3> QED
      BY <1>4, <1>7, <3>2
  <2>3. CASE i >= k
    <3>1. i + 1 \in 0 .. Len(q[h]) /\ i + 1 \notin {k - 1, k} /\ ~(i < k) /\ ~(i + 1 < k)
      BY <1>2, <2>3
    <3>2. Node(r, h, i) = Node(q, h, i + 1) /\ Node(r, h, i + 1) = Node(q, h, i + 2)
      BY <1>8, <2>0, <3>1
    <3> QED
      BY <1>9, <3>1, <3>2
  <2> QED
    BY <2>1, <2>2, <2>3, <1>2
<1>11. \A g \in Heads : Ring(m2, r, g)
  <2>1. ASSUME NEW g \in Heads, g # h
        PROVE  Ring(m2, r, g)
    BY <1>6, <1>9, <2>1 DEF Ring
  <2> QED
    BY <1>10, <2>1
<1>12. Distinct(r)
  <2>1. PICK list, place : Located(q, list, place)
    BY <1>1, DistinctIsLocated
  <2> DEFINE place2 == [x \in Entries |-> IF list[x] = h /\ place[x] > k THEN place[x] - 1
                                          ELSE place[x]]
  <2>2. ASSUME NEW g \in Heads, NEW i \in 1 .. Len(r[g])
        PROVE  list[r[g][i]] = g /\ place2[r[g][i]] = i
    <3>1. r[g][i] \in Entries
      BY <1>6, SeqFacts
    <3>2. CASE g = h /\ i < k
      <4>1. i \in 1 .. Len(q[h]) /\ r[g][i] = q[h][i] /\ ~(i > k)
        <5>1. PICK l \in Nat : l = Len(s) /\ l + 1 = Len(q[h])
          BY <1>2
        <5>2. i \in 1 .. l /\ r[g][i] = s[i]
          BY <1>6, <3>2, <5>1
        <5>3. i \in 1 .. l + 1 /\ ~(i > k) /\ i < k
          BY <3>2, <5>2
        <5>4. s[i] = q[h][i]
          BY <5>1, <5>2, <5>3, Zenon
        <5> QED
          BY <5>1, <5>2, <5>3, <5>4, Zenon
      <4> QED
        BY <2>1, <3>1, <3>2, <4>1 DEF Located
    <3>3. CASE g = h /\ i >= k
      <4>1. i + 1 \in 1 .. Len(q[h]) /\ r[g][i] = q[h][i + 1] /\ i + 1 > k /\ (i + 1) - 1 = i
        BY <1>2, <1>6, <3>3
      <4>2. list[r[g][i]] = h /\ place[r[g][i]] = i + 1
        BY <2>1, <4>1 DEF Located
      <4> QED
        BY <3>1, <3>3, <4>1, <4>2
    <3>4. CASE g # h
      <4>1. i \in 1 .. Len(q[g]) /\ r[g][i] = q[g][i]
        BY <1>6, <3>4
      <4> QED
        BY <2>1, <3>1, <3>4, <4>1 DEF Located
    <3> QED
      BY <1>2, <1>6, <3>2, <3>3, <3>4
  <2> HIDE DEF place2
  <2>3. Located(r, list, place2)
    BY <2>2 DEF Located
  <2> QED
    BY <2>3, LocatedIsDistinct
<1>13. ASSUME NEW x \in Entries, Free(r, x)
       PROVE  LooseEntry(m2, x)
  <2>1. CASE x = e
    BY <1>4, <1>7, <2>1 DEF LooseEntry, e
  <2>2. CASE x # e
    <3>1. \A i \in 1 .. Len(q[h]) : q[h][i] # x
      <4> SUFFICES ASSUME NEW i \in 1 .. Len(q[h]) PROVE q[h][i] # x
        OBVIOUS
      <4>1. CASE i < k
        <5>1. i \in 1 .. Len(s) /\ s[i] = q[h][i]
          BY <1>2, <4>1
        <5> QED
          BY <1>6, <1>13, <5>1 DEF Free
      <4>2. CASE i > k
        <5>1. i - 1 \in 1 .. Len(s) /\ s[i - 1] = q[h][i]
          BY <1>2, <4>2
        <5> QED
          BY <1>6, <1>13, <5>1 DEF Free
      <4> QED
        BY <1>2, <2>2, <4>1, <4>2 DEF e
    <3>2. Free(q, x)
      BY <1>6, <1>13, <3>1 DEF Free
    <3>3. x # a /\ x # b /\ x \in Nodes
      BY <1>1, <1>2, <3>2, FreeIsOffTheRings DEF Nodes
    <3> QED
      BY <1>1, <1>7, <2>2, <3>2, <3>3 DEF LooseEntry
  <2> QED
    BY <2>1, <2>2
<1> QED
  BY <1>6, <1>7, <1>11, <1>12, <1>13 DEF Represents, m2, r, e

(* The sequence v, put behind the first k of the sequence u.               *)
Joined(u, v, k, s) ==
    /\ Len(s) = Len(u) + Len(v)
    /\ \A i \in 1 .. Len(s) :
          s[i] = IF i <= k THEN u[i] ELSE IF i <= k + Len(v) THEN v[i - k] ELSE u[i - Len(v)]

JoinedPlaces(u, v, k, s) ==
    /\ Len(s) \in Nat /\ Len(s) = Len(u) + Len(v)
    /\ \A i \in 1 .. Len(u) : /\ i <= k => i \in 1 .. Len(s) /\ s[i] = u[i]
                              /\ i > k => i + Len(v) \in 1 .. Len(s) /\ s[i + Len(v)] = u[i]
    /\ \A i \in 1 .. Len(v) : i + k \in 1 .. Len(s) /\ s[i + k] = v[i]
    /\ \A i \in 1 .. Len(s) :
          /\ i <= k => i \in 1 .. Len(u) /\ s[i] = u[i]
          /\ i > k /\ i <= k + Len(v) => i - k \in 1 .. Len(v) /\ s[i] = v[i - k]
          /\ i > k + Len(v) => /\ i - Len(v) \in 1 .. Len(u) /\ i - Len(v) > k
                              /\ s[i] = u[i - Len(v)]

LEMMA JoinedSequence ==
    ASSUME NEW u \in Seq(Entries), NEW v \in Seq(Entries), NEW k \in 0 .. Len(u),
           NEW s \in Seq(Entries), Joined(u, v, k, s)
    PROVE  JoinedPlaces(u, v, k, s)
<1>1. /\ Len(u) \in Nat /\ Len(v) \in Nat /\ Len(s) \in Nat /\ k \in Nat
      /\ Len(s) = Len(u) + Len(v)
      /\ \A i \in 1 .. Len(s) :
            s[i] = IF i <= k THEN u[i] ELSE IF i <= k + Len(v) THEN v[i - k] ELSE u[i - Len(v)]
  BY LenProperties DEF Joined
<1>2. ASSUME NEW i \in 1 .. Len(u), i <= k PROVE i \in 1 .. Len(s) /\ s[i] = u[i]
  BY <1>1, <1>2
<1>3. ASSUME NEW i \in 1 .. Len(u), i > k
      PROVE  i + Len(v) \in 1 .. Len(s) /\ s[i + Len(v)] = u[i]
  <2>1. /\ i + Len(v) \in 1 .. Len(s) /\ ~(i + Len(v) <= k) /\ ~(i + Len(v) <= k + Len(v))
        /\ (i + Len(v)) - Len(v) = i
    BY <1>1, <1>3
  <2>2. s[i + Len(v)] = u[(i + Len(v)) - Len(v)]
    BY <1>1, <2>1
  <2> QED
    BY <2>1, <2>2
<1>4. ASSUME NEW i \in 1 .. Len(v) PROVE i + k \in 1 .. Len(s) /\ s[i + k] = v[i]
  BY <1>1
<1>5. ASSUME NEW i \in 1 .. Len(s)
      PROVE  /\ i <= k => i \in 1 .. Len(u) /\ s[i] = u[i]
             /\ i > k /\ i <= k + Len(v) => i - k \in 1 .. Len(v) /\ s[i] = v[i - k]
             /\ i > k + Len(v) => /\ i - Len(v) \in 1 .. Len(u) /\ i - Len(v) > k
                                 /\ s[i] = u[i - Len(v)]
  BY <1>1
<1> QED
  BY <1>1, <1>2, <1>3, <1>4, <1>5 DEF JoinedPlaces

(* The ring of g, which is not empty, is put between two nodes of the ring *)
(* of h.                                                                   *)
LEMMA JoinRepresents ==
    ASSUME NEW m, NEW q, Represents(m, q), NEW g \in Heads, NEW h \in Heads, g # h,
           Len(q[g]) # 0, NEW k \in 0 .. Len(q[h]),
           NEW s \in Seq(Entries), Joined(q[h], q[g], k, s)
    PROVE  Represents(INIT_LIST_HEAD(list_join(m, g, Node(q, h, k), Node(q, h, k + 1)), g),
                      [q EXCEPT ![g] = <<>>, ![h] = s])
<1> DEFINE n == Len(q[g])
           a == Node(q, h, k)
           b == Node(q, h, k + 1)
           first == Node(q, g, 1)
           last == Node(q, g, n)
           m2 == INIT_LIST_HEAD(list_join(m, g, a, b), g)
           r == [q EXCEPT ![g] = <<>>, ![h] = s]
<1>n. n = Len(q[g])
  OBVIOUS
<1> HIDE DEF n
<1>1. /\ m \in Memories /\ q \in Arrangements /\ Distinct(q)
      /\ \A f \in Heads : Ring(m, q, f)
      /\ \A x \in Entries : Free(q, x) => LooseEntry(m, x)
  BY DEF Represents
<1>2. /\ Len(q[h]) \in Nat /\ k \in 0 .. Len(q[h]) + 1 /\ k + 1 \in 0 .. Len(q[h]) + 1
      /\ n \in Nat \ {0} /\ 0 \in 0 .. n /\ n \in 0 .. n /\ 1 \in 0 .. n + 1 /\ n \in 0 .. n + 1
      /\ 0 \in 0 .. n + 1 /\ n + 1 \in 0 .. n + 1 /\ 1 \in 1 .. n /\ n \in 1 .. n /\ 0 + 1 = 1
      /\ k \in Nat /\ n \in Nat
  BY <1>1, <1>n, SeqFacts
<1>0. /\ Len(s) \in Nat /\ Len(s) = Len(q[h]) + n
      /\ \A i \in 1 .. Len(q[h]) : /\ i <= k => i \in 1 .. Len(s) /\ s[i] = q[h][i]
                                   /\ i > k => i + n \in 1 .. Len(s) /\ s[i + n] = q[h][i]
      /\ \A i \in 1 .. n : i + k \in 1 .. Len(s) /\ s[i + k] = q[g][i]
      /\ \A i \in 1 .. Len(s) :
           /\ i <= k => i \in 1 .. Len(q[h]) /\ s[i] = q[h][i]
           /\ i > k /\ i <= k + n => i - k \in 1 .. n /\ s[i] = q[g][i - k]
           /\ i > k + n => i - n \in 1 .. Len(q[h]) /\ i - n > k /\ s[i] = q[h][i - n]
  <2>1. q[h] \in Seq(Entries) /\ q[g] \in Seq(Entries)
    BY <1>1, SeqFacts
  <2>2. JoinedPlaces(q[h], q[g], k, s)
    BY <2>1, JoinedSequence
  <2> QED
    BY <1>n, <2>2 DEF JoinedPlaces
<1>3. /\ a \in Nodes /\ b \in Nodes /\ first \in Nodes /\ last \in Nodes /\ g \in Nodes
      /\ Node(q, g, 0) = g /\ Node(q, g, n + 1) = g /\ first # g /\ last # g
  BY <1>1, <1>2, <1>n, NodeFacts DEF Nodes
<1>4. ASSUME NEW f \in Heads, NEW i \in 0 .. Len(q[f])
      PROVE  /\ Node(q, f, i) \in Nodes /\ Node(q, f, i + 1) \in Nodes
             /\ m.next[Node(q, f, i)] = Node(q, f, i + 1)
             /\ m.prev[Node(q, f, i + 1)] = Node(q, f, i)
             /\ Node(q, f, i) = a => f = h /\ i = k
             /\ Node(q, f, i + 1) = b => f = h /\ i = k
             /\ Node(q, f, i) = g => f = g /\ i = 0
             /\ Node(q, f, i + 1) = first => f = g /\ i = 0
             /\ Node(q, f, i) = last => f = g /\ i = n
             /\ Node(q, f, i + 1) = g => f = g /\ i = n
  <2>1. Len(q[f]) \in Nat /\ i \in 0 .. Len(q[f]) + 1 /\ i + 1 \in 0 .. Len(q[f]) + 1
    BY <1>1, SeqFacts
  <2>2. Node(q, f, i) \in Nodes /\ Node(q, f, i + 1) \in Nodes
    BY <1>1, <2>1, NodeFacts
  <2>3. /\ m.next[Node(q, f, i)] = Node(q, f, i + 1)
        /\ m.prev[Node(q, f, i + 1)] = Node(q, f, i)
    BY <1>1 DEF Ring
  <2>4. /\ Node(q, f, i) = Node(q, h, k) => f = h /\ i = k
        /\ Node(q, f, i + 1) = Node(q, h, k + 1) => f = h /\ i = k
    BY <1>1, NodesDiffer
  <2>5. ASSUME NEW j \in 0 .. n
        PROVE  /\ Node(q, f, i) = Node(q, g, j) => f = g /\ i = j
               /\ Node(q, f, i + 1) = Node(q, g, j + 1) => f = g /\ i = j
    BY <1>1, <1>n, NodesDiffer
  <2>6. /\ Node(q, f, i) = Node(q, g, 0) => f = g /\ i = 0
        /\ Node(q, f, i + 1) = Node(q, g, 0 + 1) => f = g /\ i = 0
        /\ Node(q, f, i) = Node(q, g, n) => f = g /\ i = n
        /\ Node(q, f, i + 1) = Node(q, g, n + 1) => f = g /\ i = n
    BY <1>2, <2>5
  <2> QED
    BY <1>2, <1>3, <2>2, <2>3, <2>4, <2>6
<1>5. m.next[g] = first /\ m.prev[g] = last
  <2>1. m.next[Node(q, g, 0)] = Node(q, g, 0 + 1) /\ m.prev[Node(q, g, n + 1)] = Node(q, g, n)
    BY <1>2, <1>n, <1>4
  <2> QED
    BY <1>2, <1>3, <2>1
<1>6. a # last /\ a # g /\ b # first /\ b # g
  BY <1>2, <1>n, <1>4
<1>7. /\ m2 \in Memories
      /\ \A x \in Nodes :
           /\ m2.next[x] = IF x = g THEN g ELSE IF x = last THEN b ELSE IF x = a THEN first
                           ELSE m.next[x]
           /\ m2.prev[x] = IF x = g THEN g ELSE IF x = b THEN last ELSE IF x = first THEN a
                           ELSE m.prev[x]
  BY <1>1, <1>3, <1>5, <1>6 DEF list_join, INIT_LIST_HEAD, Memories
<1>8. /\ r \in Arrangements /\ r[h] = s /\ r[g] = <<>> /\ Len(r[g]) = 0
      /\ \A f \in Heads \ {g, h} : r[f] = q[f] /\ \A i : Node(r, f, i) = Node(q, f, i)
  <2>1. r \in Arrangements /\ r[h] = s /\ r[g] = <<>> /\ Len(r[g]) = 0
    BY <1>1, EmptySeq DEF Arrangements
  <2>2. \A f \in Heads \ {g, h} : r[f] = q[f]
    BY <1>1 DEF Arrangements
  <2> HIDE DEF r
  <2> QED
    BY <2>1, <2>2 DEF Node
<1>9. \A i \in 0 .. Len(s) + 1 :
         Node(r, h, i) = IF i <= k THEN Node(q, h, i)
                         ELSE IF i <= k + n THEN Node(q, g, i - k) ELSE Node(q, h, i - n)
  <2> HIDE DEF r
  <2> SUFFICES ASSUME NEW i \in 0 .. Len(s) + 1
               PROVE  Node(r, h, i) = IF i <= k THEN Node(q, h, i)
                                      ELSE IF i <= k + n THEN Node(q, g, i - k)
                                      ELSE Node(q, h, i - n)
    OBVIOUS
  <2>1. CASE i = 0
    BY <1>2, <1>0, <1>8, <2>1 DEF Node
  <2>2. CASE i = Len(s) + 1
    <3>1. i - n = Len(q[h]) + 1 /\ ~(i <= k) /\ ~(i <= k + n)
      BY <1>2, <1>0, <2>2, SMTT(30)
    <3> QED
      BY <1>2, <1>0, <1>8, <2>2, <3>1 DEF Node
  <2>3. CASE i \in 1 .. Len(s)
    <3>1. Node(r, h, i) = s[i]
      BY <1>8, <2>3 DEF Node
    <3>2. CASE i <= k
      BY <1>0, <2>3, <3>1, <3>2 DEF Node
    <3>3. CASE i > k /\ i <= k + n
      <4>1. Node(q, g, i - k) = q[g][i - k]
        BY <1>0, <1>n, <2>3, <3>3 DEF Node
      <4> QED
        BY <1>0, <1>2, <2>3, <3>1, <3>3, <4>1
    <3>4. CASE i > k + n
      <4>1. Node(q, h, i - n) = q[h][i - n]
        BY <1>0, <2>3, <3>4 DEF Node
      <4> QED
        BY <1>0, <1>2, <2>3, <3>1, <3>4, <4>1
    <3> QED
      BY <1>0, <1>2, <2>3, <3>2, <3>3, <3>4
  <2> QED
    <3>1. Len(s) \in Nat
      BY <1>0
    <3>2. i = 0 \/ i = Len(s) + 1 \/ i \in 1 .. Len(s)
      BY <3>1
    <3> QED
      BY <2>1, <2>2, <2>3, <3>2, Zenon
<1> HIDE DEF m2, r, a, b, first, last
<1>10. ASSUME NEW f \in Heads, NEW i \in 0 .. Len(q[f]), ~(f = h /\ i = k),
              ~(f = g /\ i = 0), ~(f = g /\ i = n)
       PROVE  /\ m2.next[Node(q, f, i)] = Node(q, f, i + 1)
              /\ m2.prev[Node(q, f, i + 1)] = Node(q, f, i)
  <2>1. /\ Node(q, f, i) \in Nodes /\ Node(q, f, i + 1) \in Nodes
        /\ m.next[Node(q, f, i)] = Node(q, f, i + 1)
        /\ m.prev[Node(q, f, i + 1)] = Node(q, f, i)
    BY <1>4, Zenon
  <2>2. /\ Node(q, f, i) # a /\ Node(q, f, i + 1) # b /\ Node(q, f, i) # g
        /\ Node(q, f, i + 1) # first /\ Node(q, f, i) # last /\ Node(q, f, i + 1) # g
    BY <1>4, <1>10, Zenon
  <2> QED
    BY <1>7, <2>1, <2>2, Zenon
<1>11. Ring(m2, r, h)
  <2> SUFFICES ASSUME NEW i \in 0 .. Len(s)
               PROVE  /\ m2.next[Node(r, h, i)] = Node(r, h, i + 1)
                      /\ m2.prev[Node(r, h, i + 1)] = Node(r, h, i)
    BY <1>8 DEF Ring
  <2>0. i \in 0 .. Len(s) + 1 /\ i + 1 \in 0 .. Len(s) + 1
    BY <1>2, <1>0
  <2>1. CASE i < k
    <3>1. i \in 0 .. Len(q[h]) /\ i # k /\ i <= k /\ i + 1 <= k
      BY <1>2, <2>1
    <3>2. Node(r, h, i) = Node(q, h, i) /\ Node(r, h, i + 1) = Node(q, h, i + 1)
      BY <1>9, <2>0, <3>1
    <3> QED
      BY <1>10, <3>1, <3>2
  <2>2. CASE i = k
    <3>1. ~(i + 1 <= k) /\ i + 1 <= k + n /\ (i + 1) - k = 1 /\ i <= k
      BY <1>2, <2>2
    <3>2. Node(r, h, i) = a /\ Node(r, h, i + 1) = first
      BY <1>9, <2>0, <2>2, <3>1 DEF a, first
    <3> QED
      BY <1>3, <1>6, <1>7, <3>2
  <2>3. CASE k < i /\ i < k + n
    <3>1. /\ i - k \in 0 .. n /\ i - k # 0 /\ i - k # n /\ (i + 1) - k = (i - k) + 1
          /\ ~(i <= k) /\ ~(i + 1 <= k) /\ i <= k + n /\ i + 1 <= k + n
      BY <1>2, <2>3
    <3>2. Node(r, h, i) = Node(q, g, i - k) /\ Node(r, h, i + 1) = Node(q, g, (i - k) + 1)
      BY <1>9, <2>0, <3>1
    <3> QED
      BY <1>n, <1>10, <3>1, <3>2
  <2>4. CASE i = k + n
    <3>1. ~(i <= k) /\ ~(i + 1 <= k + n) /\ i - k = n /\ (i + 1) - n = k + 1
          /\ ~(i + 1 <= k) /\ i <= k + n
      BY <1>2, <2>4
    <3>2. Node(r, h, i) = last /\ Node(r, h, i + 1) = b
      BY <1>9, <2>0, <3>1 DEF last, b
    <3> QED
      BY <1>3, <1>6, <1>7, <3>2
  <2>5. CASE i > k + n
    <3>1. /\ i - n \in 0 .. Len(q[h]) /\ i - n # k /\ (i + 1) - n = (i - n) + 1
          /\ ~(i <= k + n) /\ ~(i + 1 <= k + n) /\ ~(i <= k) /\ ~(i + 1 <= k)
      BY <1>2, <1>0, <2>5
    <3>2. Node(r, h, i) = Node(q, h, i - n) /\ Node(r, h, i + 1) = Node(q, h, (i - n) + 1)
      BY <1>9, <2>0, <3>1
    <3> QED
      BY <1>10, <3>1, <3>2
  <2> QED
    BY <1>2, <1>0, <2>1, <2>2, <2>3, <2>4, <2>5
<1>12. \A f \in Heads : Ring(m2, r, f)
  <2>1. Ring(m2, r, g)
    <3>1. \A i : Node(r, g, i) = g
      BY <1>8 DEF Node
    <3> QED
      BY <1>3, <1>7, <3>1 DEF Ring
  <2>2. ASSUME NEW f \in Heads \ {g, h}
        PROVE  Ring(m2, r, f)
    BY <1>8, <1>10, <2>2 DEF Ring
  <2> QED
    BY <1>11, <2>1, <2>2
<1>13. Distinct(r)
  <2>1. PICK list, place : Located(q, list, place)
    BY <1>1, DistinctIsLocated
  <2> DEFINE list2 == [x \in Entries |-> IF list[x] = g THEN h ELSE list[x]]
             place2 == [x \in Entries |->
                           IF list[x] = g THEN place[x] + k
                           ELSE IF list[x] = h /\ place[x] > k THEN place[x] + n ELSE place[x]]
  <2>2. ASSUME NEW f \in Heads, NEW i \in 1 .. Len(r[f])
        PROVE  list2[r[f][i]] = f /\ place2[r[f][i]] = i
    <3>1. r[f][i] \in Entries
      BY <1>8, SeqFacts
    <3>2. CASE f = h /\ i <= k
      <4>1. i \in 1 .. Len(q[h]) /\ r[f][i] = q[h][i] /\ ~(i > k)
        BY <1>0, <1>8, <3>2
      <4> QED
        BY <2>1, <3>1, <3>2, <4>1 DEF Located
    <3>3. CASE f = h /\ i > k /\ i <= k + n
      <4>1. i - k \in 1 .. n /\ r[f][i] = q[g][i - k] /\ (i - k) + k = i
        BY <1>0, <1>8, <3>3
      <4>2. list[r[f][i]] = g /\ place[r[f][i]] = i - k
        BY <1>n, <2>1, <4>1 DEF Located
      <4> QED
        BY <3>1, <3>3, <4>1, <4>2
    <3>4. CASE f = h /\ i > k + n
      <4>1. i - n \in 1 .. Len(q[h]) /\ r[f][i] = q[h][i - n] /\ (i - n) + n = i /\ i - n > k
        <5>1. r[f] = s /\ i \in 1 .. Len(s) /\ i > k + n
          BY <1>8, <3>4
        <5>2. i - n \in 1 .. Len(q[h]) /\ s[i] = q[h][i - n] /\ i - n > k
          BY <1>0, <5>1, Zenon
        <5>3. n \in Nat /\ i \in Int
          BY <1>2
        <5>4. (i - n) + n = i
          BY <5>3
        <5> QED
          BY <5>1, <5>2, <5>4, Zenon
      <4>2. list[r[f][i]] = h /\ place[r[f][i]] = i - n
        BY <1>n, <2>1, <4>1 DEF Located
      <4> QED
        BY <3>1, <3>4, <4>1, <4>2
    <3>5. CASE f \notin {g, h}
      <4>1. i \in 1 .. Len(q[f]) /\ r[f][i] = q[f][i]
        BY <1>8, <3>5
      <4> QED
        BY <2>1, <3>1, <3>5, <4>1 DEF Located
    <3>6. f # g
      BY <1>8
    <3> QED
      BY <1>2, <1>8, <3>2, <3>3, <3>4, <3>5, <3>6
  <2> HIDE DEF list2, place2
  <2>3. Located(r, list2, place2)
    BY <2>2 DEF Located
  <2> QED
    BY <2>3, LocatedIsDistinct
<1>14. ASSUME NEW x \in Entries, Free(r, x)
       PROVE  LooseEntry(m2, x)
  <2>0. \A i \in 1 .. Len(s) : s[i] # x
    BY <1>8, <1>14 DEF Free
  <2>1. ASSUME NEW i \in 1 .. Len(q[h]) PROVE q[h][i] # x
    <3>1. CASE i <= k
      <4>1. i \in 1 .. Len(s) /\ s[i] = q[h][i]
        BY <1>0, <3>1
      <4> QED
        BY <2>0, <4>1
    <3>2. CASE i > k
      <4>1. i + n \in 1 .. Len(s) /\ s[i + n] = q[h][i]
        BY <1>0, <3>2
      <4> QED
        BY <2>0, <4>1
    <3> QED
      BY <1>2, <3>1, <3>2
  <2>2. ASSUME NEW i \in 1 .. Len(q[g]) PROVE q[g][i] # x
    <3>1. i + k \in 1 .. Len(s) /\ s[i + k] = q[g][i]
      BY <1>0, <1>n
    <3> QED
      BY <2>0, <3>1
  <2>3. Free(q, x)
    BY <1>8, <1>14, <2>1, <2>2 DEF Free
  <2>4. x # a /\ x # b /\ x # first /\ x # last /\ x \in Nodes /\ x # g
    BY <1>1, <1>2, <2>3, FreeIsOffTheRings, NodesAssumption, <1>n DEF Nodes, a, b, first, last
  <2> QED
    BY <1>1, <1>7, <2>3, <2>4 DEF LooseEntry
<1> QED
  BY <1>7, <1>8, <1>12, <1>13, <1>14 DEF Represents, m2, r, a, b

(* The first k entries of h, from the head of g.                           *)
LEMMA CutRepresents ==
    ASSUME NEW m, NEW q, Represents(m, q), NEW g \in Heads, NEW h \in Heads, g # h,
           Len(q[g]) = 0, NEW k \in 1 .. Len(q[h])
    PROVE  Represents(list_cut(m, g, h, q[h][k]),
                      [q EXCEPT ![g] = SubSeq(q[h], 1, k),
                                ![h] = SubSeq(q[h], k + 1, Len(q[h]))])
<1> DEFINE n == Len(q[h])
           s == SubSeq(q[h], 1, k)
           t == SubSeq(q[h], k + 1, Len(q[h]))
           first == Node(q, h, 1)
           e == Node(q, h, k)
           b == Node(q, h, k + 1)
           m2 == list_cut(m, g, h, e)
           r == [q EXCEPT ![g] = s, ![h] = t]
<1>n. n = Len(q[h])
  OBVIOUS
<1> HIDE DEF n
<1>1. /\ m \in Memories /\ q \in Arrangements /\ Distinct(q)
      /\ \A f \in Heads : Ring(m, q, f)
      /\ \A x \in Entries : Free(q, x) => LooseEntry(m, x)
  BY DEF Represents
<1>2. /\ n \in Nat /\ k \in 0 .. n + 1 /\ k + 1 \in 0 .. n + 1 /\ k \in 0 .. n /\ k \in 1 .. n
      /\ 0 \in 0 .. n /\ n \in 0 .. n /\ 1 \in 0 .. n + 1 /\ 0 \in 0 .. n + 1
      /\ 1 \in 1 .. n /\ 0 + 1 = 1 /\ k \in Nat
  BY <1>1, <1>n, SeqFacts
<1>0. /\ s \in Seq(Entries) /\ Len(s) = k /\ \A i \in 1 .. k : s[i] = q[h][i]
      /\ t \in Seq(Entries) /\ Len(t) = n - k /\ \A i \in 1 .. n - k : t[i] = q[h][i + k]
  <2> DEFINE u == q[h]
  <2>1. u \in Seq(Entries) /\ Len(u) = n
    BY <1>1, <1>n, SeqFacts
  <2> HIDE DEF u
  <2>2. SubSeq(u, 1, k) \in Seq(Entries) /\ Len(SubSeq(u, 1, k)) = k
        /\ \A i \in 1 .. k : SubSeq(u, 1, k)[i] = u[i]
    BY <1>2, <2>1, SubSeqProperties
  <2>3. /\ SubSeq(u, k + 1, n) \in Seq(Entries) /\ Len(SubSeq(u, k + 1, n)) = n - k
        /\ \A i \in 1 .. n - k : SubSeq(u, k + 1, n)[i] = u[i + k]
    BY <1>2, <2>1, SubSeqProperties
  <2> QED
    BY <1>n, <2>2, <2>3 DEF u
<1> HIDE DEF s, t
<1>3. /\ e \in Nodes /\ b \in Nodes /\ first \in Nodes /\ g \in Nodes /\ h \in Nodes
      /\ Node(q, h, 0) = h /\ Node(q, g, 0) = g /\ Node(q, g, 1) = g /\ e = q[h][k]
  BY <1>1, <1>2, <1>n, NodeFacts DEF Nodes, Node
<1>4. ASSUME NEW f \in Heads, NEW i \in 0 .. Len(q[f])
      PROVE  /\ Node(q, f, i) \in Nodes /\ Node(q, f, i + 1) \in Nodes
             /\ m.next[Node(q, f, i)] = Node(q, f, i + 1)
             /\ m.prev[Node(q, f, i + 1)] = Node(q, f, i)
             /\ Node(q, f, i) = e => f = h /\ i = k
             /\ Node(q, f, i + 1) = b => f = h /\ i = k
             /\ Node(q, f, i) = h => f = h /\ i = 0
             /\ Node(q, f, i + 1) = first => f = h /\ i = 0
             /\ Node(q, f, i) = g => f = g /\ i = 0
             /\ Node(q, f, i + 1) = g => f = g /\ i = 0
  <2>1. Len(q[f]) \in Nat /\ i \in 0 .. Len(q[f]) + 1 /\ i + 1 \in 0 .. Len(q[f]) + 1
    BY <1>1, SeqFacts
  <2>2. Node(q, f, i) \in Nodes /\ Node(q, f, i + 1) \in Nodes
    BY <1>1, <2>1, NodeFacts
  <2>3. /\ m.next[Node(q, f, i)] = Node(q, f, i + 1)
        /\ m.prev[Node(q, f, i + 1)] = Node(q, f, i)
    BY <1>1 DEF Ring
  <2>5. ASSUME NEW j \in 0 .. n
        PROVE  /\ Node(q, f, i) = Node(q, h, j) => f = h /\ i = j
               /\ Node(q, f, i + 1) = Node(q, h, j + 1) => f = h /\ i = j
    BY <1>1, <1>n, NodesDiffer
  <2>6. /\ Node(q, f, i) = Node(q, h, 0) => f = h /\ i = 0
        /\ Node(q, f, i + 1) = Node(q, h, 0 + 1) => f = h /\ i = 0
        /\ Node(q, f, i) = Node(q, h, k) => f = h /\ i = k
        /\ Node(q, f, i + 1) = Node(q, h, k + 1) => f = h /\ i = k
    BY <1>2, <2>5
  <2>7. ASSUME NEW j \in 0 .. Len(q[g])
        PROVE  /\ Node(q, f, i) = Node(q, g, j) => f = g /\ i = j
               /\ Node(q, f, i + 1) = Node(q, g, j + 1) => f = g /\ i = j
    BY <1>1, NodesDiffer
  <2>8. /\ Node(q, f, i) = Node(q, g, 0) => f = g /\ i = 0
        /\ Node(q, f, i + 1) = Node(q, g, 0 + 1) => f = g /\ i = 0
    BY <2>7
  <2> QED
    BY <1>2, <1>3, <2>2, <2>3, <2>6, <2>8
<1>5. m.next[h] = first /\ m.next[e] = b
  <2>1. m.next[Node(q, h, 0)] = Node(q, h, 0 + 1) /\ m.next[Node(q, h, k)] = Node(q, h, k + 1)
    BY <1>2, <1>n, <1>4
  <2> QED
    BY <1>2, <1>3, <2>1
<1>6. e # h /\ e # g /\ first # g /\ b # g /\ b # first
  BY <1>2, <1>n, <1>4
<1>7. /\ m2 \in Memories
      /\ \A x \in Nodes :
           /\ m2.next[x] = IF x = h THEN b ELSE IF x = e THEN g ELSE IF x = g THEN first
                           ELSE m.next[x]
           /\ m2.prev[x] = IF x = b THEN h ELSE IF x = g THEN e ELSE IF x = first THEN g
                           ELSE m.prev[x]
  BY <1>1, <1>3, <1>5, <1>6 DEF list_cut, Memories
<1>8. /\ r \in Arrangements /\ r[h] = t /\ r[g] = s
      /\ \A f \in Heads \ {g, h} : r[f] = q[f] /\ \A i : Node(r, f, i) = Node(q, f, i)
  <2>1. r \in Arrangements /\ r[h] = t /\ r[g] = s
    BY <1>0, <1>1 DEF Arrangements
  <2>2. \A f \in Heads \ {g, h} : r[f] = q[f]
    BY <1>1 DEF Arrangements
  <2> HIDE DEF r
  <2> QED
    BY <2>1, <2>2 DEF Node
<1>9. /\ \A i \in 0 .. k : i # 0 => Node(r, g, i) = Node(q, h, i)
      /\ Node(r, g, 0) = g /\ Node(r, g, k + 1) = g
  <2> HIDE DEF r
  <2> QED
    BY <1>0, <1>2, <1>8, <1>n DEF Node
<1>10. /\ \A i \in 1 .. (n - k) + 1 : Node(r, h, i) = Node(q, h, i + k)
       /\ Node(r, h, 0) = h /\ Node(r, h, 1) = b
  <2> HIDE DEF r
  <2>1. \A i \in 1 .. n - k : i + k \in 1 .. n
    BY <1>2
  <2>2. (n - k) + 1 \notin 1 .. n - k /\ ((n - k) + 1) + k \notin 1 .. n
    BY <1>2
  <2>3. \A i \in 1 .. (n - k) + 1 : Node(r, h, i) = Node(q, h, i + k)
    <3> SUFFICES ASSUME NEW i \in 1 .. (n - k) + 1
                 PROVE  Node(r, h, i) = Node(q, h, i + k)
      OBVIOUS
    <3>1. i \in 1 .. n - k \/ i = (n - k) + 1
      BY <1>2
    <3> QED
      BY <1>0, <1>8, <1>n, <2>1, <2>2, <3>1 DEF Node
  <2>4. Node(r, h, 0) = h
    BY <1>0, <1>8 DEF Node
  <2>5. 1 \in 1 .. (n - k) + 1 /\ 1 + k = k + 1
    BY <1>2
  <2> QED
    BY <2>3, <2>4, <2>5
<1> HIDE DEF m2, r, e, b, first
<1>11. ASSUME NEW f \in Heads, NEW i \in 0 .. Len(q[f]), ~(f = h /\ i = k),
              ~(f = g /\ i = 0), ~(f = h /\ i = 0)
       PROVE  /\ m2.next[Node(q, f, i)] = Node(q, f, i + 1)
              /\ m2.prev[Node(q, f, i + 1)] = Node(q, f, i)
  BY <1>4, <1>7, <1>11
<1>12. Ring(m2, r, g)
  <2> SUFFICES ASSUME NEW i \in 0 .. k
               PROVE  /\ m2.next[Node(r, g, i)] = Node(r, g, i + 1)
                      /\ m2.prev[Node(r, g, i + 1)] = Node(r, g, i)
    BY <1>0, <1>8 DEF Ring
  <2>1. CASE i = 0
    <3>1. Node(r, g, i) = g /\ Node(r, g, i + 1) = first
      BY <1>2, <1>9, <2>1 DEF first
    <3>2. m2.next[g] = first
      BY <1>3, <1>6, <1>7
    <3>3. m2.prev[first] = g
      BY <1>3, <1>6, <1>7
    <3> QED
      BY <3>1, <3>2, <3>3
  <2>2. CASE i = k
    <3>1. Node(r, g, i) = e /\ Node(r, g, i + 1) = g
      BY <1>2, <1>9, <2>2 DEF e
    <3> QED
      BY <1>3, <1>6, <1>7, <3>1
  <2>3. CASE i # 0 /\ i # k
    <3>1. i + 1 \in 0 .. k /\ i + 1 # 0 /\ i \in 0 .. Len(q[h])
      BY <1>2, <1>n, <2>3
    <3>2. Node(r, g, i) = Node(q, h, i) /\ Node(r, g, i + 1) = Node(q, h, i + 1)
      BY <1>9, <2>3, <3>1
    <3> QED
      BY <1>11, <2>3, <3>1, <3>2
  <2> QED
    BY <2>1, <2>2, <2>3
<1>13. Ring(m2, r, h)
  <2> SUFFICES ASSUME NEW i \in 0 .. n - k
               PROVE  /\ m2.next[Node(r, h, i)] = Node(r, h, i + 1)
                      /\ m2.prev[Node(r, h, i + 1)] = Node(r, h, i)
    BY <1>0, <1>8 DEF Ring
  <2>1. CASE i = 0
    <3>1. Node(r, h, i) = h /\ Node(r, h, i + 1) = b
      BY <1>10, <2>1
    <3> QED
      BY <1>3, <1>6, <1>7, <3>1
  <2>2. CASE i # 0
    <3>1. /\ i \in 1 .. (n - k) + 1 /\ i + 1 \in 1 .. (n - k) + 1
          /\ i + k \in 0 .. Len(q[h]) /\ i + k # 0 /\ i + k # k /\ (i + 1) + k = (i + k) + 1
      BY <1>2, <1>n, <2>2
    <3>2. Node(r, h, i) = Node(q, h, i + k) /\ Node(r, h, i + 1) = Node(q, h, (i + k) + 1)
      BY <1>10, <3>1
    <3> QED
      BY <1>11, <3>1, <3>2
  <2> QED
    BY <2>1, <2>2
<1>14. \A f \in Heads : Ring(m2, r, f)
  <2>1. ASSUME NEW f \in Heads \ {g, h}
        PROVE  Ring(m2, r, f)
    BY <1>8, <1>11, <2>1 DEF Ring
  <2> QED
    BY <1>12, <1>13, <2>1
<1>15. Distinct(r)
  <2>1. PICK list, place : Located(q, list, place)
    BY <1>1, DistinctIsLocated
  <2> DEFINE list2 == [x \in Entries |-> IF list[x] = h /\ place[x] <= k THEN g ELSE list[x]]
             place2 == [x \in Entries |-> IF list[x] = h /\ place[x] > k THEN place[x] - k
                                          ELSE place[x]]
  <2>2. ASSUME NEW f \in Heads, NEW i \in 1 .. Len(r[f])
        PROVE  list2[r[f][i]] = f /\ place2[r[f][i]] = i
    <3>1. r[f][i] \in Entries
      BY <1>8, SeqFacts
    <3>2. CASE f = g
      <4>1. i \in 1 .. Len(q[h]) /\ r[f][i] = q[h][i] /\ i <= k /\ ~(i > k)
        BY <1>0, <1>2, <1>8, <1>n, <3>2
      <4>2. list[r[f][i]] = h /\ place[r[f][i]] = i
        BY <2>1, <4>1 DEF Located
      <4> QED
        BY <3>1, <3>2, <4>1, <4>2
    <3>3. CASE f = h
      <4>1. /\ i + k \in 1 .. Len(q[h]) /\ r[f][i] = q[h][i + k] /\ (i + k) - k = i /\ i + k > k
            /\ ~(i + k <= k)
        BY <1>0, <1>2, <1>8, <1>n, <3>3
      <4>2. list[r[f][i]] = h /\ place[r[f][i]] = i + k
        BY <2>1, <4>1 DEF Located
      <4> QED
        BY <3>1, <3>3, <4>1, <4>2
    <3>4. CASE f \notin {g, h}
      <4>1. i \in 1 .. Len(q[f]) /\ r[f][i] = q[f][i]
        BY <1>8, <3>4
      <4> QED
        BY <2>1, <3>1, <3>4, <4>1 DEF Located
    <3> QED
      BY <3>2, <3>3, <3>4
  <2> HIDE DEF list2, place2
  <2>3. Located(r, list2, place2)
    BY <2>2 DEF Located
  <2> QED
    BY <2>3, LocatedIsDistinct
<1>16. ASSUME NEW x \in Entries, Free(r, x)
       PROVE  LooseEntry(m2, x)
  <2>1. ASSUME NEW i \in 1 .. Len(q[h]) PROVE q[h][i] # x
    <3>1. CASE i <= k
      <4>1. i \in 1 .. Len(r[g]) /\ r[g][i] = q[h][i]
        BY <1>0, <1>2, <1>8, <1>n, <3>1
      <4> QED
        BY <1>16, <4>1 DEF Free
    <3>2. CASE i > k
      <4>1. i - k \in 1 .. Len(r[h]) /\ r[h][i - k] = q[h][i]
        <5>1. i - k \in 1 .. n - k /\ (i - k) + k = i
          BY <1>2, <1>n, <3>2
        <5> QED
          BY <1>0, <1>8, <5>1
      <4> QED
        BY <1>16, <4>1 DEF Free
    <3> QED
      BY <1>2, <1>n, <3>1, <3>2
  <2>2. \A i \in 1 .. Len(q[g]) : FALSE
    OBVIOUS
  <2>3. Free(q, x)
    BY <1>8, <1>16, <2>1, <2>2 DEF Free
  <2>4. x # e /\ x # b /\ x # first /\ x \in Nodes /\ x # g /\ x # h
    BY <1>1, <1>2, <1>n, <2>3, FreeIsOffTheRings, NodesAssumption DEF Nodes, e, b, first
  <2> QED
    BY <1>1, <1>7, <2>3, <2>4 DEF LooseEntry
<1>17. Represents(m2, r)
  BY <1>7, <1>8, <1>14, <1>15, <1>16 DEF Represents
<1> QED
  BY <1>3, <1>17 DEF m2, r, s, t

-----------------------------------------------------------------------------
(* The sequences are the ones that Listed reads off the pointers.          *)

LEMMA LeastNat ==
    ASSUME NEW T \in SUBSET Nat, T # {}
    PROVE  \E x \in T : \A y \in T : x <= y
<1>1. IsWellFoundedOn(OpToRel(<, Nat), Nat)
  BY NatLessThanWellFounded, Zenon
<1>2. PICK x \in T : \A y \in T : ~ (<<y, x>> \in OpToRel(<, Nat))
  BY <1>1, WFMin, Zenon
<1>3. \A y \in T : ~ (y < x)
  BY <1>2, Zenon DEF OpToRel
<1> QED
  BY <1>3

LEMMA StepsAreNodes ==
    ASSUME NEW m, NEW q, Represents(m, q), NEW h \in Heads, NEW k \in 0 .. Len(q[h]) + 1
    PROVE  StepsFrom(m, h, k) = Node(q, h, k)
<1> DEFINE Steps(f) == f = [j \in 0 .. k |-> IF j = 0 THEN h
                                            ELSE IF f[j - 1] \in Nodes THEN m.next[f[j - 1]]
                                            ELSE Poison]
           at == CHOOSE f : Steps(f)
           F == [j \in 0 .. k |-> Node(q, h, j)]
<1>1. /\ q \in Arrangements /\ Ring(m, q, h) /\ Len(q[h]) \in Nat /\ k \in Nat
      /\ Node(q, h, 0) = h /\ \A i \in 0 .. Len(q[h]) + 1 : Node(q, h, i) \in Nodes
  BY SeqFacts, NodeFacts DEF Represents
<1>2. ASSUME NEW j \in 1 .. k
      PROVE  /\ j - 1 \in 0 .. k /\ j - 1 \in 0 .. Len(q[h]) /\ (j - 1) + 1 = j
             /\ Node(q, h, j - 1) \in Nodes /\ m.next[Node(q, h, j - 1)] = Node(q, h, j)
  <2>1. j - 1 \in 0 .. k /\ j - 1 \in 0 .. Len(q[h]) /\ (j - 1) + 1 = j
    BY <1>1
  <2>2. m.next[Node(q, h, j - 1)] = Node(q, h, (j - 1) + 1) /\ Node(q, h, j - 1) \in Nodes
    BY <1>1, <2>1 DEF Ring
  <2> QED
    BY <2>1, <2>2
<1>3. Steps(F)
  <2>1. ASSUME NEW j \in 0 .. k
        PROVE  F[j] = IF j = 0 THEN h
                      ELSE IF F[j - 1] \in Nodes THEN m.next[F[j - 1]] ELSE Poison
    <3>1. CASE j = 0
      BY <1>1, <3>1
    <3>2. CASE j # 0
      <4>1. j \in 1 .. k
        BY <1>1, <3>2
      <4>2. F[j - 1] = Node(q, h, j - 1) /\ F[j] = Node(q, h, j)
        BY <1>2, <4>1
      <4> HIDE DEF F
      <4> QED
        BY <1>2, <3>2, <4>1, <4>2
    <3> QED
      BY <3>1, <3>2
  <2>2. F = [j \in 0 .. k |-> F[j]]
    OBVIOUS
  <2> HIDE DEF F
  <2> QED
    BY <2>1, <2>2
<1>4. Steps(at)
  <2> HIDE DEF Steps, F
  <2> QED
    BY <1>3
<1>5. StepsFrom(m, h, k) = at[k]
  BY DEF StepsFrom
<1> HIDE DEF F
<1>6. ASSUME NEW j \in 0 .. k
      PROVE  at[j] = IF j = 0 THEN h
                     ELSE IF at[j - 1] \in Nodes THEN m.next[at[j - 1]] ELSE Poison
  <2> HIDE DEF at
  <2> QED
    BY <1>4
<1> HIDE DEF at
<1>7. \A j \in 0 .. k : at[j] = Node(q, h, j)
  <2> DEFINE Bad == {j \in 0 .. k : at[j] # Node(q, h, j)}
  <2> SUFFICES ASSUME Bad # {} PROVE FALSE
    OBVIOUS
  <2>1. Bad \in SUBSET Nat
    BY <1>1
  <2>2. PICK n \in Bad : \A y \in Bad : n <= y
    <3> HIDE DEF Bad
    <3> QED
      BY <2>1, LeastNat
  <2>3. n \in 0 .. k /\ at[n] # Node(q, h, n)
    OBVIOUS
  <2>4. n # 0
    BY <1>1, <1>6, <2>3
  <2>5. n \in 1 .. k /\ n - 1 \in 0 .. k /\ ~(n <= n - 1)
    BY <1>1, <2>3, <2>4
  <2>6. at[n - 1] = Node(q, h, n - 1)
    BY <2>2, <2>5
  <2> QED
    BY <1>2, <1>6, <2>3, <2>4, <2>5, <2>6
<1> QED
  BY <1>1, <1>5, <1>7

LEMMA ListsOfMemory ==
    ASSUME NEW m, NEW q, Represents(m, q)
    PROVE  /\ Lists(m) = q
           /\ \A h \in Heads : Listed(m, h) = q[h] /\ LengthOf(m, h) = Len(q[h])
<1>1. q \in Arrangements /\ Distinct(q)
  BY DEF Represents
<1>2. ASSUME NEW h \in Heads
      PROVE  Listed(m, h) = q[h] /\ LengthOf(m, h) = Len(q[h])
  <2> DEFINE n == Len(q[h])
             N == Cardinality(Entries)
             P(k) == /\ StepsFrom(m, h, k + 1) = h
                     /\ \A j \in 1 .. k : StepsFrom(m, h, j) # h
  <2>0. n = Len(q[h])
    OBVIOUS
  <2>1. /\ n \in Nat /\ q[h] \in Seq(Entries) /\ DOMAIN q[h] = 1 .. n
        /\ \A i \in 1 .. n : q[h][i] \in Entries
    BY <1>1, SeqFacts
  <2>2. /\ Node(q, h, n + 1) = h
        /\ \A i \in 1 .. n : Node(q, h, i) = q[h][i] /\ Node(q, h, i) # h
    BY <1>1, <2>1, NodeFacts
  <2>3. N \in Nat /\ n <= N
    <3>1. q[h] \in [1 .. n -> Entries]
      BY <2>1
    <3>2. \A i \in 1 .. n : \A j \in 1 .. n : q[h][i] = q[h][j] => i = j
      BY <1>1 DEF Distinct
    <3> HIDE DEF n
    <3>3. q[h] \in Injection(1 .. n, Entries)
      BY <3>1, <3>2 DEF Injection, IsInjective
    <3>4. IsFiniteSet(Entries) /\ N \in Nat
      BY NodesAssumption, FS_CardinalityType
    <3>5. Cardinality(1 .. n) <= N
      BY <3>3, <3>4, FS_Injection
    <3>6. Cardinality(1 .. n) = n
      BY <2>1, FS_Interval
    <3> QED
      BY <3>4, <3>5, <3>6
  <2> HIDE DEF n, N
  <2>4. \A j \in 1 .. n + 1 : StepsFrom(m, h, j) = Node(q, h, j)
    BY <2>0, <2>1, StepsAreNodes
  <2>5. P(n) /\ n \in 0 .. N
    <3>1. n + 1 \in 1 .. n + 1 /\ \A j \in 1 .. n : j \in 1 .. n + 1
      BY <2>1
    <3> QED
      BY <2>1, <2>2, <2>3, <2>4, <3>1
  <2>6. ASSUME NEW k \in 0 .. N, P(k)
        PROVE  k = n
    <3>1. CASE k < n
      <4>1. k + 1 \in 1 .. n /\ k + 1 \in 1 .. n + 1
        BY <2>1, <2>3, <3>1
      <4> QED
        BY <2>2, <2>4, <2>6, <4>1
    <3>2. CASE k > n
      <4>1. n + 1 \in 1 .. k /\ n + 1 \in 1 .. n + 1
        BY <2>1, <2>3, <3>2
      <4> QED
        BY <2>2, <2>4, <2>6, <4>1
    <3> QED
      BY <2>1, <2>3, <3>1, <3>2
  <2>7. LengthOf(m, h) = CHOOSE k \in 0 .. N : P(k)
    BY DEF LengthOf, N
  <2> HIDE DEF P
  <2>8. LengthOf(m, h) = n
    BY <2>5, <2>6, <2>7
  <2>9. Listed(m, h) = [k \in 1 .. n |-> StepsFrom(m, h, k)]
    BY <2>8 DEF Listed
  <2>10. \A k \in 1 .. n : StepsFrom(m, h, k) = q[h][k]
    <3>1. \A k \in 1 .. n : k \in 1 .. n + 1
      BY <2>1
    <3> QED
      BY <2>2, <2>4, <3>1
  <2>11. q[h] = [k \in 1 .. n |-> q[h][k]]
    BY <2>0, <2>1
  <2> QED
    BY <2>0, <2>8, <2>9, <2>10, <2>11
<1> QED
  BY <1>1, <1>2 DEF Lists, Arrangements

(* Which node an entry is followed by tells whether it is on a ring.       *)
LEMMA OnARing ==
    ASSUME NEW m, NEW q, Represents(m, q), NEW h \in Heads
    PROVE  /\ m.next[h] = Node(q, h, 1) /\ m.prev[h] = Node(q, h, Len(q[h]))
           /\ list_empty(m, h) <=> q[h] = <<>>
           /\ EntriesOf(m, h) = {q[h][i] : i \in 1 .. Len(q[h])}
           /\ \A i \in 1 .. Len(q[h]) : /\ m.next[q[h][i]] = Node(q, h, i + 1)
                                        /\ m.next[q[h][i]] # q[h][i]
                                        /\ m.next[q[h][i]] # Poison
<1>1. /\ q \in Arrangements /\ Distinct(q) /\ Ring(m, q, h) /\ Len(q[h]) \in Nat
      /\ q[h] \in Seq(Entries)
  BY SeqFacts DEF Represents
<1>2. /\ 0 \in 0 .. Len(q[h]) /\ Len(q[h]) \in 0 .. Len(q[h]) /\ 0 + 1 = 1
      /\ Node(q, h, 0) = h /\ Node(q, h, Len(q[h]) + 1) = h
  BY <1>1, NodeFacts
<1>3. m.next[h] = Node(q, h, 1) /\ m.prev[h] = Node(q, h, Len(q[h]))
  <2>1. /\ m.next[Node(q, h, 0)] = Node(q, h, 0 + 1)
        /\ m.prev[Node(q, h, Len(q[h]) + 1)] = Node(q, h, Len(q[h]))
    BY <1>1, <1>2, Zenon DEF Ring
  <2> QED
    BY <1>2, <2>1
<1>4. list_empty(m, h) <=> q[h] = <<>>
  <2>1. CASE Len(q[h]) = 0
    <3>1. q[h] = <<>> /\ Node(q, h, 1) = h
      BY <1>1, <2>1, EmptySeq DEF Node
    <3> QED
      BY <1>3, <3>1 DEF list_empty
  <2>2. CASE Len(q[h]) # 0
    <3>1. 1 \in 1 .. Len(q[h]) /\ 1 \in 0 .. Len(q[h]) + 1
      BY <1>1, <2>2
    <3>2. Node(q, h, 1) # h
      BY <1>1, <3>1, NodeFacts
    <3>3. q[h] # <<>>
      BY <2>2
    <3> QED
      BY <1>3, <3>2, <3>3 DEF list_empty
  <2> QED
    BY <2>1, <2>2
<1>5. ASSUME NEW i \in 1 .. Len(q[h])
      PROVE  /\ m.next[q[h][i]] = Node(q, h, i + 1) /\ m.next[q[h][i]] # q[h][i]
             /\ m.next[q[h][i]] # Poison
  <2>1. /\ i \in 0 .. Len(q[h]) /\ i - 1 \in 0 .. Len(q[h]) /\ (i - 1) + 1 = i /\ i # i - 1
        /\ i + 1 \in 0 .. Len(q[h]) + 1
    BY <1>1
  <2>2. m.next[Node(q, h, i)] = Node(q, h, i + 1) /\ Node(q, h, i) = q[h][i]
    BY <1>1, <2>1 DEF Ring, Node
  <2>3. Node(q, h, i + 1) # Node(q, h, (i - 1) + 1)
    <3>1. ASSUME NEW j \in 0 .. Len(q[h])
          PROVE  Node(q, h, i + 1) = Node(q, h, j + 1) => i = j
      BY <1>1, <2>1, NodesDiffer
    <3> QED
      BY <2>1, <3>1
  <2>4. Node(q, h, i + 1) # Poison
    BY <1>1, <2>1, NodeFacts, NodesAssumption
  <2> QED
    BY <2>1, <2>2, <2>3, <2>4
<1>6. EntriesOf(m, h) = {q[h][i] : i \in 1 .. Len(q[h])}
  BY ListsOfMemory DEF EntriesOf
<1> QED
  BY <1>3, <1>4, <1>5, <1>6

-----------------------------------------------------------------------------
(* What every call does to the sequences.                                  *)

Without(q, e) == [h \in Heads |-> Q!RemoveFirst(q[h], e)]

LEMMA WithoutFree ==
    ASSUME NEW q \in Arrangements, NEW e, Free(q, e)
    PROVE  Without(q, e) = q
<1>1. \A h \in Heads : Q!RemoveFirst(q[h], e) = q[h]
  BY DEF Q!RemoveFirst, Free
<1> QED
  BY <1>1 DEF Without, Arrangements

LEMMA RemoveAtFacts ==
    ASSUME NEW s \in Seq(Entries), NEW k \in 1 .. Len(s)
    PROVE  /\ Q!RemoveAt(s, k) \in Seq(Entries)
           /\ Len(Q!RemoveAt(s, k)) = Len(s) - 1
           /\ \A j \in 1 .. Len(s) - 1 :
                 Q!RemoveAt(s, k)[j] = IF j < k THEN s[j] ELSE s[j + 1]
<1> DEFINE a == SubSeq(s, 1, k - 1)
           b == SubSeq(s, k + 1, Len(s))
<1>1. Len(s) \in Nat /\ \A j \in 1 .. Len(s) : s[j] \in Entries
  BY LenProperties, ElementOfSeq
<1>2. a \in Seq(Entries) /\ Len(a) = k - 1 /\ \A j \in 1 .. k - 1 : a[j] = s[j]
  BY <1>1, SubSeqProperties
<1>3. /\ b \in Seq(Entries) /\ Len(b) = Len(s) - k
      /\ \A j \in 1 .. Len(s) - k : b[j] = s[k + j]
  BY <1>1, SubSeqProperties
<1>4. /\ a \o b \in Seq(Entries) /\ Len(a \o b) = Len(a) + Len(b)
      /\ \A j \in 1 .. Len(a) + Len(b) :
            (a \o b)[j] = IF j <= Len(a) THEN a[j] ELSE b[j - Len(a)]
  BY <1>2, <1>3, ConcatProperties
<1>5. Q!RemoveAt(s, k) = a \o b
  BY Zenon DEF Q!RemoveAt
<1> HIDE DEF a, b
<1>6. Len(a) + Len(b) = Len(s) - 1
  BY <1>1, <1>2, <1>3
<1>7. ASSUME NEW j \in 1 .. Len(s) - 1
      PROVE  Q!RemoveAt(s, k)[j] = IF j < k THEN s[j] ELSE s[j + 1]
  <2>1. CASE j < k
    BY <2>1, <1>1, <1>2, <1>4, <1>5, <1>6
  <2>2. CASE ~(j < k)
    <3>1. j - (k - 1) \in 1 .. Len(s) - k /\ k + (j - (k - 1)) = j + 1
      BY <2>2, <1>1
    <3>2. (a \o b)[j] = b[j - (k - 1)]
      BY <2>2, <1>1, <1>2, <1>4, <1>6
    <3> QED
      BY <3>1, <3>2, <2>2, <1>3, <1>5
  <2> QED
    BY <2>1, <2>2
<1> QED
  BY <1>4, <1>5, <1>6, <1>7

LEMMA WithoutListed ==
    ASSUME NEW q \in Arrangements, Distinct(q), NEW h \in Heads, NEW k \in 1 .. Len(q[h])
    PROVE  Without(q, q[h][k]) = [q EXCEPT ![h] = Q!RemoveAt(q[h], k)]
<1> DEFINE e == q[h][k]
<1>0. Len(q[h]) \in Nat /\ k \in Nat
  BY SeqFacts
<1>1. \A g \in Heads \ {h} : Q!RemoveFirst(q[g], e) = q[g]
  <2>1. \A g \in Heads \ {h} : \A i \in 1 .. Len(q[g]) : q[g][i] # e
    BY DEF Distinct
  <2> HIDE DEF e
  <2> QED
    BY <2>1 DEF Q!RemoveFirst
<1>2. Q!RemoveFirst(q[h], e) = Q!RemoveAt(q[h], k)
  <2> DEFINE I == {i \in 1 .. Len(q[h]) : q[h][i] = e}
  <2>1. I = {k}
    BY DEF Distinct
  <2>2. Q!Min(I) = k
    <3> HIDE DEF I
    <3>1. Q!Min({k}) = k
      BY <1>0 DEF Q!Min
    <3> QED
      BY <2>1, <3>1
  <2>3. Q!SelectInSeq(q[h], LAMBDA v : v = e) = Q!Min(I)
    <3>1. I # {}
      BY <2>1
    <3> QED
      BY <3>1, Zenon DEF Q!SelectInSeq
  <2>4. \E i \in 1 .. Len(q[h]) : q[h][i] = e
    OBVIOUS
  <2> QED
    BY <2>2, <2>3, <2>4, Zenon DEF Q!RemoveFirst
<1> QED
  BY <1>1, <1>2 DEF Without, Arrangements

(* A node that is put between two others keeps nothing of its own links.   *)
LEMMA ParkedInsert ==
    ASSUME NEW m \in Memories, NEW e \in Entries, NEW a \in Nodes, NEW b \in Nodes,
           a # e, b # e, NEW v
    PROVE  list_insert(Parked(m, e, v), e, a, b) = list_insert(m, e, a, b)
<1>1. e \in Nodes
  BY DEF Nodes
<1> DEFINE n1 == [[m.next EXCEPT ![e] = v] EXCEPT ![e] = b, ![a] = e]
           n2 == [m.next EXCEPT ![e] = b, ![a] = e]
           p1 == [[m.prev EXCEPT ![e] = v] EXCEPT ![b] = e, ![e] = a]
           p2 == [m.prev EXCEPT ![b] = e, ![e] = a]
<1>2. n1 = n2
  BY <1>1 DEF Memories
<1>3. p1 = p2
  BY <1>1 DEF Memories
<1> QED
  BY <1>2, <1>3 DEF list_insert, Parked

(* list_del_entry and what becomes of the entry.                           *)
LEMMA ParkRepresents ==
    ASSUME NEW m, NEW q, Represents(m, q), NEW e \in Entries, m.next[e] # Poison,
           NEW v \in {e, Poison}
    PROVE  /\ Represents(Parked(list_del_entry(m, e), e, v), Without(q, e))
           /\ Free(Without(q, e), e)
<1>1. m \in Memories /\ q \in Arrangements /\ Distinct(q)
  BY DEF Represents
<1>2. CASE Free(q, e)
  <2>1. m.next[e] = e /\ m.prev[e] = e /\ e \in Nodes
    BY <1>2 DEF Represents, LooseEntry, Nodes
  <2>2. list_del_entry(m, e) = m
    <3>1. [m.next EXCEPT ![e] = e] = m.next /\ [m.prev EXCEPT ![e] = e] = m.prev
      BY <1>1, <2>1 DEF Memories
    <3>2. m = [next |-> m.next, prev |-> m.prev]
      BY <1>1 DEF Memories
    <3> QED
      BY <2>1, <3>1, <3>2 DEF list_del_entry, list_unlink
  <2>3. Without(q, e) = q
    BY <1>1, <1>2, WithoutFree
  <2>4. Represents(Parked(m, e, v), q)
    <3> DEFINE m2 == Parked(m, e, v)
    <3>1. /\ m2 \in Memories
          /\ \A n \in Nodes : /\ m2.next[n] = IF n = e THEN v ELSE m.next[n]
                              /\ m2.prev[n] = IF n = e THEN v ELSE m.prev[n]
      BY <1>1, <2>1 DEF Memories, Parked
    <3> HIDE DEF m2
    <3>2. ASSUME NEW h \in Heads
          PROVE  Ring(m2, q, h)
      <4> SUFFICES ASSUME NEW i \in 0 .. Len(q[h])
                   PROVE  /\ m2.next[Node(q, h, i)] = Node(q, h, i + 1)
                          /\ m2.prev[Node(q, h, i + 1)] = Node(q, h, i)
        BY DEF Ring
      <4>1. Len(q[h]) \in Nat /\ i \in 0 .. Len(q[h]) + 1 /\ i + 1 \in 0 .. Len(q[h]) + 1
        BY <1>1, SeqFacts
      <4>2. /\ Node(q, h, i) \in Nodes /\ Node(q, h, i) # e
            /\ Node(q, h, i + 1) \in Nodes /\ Node(q, h, i + 1) # e
        BY <1>1, <1>2, <4>1, NodeFacts, FreeIsOffTheRings
      <4>3. /\ m.next[Node(q, h, i)] = Node(q, h, i + 1)
            /\ m.prev[Node(q, h, i + 1)] = Node(q, h, i)
        BY DEF Represents, Ring
      <4> QED
        BY <3>1, <4>2, <4>3
    <3>3. ASSUME NEW x \in Entries, Free(q, x)
          PROVE  LooseEntry(m2, x)
      <4>1. LooseEntry(m, x) /\ x \in Nodes
        BY <3>3 DEF Represents, Nodes
      <4> QED
        BY <3>1, <4>1 DEF LooseEntry
    <3> QED
      BY <1>1, <3>1, <3>2, <3>3 DEF Represents, m2
  <2> QED
    BY <1>2, <2>2, <2>3, <2>4
<1>3. CASE ~Free(q, e)
  <2>1. PICK h \in Heads : \E k \in 1 .. Len(q[h]) : q[h][k] = e
    BY <1>3 DEF Free
  <2>2. PICK k \in 1 .. Len(q[h]) : q[h][k] = e
    BY <2>1
  <2> DEFINE s == Q!RemoveAt(q[h], k)
  <2>3. /\ s \in Seq(Entries) /\ Len(s) = Len(q[h]) - 1
        /\ \A i \in 1 .. Len(s) : s[i] = IF i < k THEN q[h][i] ELSE q[h][i + 1]
    BY <1>1, SeqFacts, RemoveAtFacts
  <2>4. Without(q, e) = [q EXCEPT ![h] = s]
    <3>1. Without(q, q[h][k]) = [q EXCEPT ![h] = s]
      BY <1>1, WithoutListed
    <3> QED
      BY <2>2, <3>1
  <2> HIDE DEF s
  <2>5. Represents(Parked(list_del_entry(m, e), e, v), [q EXCEPT ![h] = s])
    BY <2>2, <2>3, UnlinkRepresents
  <2>6. Free([q EXCEPT ![h] = s], e)
    <3>1. \A g \in Heads : \A i \in 1 .. Len(q[g]) : q[g][i] = e => g = h /\ i = k
      BY <1>1, <2>2 DEF Distinct
    <3>2. /\ [q EXCEPT ![h] = s][h] = s
          /\ \A g \in Heads \ {h} : [q EXCEPT ![h] = s][g] = q[g]
      BY <1>1 DEF Arrangements
    <3>3. \A i \in 1 .. Len(s) : s[i] # e
      <4> SUFFICES ASSUME NEW i \in 1 .. Len(s) PROVE s[i] # e
        OBVIOUS
      <4>1. Len(q[h]) \in Nat
        BY <1>1, SeqFacts
      <4>2. CASE i < k
        <5>1. i \in 1 .. Len(q[h]) /\ i # k /\ s[i] = q[h][i]
          BY <2>3, <4>1, <4>2
        <5> QED
          BY <3>1, <5>1
      <4>3. CASE i >= k
        <5>1. i + 1 \in 1 .. Len(q[h]) /\ i + 1 # k /\ s[i] = q[h][i + 1]
          BY <2>3, <4>1, <4>3
        <5> QED
          BY <3>1, <5>1
      <4> QED
        BY <2>3, <4>1, <4>2, <4>3
    <3> QED
      BY <3>1, <3>2, <3>3 DEF Free
  <2> QED
    BY <2>4, <2>5, <2>6
<1> QED
  BY <1>2, <1>3

LEMMA AddRepresents ==
    ASSUME NEW m, NEW q, Represents(m, q), NEW e \in Entries, Free(q, e), NEW h \in Heads
    PROVE  /\ Represents(list_add(m, e, h), [q EXCEPT ![h] = <<e>> \o q[h]])
           /\ Represents(list_add_tail(m, e, h), [q EXCEPT ![h] = Append(q[h], e)])
<1>1. q \in Arrangements /\ q[h] \in Seq(Entries) /\ Len(q[h]) \in Nat
  BY SeqFacts DEF Represents
<1>2. /\ m.next[h] = Node(q, h, 1) /\ m.prev[h] = Node(q, h, Len(q[h]))
      /\ h = Node(q, h, 0) /\ h = Node(q, h, Len(q[h]) + 1)
  BY <1>1, OnARing, NodeFacts
<1>3. Represents(list_add(m, e, h), [q EXCEPT ![h] = <<e>> \o q[h]])
  <2> DEFINE s == <<e>> \o q[h]
  <2>1. /\ s \in Seq(Entries) /\ Len(s) = Len(q[h]) + 1
        /\ \A i \in 1 .. Len(s) : s[i] = IF i <= 0 THEN q[h][i]
                                         ELSE IF i = 0 + 1 THEN e ELSE q[h][i - 1]
    <3>1. <<e>> \in Seq(Entries) /\ Len(<<e>>) = 1 /\ <<e>>[1] = e
      OBVIOUS
    <3>2. /\ s \in Seq(Entries) /\ Len(s) = 1 + Len(q[h])
          /\ \A i \in 1 .. 1 + Len(q[h]) : s[i] = IF i <= 1 THEN <<e>>[i] ELSE q[h][i - 1]
      BY <1>1, <3>1, ConcatProperties
    <3> HIDE DEF s
    <3> QED
      BY <1>1, <3>1, <3>2
  <2> HIDE DEF s
  <2>2. 0 \in 0 .. Len(q[h])
    BY <1>1
  <2>3. Represents(list_insert(m, e, Node(q, h, 0), Node(q, h, 0 + 1)), [q EXCEPT ![h] = s])
    BY <2>1, <2>2, InsertRepresents
  <2>4. list_add(m, e, h) = list_insert(m, e, Node(q, h, 0), Node(q, h, 0 + 1))
    BY <1>2 DEF list_add
  <2> QED
    BY <2>3, <2>4 DEF s
<1>4. Represents(list_add_tail(m, e, h), [q EXCEPT ![h] = Append(q[h], e)])
  <2> DEFINE s == Append(q[h], e)
             n == Len(q[h])
  <2>1. /\ s \in Seq(Entries) /\ Len(s) = Len(q[h]) + 1
        /\ \A i \in 1 .. Len(s) : s[i] = IF i <= Len(q[h]) THEN q[h][i]
                                         ELSE IF i = Len(q[h]) + 1 THEN e ELSE q[h][i - 1]
    BY <1>1, AppendProperties
  <2> HIDE DEF s
  <2>2. Len(q[h]) \in 0 .. Len(q[h])
    BY <1>1
  <2>3. Represents(list_insert(m, e, Node(q, h, Len(q[h])), Node(q, h, Len(q[h]) + 1)),
                   [q EXCEPT ![h] = s])
    BY <2>1, <2>2, InsertRepresents
  <2>4. list_add_tail(m, e, h) = list_insert(m, e, Node(q, h, Len(q[h])), Node(q, h, Len(q[h]) + 1))
    BY <1>2 DEF list_add_tail
  <2> QED
    BY <2>3, <2>4 DEF s
<1> QED
  BY <1>3, <1>4

LEMMA MoveRepresents ==
    ASSUME NEW m, NEW q, Represents(m, q), NEW e \in Entries, m.next[e] # Poison, NEW h \in Heads
    PROVE  /\ Represents(list_move(m, e, h),
                         [Without(q, e) EXCEPT ![h] = <<e>> \o Without(q, e)[h]])
           /\ Represents(list_move_tail(m, e, h),
                         [Without(q, e) EXCEPT ![h] = Append(Without(q, e)[h], e)])
<1> DEFINE u == list_del_entry(m, e)
           p == Parked(u, e, e)
           r == Without(q, e)
<1>1. Represents(p, r) /\ Free(r, e)
  BY ParkRepresents
<1>2. m \in Memories /\ e \in Nodes /\ h \in Nodes /\ h # e
  BY NodesAssumption DEF Represents, Nodes
<1>3. u \in Memories
  <2>1. m.next[e] \in Nodes /\ m.prev[e] \in Nodes
    <3>1. CASE Free(q, e)
      BY <1>2, <3>1 DEF Represents, LooseEntry
    <3>2. CASE ~Free(q, e)
      <4>1. PICK g \in Heads : \E k \in 1 .. Len(q[g]) : q[g][k] = e
        BY <3>2 DEF Free
      <4>2. PICK k \in 1 .. Len(q[g]) : q[g][k] = e
        BY <4>1
      <4>3. q \in Arrangements /\ Len(q[g]) \in Nat /\ Ring(m, q, g)
        BY SeqFacts DEF Represents
      <4>4. /\ k - 1 \in 0 .. Len(q[g]) /\ (k - 1) + 1 = k /\ k - 1 \in 0 .. Len(q[g]) + 1
        BY <4>3
      <4>5. m.prev[Node(q, g, (k - 1) + 1)] = Node(q, g, k - 1) /\ Node(q, g, k - 1) \in Nodes
        BY <4>3, <4>4, NodeFacts DEF Ring
      <4>6. Node(q, g, k) = e
        BY <4>2 DEF Node
      <4>7. m.prev[e] \in Nodes
        BY <4>4, <4>5, <4>6
      <4> QED
        BY <1>2, <4>7 DEF Memories
    <3> QED
      BY <3>1, <3>2
  <2> QED
    BY <1>2, <2>1 DEF list_del_entry, list_unlink, Memories
<1>4. p.next[h] = u.next[h] /\ p.prev[h] = u.prev[h]
  BY <1>2, <1>3 DEF Parked, Memories
<1>5. u.next[h] \in Nodes \ {e} /\ u.prev[h] \in Nodes \ {e}
  <2> HIDE DEF p, u, r
  <2>1. /\ r \in Arrangements /\ Len(r[h]) \in Nat
        /\ p.next[h] = Node(r, h, 1) /\ p.prev[h] = Node(r, h, Len(r[h]))
    BY <1>1, OnARing, SeqFacts DEF Represents
  <2>2. 1 \in 0 .. Len(r[h]) + 1 /\ Len(r[h]) \in 0 .. Len(r[h]) + 1
    BY <2>1
  <2> QED
    BY <1>1, <1>4, <2>1, <2>2, NodeFacts, FreeIsOffTheRings
<1>6. list_move(m, e, h) = list_add(p, e, h)
  <2>1. list_insert(p, e, h, u.next[h]) = list_insert(u, e, h, u.next[h])
    BY <1>2, <1>3, <1>5, ParkedInsert
  <2> QED
    BY <1>4, <2>1 DEF list_move, list_add
<1>7. list_move_tail(m, e, h) = list_add_tail(p, e, h)
  <2>1. list_insert(p, e, u.prev[h], h) = list_insert(u, e, u.prev[h], h)
    BY <1>2, <1>3, <1>5, ParkedInsert
  <2> QED
    BY <1>4, <2>1 DEF list_move_tail, list_add_tail
<1> HIDE DEF p, r
<1>8. /\ Represents(list_add(p, e, h), [r EXCEPT ![h] = <<e>> \o r[h]])
      /\ Represents(list_add_tail(p, e, h), [r EXCEPT ![h] = Append(r[h], e)])
  BY <1>1, AddRepresents
<1> QED
  BY <1>6, <1>7, <1>8 DEF r

LEMMA RotateRepresents ==
    ASSUME NEW m, NEW q, Represents(m, q), NEW h \in Heads
    PROVE  Represents(list_rotate_left(m, h),
                      [q EXCEPT ![h] = IF q[h] = <<>> THEN q[h] ELSE Append(Tail(q[h]), Head(q[h]))])
<1>1. q \in Arrangements /\ Distinct(q) /\ q[h] \in Seq(Entries) /\ Len(q[h]) \in Nat
  BY SeqFacts DEF Represents
<1>2. CASE q[h] = <<>>
  <2>1. list_rotate_left(m, h) = m
    BY <1>2, OnARing DEF list_rotate_left
  <2>2. [q EXCEPT ![h] = q[h]] = q
    BY <1>1 DEF Arrangements
  <2> QED
    BY <1>2, <2>1, <2>2
<1>3. CASE q[h] # <<>>
  <2> DEFINE e == q[h][1]
             s == Q!RemoveAt(q[h], 1)
  <2>1. 1 \in 1 .. Len(q[h]) /\ e \in Entries
    BY <1>1, <1>3, EmptySeq, SeqFacts
  <2>2. m.next[h] = e /\ m.next[e] # Poison /\ ~list_empty(m, h)
    <3>1. m.next[h] = Node(q, h, 1) /\ ~list_empty(m, h)
      BY <1>3, OnARing
    <3> QED
      BY <2>1, <3>1, OnARing DEF Node
  <2>3. list_rotate_left(m, h) = list_move_tail(m, e, h)
    BY <2>2 DEF list_rotate_left
  <2>4. Without(q, e) = [q EXCEPT ![h] = s]
    <3>1. ASSUME NEW k \in 1 .. Len(q[h])
          PROVE  Without(q, q[h][k]) = [q EXCEPT ![h] = Q!RemoveAt(q[h], k)]
      BY <1>1, WithoutListed
    <3> QED
      BY <2>1, <3>1
  <2>5. s = Tail(q[h]) /\ e = Head(q[h])
    <3>1. /\ s \in Seq(Entries) /\ Len(s) = Len(q[h]) - 1
          /\ \A j \in 1 .. Len(q[h]) - 1 : s[j] = IF j < 1 THEN q[h][j] ELSE q[h][j + 1]
      BY <1>1, <2>1, RemoveAtFacts
    <3>2. /\ Tail(q[h]) \in Seq(Entries) /\ Len(Tail(q[h])) = Len(q[h]) - 1
          /\ \A i \in 1 .. Len(Tail(q[h])) : Tail(q[h])[i] = q[h][i + 1]
      BY <1>1, <1>3, HeadTailProperties
    <3> HIDE DEF s
    <3>3. s = Tail(q[h])
      BY <3>1, <3>2, SeqEqual
    <3> QED
      BY <1>1, <1>3, <3>3
  <2>6. Represents(list_move_tail(m, e, h),
                   [Without(q, e) EXCEPT ![h] = Append(Without(q, e)[h], e)])
    BY <2>1, <2>2, MoveRepresents
  <2> HIDE DEF e, s
  <2>7. [Without(q, e) EXCEPT ![h] = Append(Without(q, e)[h], e)] = [q EXCEPT ![h] = Append(s, e)]
    BY <1>1, <2>4 DEF Arrangements
  <2> QED
    BY <1>3, <2>3, <2>5, <2>6, <2>7
<1> QED
  BY <1>2, <1>3

(* f takes the place of e: e is taken off its ring, and f put there.       *)
LEMMA ReplaceRepresents ==
    ASSUME NEW m, NEW q, Represents(m, q), NEW h \in Heads, NEW k \in 1 .. Len(q[h]),
           NEW f \in Entries, Free(q, f)
    PROVE  Represents(list_replace_init(m, q[h][k], f), [q EXCEPT ![h] = [q[h] EXCEPT ![k] = f]])
<1> DEFINE e == q[h][k]
           s == Q!RemoveAt(q[h], k)
           t == [q[h] EXCEPT ![k] = f]
           p == Parked(list_del_entry(m, e), e, e)
           r == [q EXCEPT ![h] = s]
           a == Node(q, h, k - 1)
           b == Node(q, h, k + 1)
<1>1. /\ m \in Memories /\ q \in Arrangements /\ Distinct(q) /\ Ring(m, q, h)
      /\ q[h] \in Seq(Entries) /\ Len(q[h]) \in Nat
      /\ e \in Entries /\ e \in Nodes /\ f \in Nodes /\ f # e
  BY SeqFacts DEF Represents, Free, Nodes
<1>2. /\ k \in 0 .. Len(q[h]) /\ k - 1 \in 0 .. Len(q[h]) /\ (k - 1) + 1 = k /\ k # k - 1
      /\ k - 1 \in 0 .. Len(q[h]) + 1 /\ k + 1 \in 0 .. Len(q[h]) + 1
  BY <1>1
<1>3. /\ s \in Seq(Entries) /\ Len(s) = Len(q[h]) - 1
      /\ \A j \in 1 .. Len(q[h]) - 1 : s[j] = IF j < k THEN q[h][j] ELSE q[h][j + 1]
  BY <1>1, RemoveAtFacts
<1>4. /\ a \in Nodes /\ b \in Nodes /\ a # f /\ b # f /\ Node(q, h, k) = e
      /\ m.next[e] = b /\ m.prev[e] = a /\ a # e /\ b # e
  <2>1. a \in Nodes /\ b \in Nodes /\ a # f /\ b # f /\ Node(q, h, k) = e
    BY <1>1, <1>2, NodeFacts, FreeIsOffTheRings DEF Node
  <2>2. m.next[Node(q, h, k)] = b
    BY <1>1, <1>2, Zenon DEF Ring
  <2>3. m.prev[Node(q, h, (k - 1) + 1)] = a
    BY <1>1, <1>2, Zenon DEF Ring
  <2>4. ASSUME NEW j \in 0 .. Len(q[h])
        PROVE  /\ Node(q, h, k) = Node(q, h, j) => k = j
               /\ Node(q, h, k + 1) = Node(q, h, j + 1) => k = j
    BY <1>1, <1>2, NodesDiffer
  <2>5. /\ Node(q, h, k) = Node(q, h, k - 1) => k = k - 1
        /\ Node(q, h, k + 1) = Node(q, h, (k - 1) + 1) => k = k - 1
    BY <1>2, <2>4
  <2> QED
    BY <1>2, <2>1, <2>2, <2>3, <2>5
<1>5. Represents(p, r)
  <2> HIDE DEF s
  <2>1. \A i \in 1 .. Len(s) : s[i] = IF i < k THEN q[h][i] ELSE q[h][i + 1]
    BY <1>3
  <2> QED
    BY <1>3, <2>1, UnlinkRepresents
<1>6. /\ r \in Arrangements /\ r[h] = s
      /\ \A g \in Heads \ {h} : r[g] = q[g]
  <2> HIDE DEF s
  <2> QED
    BY <1>1, <1>3 DEF Arrangements
<1>7. Free(r, f)
  <2>1. \A i \in 1 .. Len(s) : s[i] # f
    <3> SUFFICES ASSUME NEW i \in 1 .. Len(s) PROVE s[i] # f
      OBVIOUS
    <3>1. \E j \in 1 .. Len(q[h]) : s[i] = q[h][j]
      <4>1. CASE i < k
        <5>1. i \in 1 .. Len(q[h]) /\ s[i] = q[h][i]
          BY <1>1, <1>3, <4>1
        <5> QED
          BY <5>1
      <4>2. CASE i >= k
        <5>1. i + 1 \in 1 .. Len(q[h]) /\ s[i] = q[h][i + 1]
          BY <1>1, <1>3, <4>2
        <5> QED
          BY <5>1
      <4> QED
        BY <1>1, <1>3, <4>1, <4>2
    <3> QED
      BY <3>1 DEF Free
  <2> HIDE DEF r, s
  <2> QED
    BY <1>6, <2>1 DEF Free
<1>8. Node(r, h, k - 1) = a /\ Node(r, h, k) = b
  <2> HIDE DEF r, s
  <2> QED
    BY <1>1, <1>2, <1>3, <1>6, SMTT(30) DEF Node
<1>9. /\ t \in Seq(Entries) /\ Len(t) = Len(q[h])
      /\ \A i \in 1 .. Len(q[h]) : t[i] = IF i = k THEN f ELSE q[h][i]
  BY <1>1, ExceptSeq
<1>10. Represents(list_insert(p, f, a, b), [r EXCEPT ![h] = t])
  <2> HIDE DEF p, r, s, t, a, b
  <2>1. k - 1 \in 0 .. Len(r[h]) /\ Len(t) = Len(r[h]) + 1
    BY <1>1, <1>3, <1>6, <1>9
  <2>2. \A i \in 1 .. Len(t) :
           t[i] = IF i <= k - 1 THEN r[h][i] ELSE IF i = (k - 1) + 1 THEN f ELSE r[h][i - 1]
    <3> SUFFICES ASSUME NEW i \in 1 .. Len(q[h])
                 PROVE  t[i] = IF i <= k - 1 THEN s[i]
                               ELSE IF i = (k - 1) + 1 THEN f ELSE s[i - 1]
      BY <1>6, <1>9
    <3>1. CASE i <= k - 1
      <4>1. i \in 1 .. Len(q[h]) - 1 /\ i < k /\ i # k
        BY <1>1, <3>1
      <4>2. s[i] = q[h][i]
        BY <1>3, <4>1
      <4>3. t[i] = q[h][i]
        BY <1>9, <4>1
      <4> QED
        BY <3>1, <4>2, <4>3
    <3>2. CASE i = k
      BY <1>1, <1>2, <1>9, <3>2
    <3>3. CASE i > k
      <4>1. i - 1 \in 1 .. Len(q[h]) - 1 /\ ~(i - 1 < k) /\ (i - 1) + 1 = i
        BY <1>1, <3>3
      <4>2. s[i - 1] = q[h][i]
        BY <1>3, <4>1
      <4> QED
        BY <1>1, <1>2, <1>9, <3>3, <4>2
    <3> QED
      BY <1>1, <3>1, <3>2, <3>3
  <2>3. Represents(list_insert(p, f, Node(r, h, k - 1), Node(r, h, (k - 1) + 1)),
                   [r EXCEPT ![h] = t])
    BY <1>5, <1>7, <1>9, <2>1, <2>2, InsertRepresents
  <2> QED
    BY <1>2, <1>8, <2>3
<1>11. [r EXCEPT ![h] = t] = [q EXCEPT ![h] = t]
  <2> HIDE DEF s, t
  <2> QED
    BY <1>1 DEF Arrangements
<1>12. list_insert(p, f, a, b) = list_replace_init(m, e, f)
  <2> DEFINE i == list_insert(p, f, a, b)
             j == list_replace_init(m, e, f)
  <2> HIDE DEF a, b, e
  <2>1. /\ i \in Memories
        /\ \A n \in Nodes :
             /\ i.next[n] = IF n = a THEN f ELSE IF n = f THEN b ELSE IF n = e THEN e
                            ELSE m.next[n]
             /\ i.prev[n] = IF n = f THEN a ELSE IF n = b THEN f ELSE IF n = e THEN e
                            ELSE m.prev[n]
    BY <1>1, <1>4 DEF list_insert, Parked, list_del_entry, list_unlink, Memories
  <2>2. /\ j \in Memories
        /\ \A n \in Nodes :
             /\ j.next[n] = IF n = a THEN f ELSE IF n = f THEN b ELSE IF n = e THEN e
                            ELSE m.next[n]
             /\ j.prev[n] = IF n = f THEN a ELSE IF n = b THEN f ELSE IF n = e THEN e
                            ELSE m.prev[n]
    BY <1>1, <1>4 DEF list_replace_init, list_replace, INIT_LIST_HEAD, Memories
  <2> HIDE DEF i, j
  <2>3. i.next = j.next /\ i.prev = j.prev
    BY <2>1, <2>2 DEF Memories
  <2>4. i = j
    BY <2>1, <2>2, <2>3 DEF Memories
  <2> QED
    BY <2>4 DEF i, j
<1> QED
  BY <1>10, <1>11, <1>12

LEMMA ConcatIsJoined ==
    ASSUME NEW u \in Seq(Entries), NEW v \in Seq(Entries)
    PROVE  /\ v \o u \in Seq(Entries) /\ Joined(u, v, 0, v \o u)
           /\ u \o v \in Seq(Entries) /\ Joined(u, v, Len(u), u \o v)
<1>1. Len(u) \in Nat /\ Len(v) \in Nat
  BY LenProperties
<1>2. v \o u \in Seq(Entries) /\ Joined(u, v, 0, v \o u)
  <2> DEFINE s == v \o u
  <2>1. /\ s \in Seq(Entries) /\ Len(s) = Len(v) + Len(u)
        /\ \A i \in 1 .. Len(v) + Len(u) : s[i] = IF i <= Len(v) THEN v[i] ELSE u[i - Len(v)]
    BY ConcatProperties
  <2> HIDE DEF s
  <2>2. Len(s) = Len(u) + Len(v)
    BY <1>1, <2>1
  <2>3. ASSUME NEW i \in 1 .. Len(s)
        PROVE  s[i] = IF i <= 0 THEN u[i] ELSE IF i <= 0 + Len(v) THEN v[i - 0] ELSE u[i - Len(v)]
    <3>1. i - 0 = i /\ ~(i <= 0) /\ 0 + Len(v) = Len(v) /\ i \in 1 .. Len(v) + Len(u)
      BY <1>1, <2>1
    <3> QED
      BY <2>1, <3>1
  <2> QED
    BY <2>1, <2>2, <2>3 DEF Joined, s
<1>3. u \o v \in Seq(Entries) /\ Joined(u, v, Len(u), u \o v)
  <2> DEFINE s == u \o v
  <2>1. /\ s \in Seq(Entries) /\ Len(s) = Len(u) + Len(v)
        /\ \A i \in 1 .. Len(u) + Len(v) : s[i] = IF i <= Len(u) THEN u[i] ELSE v[i - Len(u)]
    BY ConcatProperties
  <2> HIDE DEF s
  <2>2. ASSUME NEW i \in 1 .. Len(s)
        PROVE  s[i] = IF i <= Len(u) THEN u[i]
                      ELSE IF i <= Len(u) + Len(v) THEN v[i - Len(u)] ELSE u[i - Len(v)]
    <3>1. i <= Len(u) + Len(v) /\ i \in 1 .. Len(u) + Len(v)
      BY <1>1, <2>1
    <3> QED
      BY <2>1, <3>1
  <2> QED
    BY <2>1, <2>2 DEF Joined, s
<1> QED
  BY <1>2, <1>3

LEMMA SpliceRepresents ==
    ASSUME NEW m, NEW q, Represents(m, q), NEW g \in Heads, NEW h \in Heads, g # h
    PROVE  /\ Represents(list_splice_init(m, g, h), [q EXCEPT ![g] = <<>>, ![h] = q[g] \o q[h]])
           /\ Represents(list_splice_tail_init(m, g, h), [q EXCEPT ![g] = <<>>, ![h] = q[h] \o q[g]])
<1>1. /\ q \in Arrangements /\ q[h] \in Seq(Entries) /\ Len(q[h]) \in Nat
      /\ q[g] \in Seq(Entries) /\ Len(q[g]) \in Nat
  BY SeqFacts DEF Represents
<1>2. /\ m.next[h] = Node(q, h, 1) /\ m.prev[h] = Node(q, h, Len(q[h]))
      /\ h = Node(q, h, 0) /\ h = Node(q, h, Len(q[h]) + 1)
      /\ list_empty(m, g) <=> q[g] = <<>>
  BY <1>1, OnARing, NodeFacts
<1>3. CASE q[g] = <<>>
  <2>1. list_splice_init(m, g, h) = m /\ list_splice_tail_init(m, g, h) = m
    BY <1>2, <1>3 DEF list_splice_init, list_splice_tail_init
  <2>2. q[g] \o q[h] = q[h] /\ q[h] \o q[g] = q[h]
    BY <1>1, <1>3, ConcatEmptySeq
  <2>3. [q EXCEPT ![g] = <<>>, ![h] = q[h]] = q
    BY <1>1, <1>3 DEF Arrangements
  <2> QED
    BY <2>1, <2>2, <2>3
<1>4. CASE q[g] # <<>>
  <2>1. Len(q[g]) # 0 /\ 0 \in 0 .. Len(q[h]) /\ Len(q[h]) \in 0 .. Len(q[h])
    BY <1>1, <1>4, EmptySeq
  <2>2. ASSUME NEW k \in 0 .. Len(q[h]), NEW s \in Seq(Entries), Joined(q[h], q[g], k, s)
        PROVE  Represents(INIT_LIST_HEAD(list_join(m, g, Node(q, h, k), Node(q, h, k + 1)), g),
                          [q EXCEPT ![g] = <<>>, ![h] = s])
    BY <2>1, <2>2, JoinRepresents
  <2>3. q[g] \o q[h] \in Seq(Entries) /\ Joined(q[h], q[g], 0, q[g] \o q[h])
    BY <1>1, ConcatIsJoined
  <2>4. q[h] \o q[g] \in Seq(Entries) /\ Joined(q[h], q[g], Len(q[h]), q[h] \o q[g])
    BY <1>1, ConcatIsJoined
  <2>5. Represents(INIT_LIST_HEAD(list_join(m, g, Node(q, h, 0), Node(q, h, 0 + 1)), g),
                   [q EXCEPT ![g] = <<>>, ![h] = q[g] \o q[h]])
    BY <2>1, <2>2, <2>3
  <2>6. Represents(INIT_LIST_HEAD(list_join(m, g, Node(q, h, Len(q[h])),
                                            Node(q, h, Len(q[h]) + 1)), g),
                   [q EXCEPT ![g] = <<>>, ![h] = q[h] \o q[g]])
    BY <2>1, <2>2, <2>4
  <2>7. list_splice_init(m, g, h)
          = INIT_LIST_HEAD(list_join(m, g, Node(q, h, 0), Node(q, h, 0 + 1)), g)
    BY <1>2, <1>4 DEF list_splice_init
  <2>8. list_splice_tail_init(m, g, h)
          = INIT_LIST_HEAD(list_join(m, g, Node(q, h, Len(q[h])), Node(q, h, Len(q[h]) + 1)), g)
    BY <1>2, <1>4 DEF list_splice_tail_init
  <2> QED
    BY <2>5, <2>6, <2>7, <2>8
<1> QED
  BY <1>3, <1>4

CutOf(q, g, h, k) ==
    [q EXCEPT ![g] = SubSeq(q[h], 1, k), ![h] = SubSeq(q[h], k + 1, Len(q[h]))]

(* A cut moves the first n entries of h, or does nothing at all.           *)
LEMMA CutsRepresent ==
    ASSUME NEW m, NEW q, Represents(m, q), NEW g \in Heads, NEW h \in Heads, g # h,
           list_empty(m, g), NEW e \in EntriesOf(m, h) \cup {h},
           NEW m2 \in {list_cut_position(m, g, h, e), list_cut_before(m, g, h, e)}
    PROVE  \/ m2 = m
           \/ \E k \in 1 .. Len(q[h]) :
                 Represents(m2, CutOf(q, g, h, k))
<1>1. /\ m \in Memories /\ q \in Arrangements /\ Ring(m, q, h) /\ Ring(m, q, g)
      /\ Len(q[h]) \in Nat /\ q[g] = <<>> /\ Len(q[g]) = 0
      /\ g \in Nodes
  BY SeqFacts, OnARing, EmptySeq DEF Represents, Nodes
<1>2. INIT_LIST_HEAD(m, g) = m
  <2>1. Node(q, g, 0) = g /\ Node(q, g, 0 + 1) = g /\ 0 \in 0 .. Len(q[g])
    BY <1>1 DEF Node
  <2>2. m.next[g] = g /\ m.prev[g] = g
    BY <1>1, <2>1 DEF Ring
  <2>3. [m.next EXCEPT ![g] = g] = m.next /\ [m.prev EXCEPT ![g] = g] = m.prev
    BY <1>1, <2>2 DEF Memories
  <2>4. m = [next |-> m.next, prev |-> m.prev]
    BY <1>1 DEF Memories
  <2> QED
    BY <2>3, <2>4 DEF INIT_LIST_HEAD
<1>3. ASSUME NEW k \in 1 .. Len(q[h]), m2 = list_cut(m, g, h, q[h][k])
      PROVE  \E n \in 1 .. Len(q[h]) :
                 Represents(m2, CutOf(q, g, h, n))
  BY <1>1, <1>3, CutRepresents DEF CutOf
<1>4. \/ e = h
      \/ \E k \in 1 .. Len(q[h]) : e = q[h][k]
  BY OnARing
<1>5. CASE m2 = list_cut_position(m, g, h, e)
  <2>1. \/ m2 = m
        \/ e # h /\ m2 = list_cut(m, g, h, e)
    BY <1>2, <1>5 DEF list_cut_position
  <2> QED
    BY <1>3, <1>4, <2>1
<1>6. CASE m2 = list_cut_before(m, g, h, e)
  <2>1. CASE m.next[h] = e
    BY <1>2, <1>6, <2>1 DEF list_cut_before
  <2>2. CASE m.next[h] # e
    <3>1. PICK k \in 1 .. Len(q[h]) : e = Node(q, h, k + 1)
      <4>1. CASE e = h
        <5>1. Len(q[h]) # 0
          <6>1. CASE Len(q[h]) = 0
            <7>1. q[h] = <<>>
              BY <6>1, EmptySeq, SeqFacts, <1>1
            <7> QED
              BY <2>2, <4>1, <7>1, OnARing DEF list_empty
          <6> QED
            BY <6>1
        <5>2. Len(q[h]) \in 1 .. Len(q[h]) /\ Node(q, h, Len(q[h]) + 1) = h
          BY <1>1, <5>1, NodeFacts
        <5> QED
          BY <4>1, <5>2
      <4>2. CASE e # h
        <5>1. PICK j \in 1 .. Len(q[h]) : e = q[h][j]
          BY <1>4, <4>2
        <5>2. e = Node(q, h, j)
          BY <5>1 DEF Node
        <5>3. m.next[h] = Node(q, h, 1)
          BY OnARing
        <5>4. j # 1
          BY <2>2, <5>2, <5>3
        <5>5. j - 1 \in 1 .. Len(q[h]) /\ (j - 1) + 1 = j
          BY <1>1, <5>4
        <5> QED
          BY <5>2, <5>5
      <4> QED
        BY <4>1, <4>2
    <3>2. /\ k \in 0 .. Len(q[h]) /\ Node(q, h, k) = q[h][k]
      BY <1>1 DEF Node
    <3>3. m.prev[e] = q[h][k] /\ m.next[q[h][k]] = e
      BY <1>1, <3>1, <3>2 DEF Ring
    <3>4. m2 = list_cut(m, g, h, q[h][k])
      BY <1>6, <2>2, <3>3 DEF list_cut_before, list_cut
    <3> QED
      BY <1>3, <3>4
  <2> QED
    BY <2>1, <2>2
<1> QED
  BY <1>5, <1>6

-----------------------------------------------------------------------------
(* The inductive invariant. A loop is at the entry of its list that comes  *)
(* after the ones it has been at. A plain loop finds its list as it was; a *)
(* safe one finds what comes after its entry at the end of the list.       *)

Place(s, h, i) == IF i \in 1 .. Len(s) THEN s[i] ELSE h

EndsWith(t, s, i) ==
    /\ Len(s) - i <= Len(t)
    /\ \A j \in i + 1 .. Len(s) : t[Len(t) - Len(s) + j] = s[j]

WalkInv ==
    walk.kind # "none" =>
        LET all == walk.all
            i == Len(walk.seen) + 1
        IN  /\ walk.kind \in {"plain", "safe"} /\ walk.head \in Heads
            /\ all \in Seq(Entries)
            /\ \A j \in 1 .. Len(all) : \A k \in 1 .. Len(all) : all[j] = all[k] => j = k
            /\ walk.seen \in Seq(Entries) /\ Len(walk.seen) <= Len(all)
            /\ \A j \in 1 .. Len(walk.seen) : walk.seen[j] = all[j]
            /\ walk.pos = Place(all, walk.head, i)
            /\ walk.kind = "plain" => Lists(mem)[walk.head] = all
            /\ walk.kind = "safe" /\ i <= Len(all) =>
                 /\ walk.n = Place(all, walk.head, i + 1)
                 /\ EndsWith(Lists(mem)[walk.head], all, i)

Walks == [kind : {"none", "plain", "safe"}, head : Nodes \cup {Poison}, pos : Nodes \cup {Poison},
          n : Nodes \cup {Poison}, seen : Seq(Entries), all : Seq(Entries)]

ListInv ==
    /\ Represents(mem, Lists(mem))
    /\ walk \in Walks
    /\ WalkInv

(* What a call leaves of the list that is walked over.                     *)
WalkedListKept ==
    walk.kind # "none" =>
        \/ Lists(mem)'[walk.head] = Lists(mem)[walk.head]
        \/ /\ walk.kind = "safe"
           /\ Lists(mem)'[walk.head] = Q!RemoveFirst(Lists(mem)[walk.head], walk.pos)

LEMMA IsLooseIsFree ==
    ASSUME NEW m, NEW q, Represents(m, q), NEW e \in Entries, m.next[e] \in {e, Poison}
    PROVE  Free(q, e)
BY OnARing DEF Free

LEMMA FreeIsLoose ==
    ASSUME NEW e \in Entries, Free(Lists(mem), e), Lists(mem) \in Arrangements
    PROVE  Q!Loose(e)
<1>1. \A h \in Heads : DOMAIN Lists(mem)[h] = 1 .. Len(Lists(mem)[h])
  BY SeqFacts
<1> QED
  BY <1>1 DEF Q!Loose, Q!ToSet, Free

(* The calls that take an entry of the list that is walked over.           *)
LEMMA OtherEntryKept ==
    ASSUME ListInv, NEW e \in Entries, OtherEntry(e), walk.kind # "none"
    PROVE  \/ Q!RemoveFirst(Lists(mem)[walk.head], e) = Lists(mem)[walk.head]
           \/ walk.kind = "safe" /\ e = walk.pos
<1> DEFINE q == Lists(mem)
<1>1. walk.head \in Heads /\ Represents(mem, q)
  BY DEF ListInv, WalkInv
<1>2. CASE e \notin EntriesOf(mem, walk.head)
  <2>1. \A i \in 1 .. Len(q[walk.head]) : q[walk.head][i] # e
    BY <1>1, <1>2, OnARing
  <2> HIDE DEF q
  <2>2. Q!RemoveFirst(q[walk.head], e) = q[walk.head]
    BY <2>1 DEF Q!RemoveFirst
  <2> QED
    BY <2>2 DEF q
<1> QED
  BY <1>2 DEF OtherEntry

LEMMA DeleteStep ==
    ASSUME ListInv, NEW e \in Entries, Delete(e)
    PROVE  Represents(mem', Lists(mem)') /\ Q!Delete(e) /\ WalkedListKept
<1> DEFINE q == Lists(mem)
           r == Without(q, e)
<1>1. Represents(mem, q) /\ mem.next[e] # Poison
  BY DEF ListInv, Delete
<1>2. Represents(mem', r)
  <2>1. PICK v \in {e, Poison} : mem' = Parked(list_del_entry(mem, e), e, v)
    BY DEF Delete, list_del, list_del_init, INIT_LIST_HEAD, Parked
  <2> QED
    BY <1>1, <2>1, ParkRepresents
<1>3. Lists(mem') = r
  BY <1>2, ListsOfMemory
<1>4. Q!Delete(e)
  BY <1>3 DEF Q!Delete, Without
<1>5. WalkedListKept
  <2> SUFFICES ASSUME walk.kind # "none"
               PROVE  \/ r[walk.head] = q[walk.head]
                      \/ walk.kind = "safe" /\ r[walk.head] = Q!RemoveFirst(q[walk.head], walk.pos)
    BY <1>3 DEF WalkedListKept
  <2>1. walk.head \in Heads
    BY DEF ListInv, WalkInv
  <2>2. r[walk.head] = Q!RemoveFirst(q[walk.head], e)
    BY <2>1 DEF Without
  <2>3. OtherEntry(e)
    BY DEF Delete
  <2> QED
    BY <2>2, <2>3, OtherEntryKept
<1> QED
  BY <1>2, <1>3, <1>4, <1>5

LEMMA AddStep ==
    ASSUME ListInv, NEW e \in Entries, NEW h \in Heads, Add(e, h)
    PROVE  /\ Represents(mem', Lists(mem)') /\ (Q!AddFirst(e, h) \/ Q!AddLast(e, h))
           /\ WalkedListKept
<1> DEFINE q == Lists(mem)
<1>1. Represents(mem, q) /\ q \in Arrangements
  BY DEF ListInv, Represents
<1>2. Free(q, e)
  BY <1>1, IsLooseIsFree DEF Add, IsLoose
<1>3. Q!Loose(e)
  BY <1>1, <1>2, FreeIsLoose
<1>4. ASSUME NEW s, Represents(mem', [q EXCEPT ![h] = s])
      PROVE  Lists(mem') = [q EXCEPT ![h] = s] /\ WalkedListKept
  <2>1. Lists(mem') = [q EXCEPT ![h] = s]
    BY <1>4, ListsOfMemory
  <2> QED
    BY <1>1, <2>1 DEF WalkedListKept, Add, OtherList, Arrangements, ListInv, WalkInv
<1>5. CASE mem' = list_add(mem, e, h)
  <2>1. Represents(mem', [q EXCEPT ![h] = <<e>> \o q[h]])
    BY <1>1, <1>2, <1>5, AddRepresents
  <2> QED
    BY <1>3, <1>4, <2>1 DEF Q!AddFirst
<1>6. CASE mem' = list_add_tail(mem, e, h)
  <2>1. Represents(mem', [q EXCEPT ![h] = Append(q[h], e)])
    BY <1>1, <1>2, <1>6, AddRepresents
  <2> QED
    BY <1>3, <1>4, <2>1 DEF Q!AddLast
<1> QED
  BY <1>5, <1>6 DEF Add

LEMMA MoveStep ==
    ASSUME ListInv, NEW e \in Entries, NEW h \in Heads, Move(e, h)
    PROVE  /\ Represents(mem', Lists(mem)') /\ (Q!MoveFirst(e, h) \/ Q!MoveLast(e, h))
           /\ WalkedListKept
<1> DEFINE q == Lists(mem)
           w == Without(q, e)
<1>1. Represents(mem, q) /\ mem.next[e] # Poison
  BY DEF ListInv, Move
<1>2. \A g \in Heads : w[g] = Q!RemoveFirst(q[g], e)
  BY DEF Without
<1>3. w = [g \in Heads |-> w[g]]
  BY DEF Without
<1>4. walk.kind # "none" => /\ walk.head \in Heads /\ h # walk.head
                            /\ \/ w[walk.head] = q[walk.head]
                               \/ /\ walk.kind = "safe"
                                  /\ w[walk.head] = Q!RemoveFirst(q[walk.head], walk.pos)
  <2>1. OtherEntry(e) /\ (walk.kind # "none" => walk.head \in Heads /\ h # walk.head)
    BY DEF Move, OtherList, ListInv, WalkInv
  <2> QED
    BY <1>2, <2>1, OtherEntryKept
<1> HIDE DEF w
<1>5. ASSUME NEW s, Represents(mem', [w EXCEPT ![h] = s])
      PROVE  Lists(mem') = [w EXCEPT ![h] = s] /\ WalkedListKept
  <2>1. Lists(mem') = [w EXCEPT ![h] = s]
    BY <1>5, ListsOfMemory
  <2>2. \A g \in Heads \ {h} : [w EXCEPT ![h] = s][g] = w[g]
    BY <1>3
  <2> QED
    BY <1>4, <2>1, <2>2 DEF WalkedListKept
<1>6. CASE mem' = list_move(mem, e, h)
  <2>1. Represents(mem', [w EXCEPT ![h] = <<e>> \o w[h]])
    BY <1>1, <1>6, MoveRepresents DEF w
  <2>2. [w EXCEPT ![h] = <<e>> \o w[h]]
          = [g \in Heads |-> IF g = h THEN <<e>> \o Q!RemoveFirst(q[h], e) ELSE Q!RemoveFirst(q[g], e)]
    BY <1>2, <1>3
  <2>3. Q!MoveFirst(e, h)
    BY <1>5, <2>1, <2>2 DEF Q!MoveFirst
  <2> QED
    BY <1>5, <2>1, <2>3
<1>7. CASE mem' = list_move_tail(mem, e, h)
  <2>1. Represents(mem', [w EXCEPT ![h] = Append(w[h], e)])
    BY <1>1, <1>7, MoveRepresents DEF w
  <2>2. [w EXCEPT ![h] = Append(w[h], e)]
          = [g \in Heads |-> IF g = h THEN Append(Q!RemoveFirst(q[h], e), e) ELSE Q!RemoveFirst(q[g], e)]
    BY <1>2, <1>3
  <2>3. Q!MoveLast(e, h)
    BY <1>5, <2>1, <2>2 DEF Q!MoveLast
  <2> QED
    BY <1>5, <2>1, <2>3
<1> QED
  BY <1>6, <1>7 DEF Move

LEMMA ReplaceStep ==
    ASSUME ListInv, NEW e \in Entries, NEW f \in Entries, Replace(e, f)
    PROVE  Represents(mem', Lists(mem)') /\ Q!Replace(e, f) /\ WalkedListKept
<1> DEFINE q == Lists(mem)
<1>1. Represents(mem, q) /\ q \in Arrangements /\ Distinct(q)
  BY DEF ListInv, Represents
<1>2. Free(q, f) /\ Q!Loose(f)
  <2>1. Free(q, f)
    BY <1>1, IsLooseIsFree DEF Replace, IsLoose
  <2> QED
    BY <1>1, <2>1, FreeIsLoose
<1>3. ~Free(q, e)
  BY <1>1 DEF Represents, LooseEntry, Replace, IsLoose
<1>4. PICK h \in Heads : \E k \in 1 .. Len(q[h]) : q[h][k] = e
  BY <1>3 DEF Free
<1>5. PICK k \in 1 .. Len(q[h]) : q[h][k] = e
  BY <1>4
<1> DEFINE s == [q[h] EXCEPT ![k] = f]
<1>6. Represents(mem', [q EXCEPT ![h] = s])
  <2>1. Represents(list_replace_init(mem, q[h][k], f), [q EXCEPT ![h] = s])
    BY <1>1, <1>2, ReplaceRepresents
  <2> QED
    BY <1>5, <2>1 DEF Replace
<1>7. Lists(mem') = [q EXCEPT ![h] = s]
  BY <1>6, ListsOfMemory
<1>8. \A g \in Heads : \A i \in 1 .. Len(q[g]) : q[g][i] = e => g = h /\ i = k
  BY <1>1, <1>5 DEF Distinct
<1>9. \A g \in Heads : /\ q[g] = [i \in 1 .. Len(q[g]) |-> q[g][i]]
                       /\ Len(q[g]) \in Nat
  <2>1. \A g \in Heads : q[g] \in Seq(Entries) /\ Len(q[g]) \in Nat
    BY <1>1, SeqFacts
  <2> QED
    BY <2>1, LenProperties
<1>10. s = Q!ReplaceAll(q[h], e, f)
  <2>1. s = [i \in 1 .. Len(q[h]) |-> IF i = k THEN f ELSE q[h][i]]
    BY <1>9
  <2>2. \A i \in 1 .. Len(q[h]) : i = k <=> q[h][i] = e
    BY <1>5, <1>8
  <2> HIDE DEF s, q
  <2> QED
    BY <2>1, <2>2 DEF Q!ReplaceAll
<1>11. \A g \in Heads \ {h} : q[g] = Q!ReplaceAll(q[g], e, f)
  <2> HIDE DEF q
  <2> QED
    BY <1>8, <1>9 DEF Q!ReplaceAll
<1>12. [q EXCEPT ![h] = s] = [g \in Heads |-> Q!ReplaceAll(q[g], e, f)]
  <2> HIDE DEF s, q
  <2> QED
    BY <1>1, <1>10, <1>11 DEF Arrangements
<1>13. Q!Replace(e, f)
  BY <1>2, <1>7, <1>12 DEF Q!Replace
<1> QED
  BY <1>6, <1>7, <1>13 DEF WalkedListKept, Replace

LEMMA RotateStep ==
    ASSUME ListInv, NEW h \in Heads, Rotate(h)
    PROVE  Represents(mem', Lists(mem)') /\ Q!RotateLeft(h) /\ WalkedListKept
<1> DEFINE q == Lists(mem)
           s == IF q[h] = <<>> THEN q[h] ELSE Append(Tail(q[h]), Head(q[h]))
<1>1. Represents(mem, q) /\ q \in Arrangements
  BY DEF ListInv, Represents
<1>2. Represents(mem', [q EXCEPT ![h] = s])
  BY <1>1, RotateRepresents DEF Rotate
<1>3. Lists(mem') = [q EXCEPT ![h] = s]
  BY <1>2, ListsOfMemory
<1>4. Q!RotateLeft(h)
  BY <1>3 DEF Q!RotateLeft
<1>5. WalkedListKept
  <2> HIDE DEF s
  <2> QED
    BY <1>1, <1>3 DEF WalkedListKept, Rotate, OtherList, Arrangements, ListInv, WalkInv
<1> QED
  BY <1>2, <1>3, <1>4, <1>5

LEMMA SpliceStep ==
    ASSUME ListInv, NEW g \in Heads, NEW h \in Heads, Splice(g, h)
    PROVE  /\ Represents(mem', Lists(mem)') /\ (Q!SpliceFirst(g, h) \/ Q!SpliceLast(g, h))
           /\ WalkedListKept
<1> DEFINE q == Lists(mem)
<1>1. Represents(mem, q) /\ q \in Arrangements /\ g # h
  BY DEF ListInv, Represents, Splice
<1>2. ASSUME NEW s, Represents(mem', [q EXCEPT ![g] = <<>>, ![h] = s])
      PROVE  Lists(mem') = [q EXCEPT ![g] = <<>>, ![h] = s] /\ WalkedListKept
  <2>1. Lists(mem') = [q EXCEPT ![g] = <<>>, ![h] = s]
    BY <1>2, ListsOfMemory
  <2>2. \A f \in Heads \ {g, h} : [q EXCEPT ![g] = <<>>, ![h] = s][f] = q[f]
    BY <1>1 DEF Arrangements
  <2>3. walk.kind # "none" => walk.head \in Heads \ {g, h}
    BY DEF Splice, OtherList, ListInv, WalkInv
  <2> QED
    BY <2>1, <2>2, <2>3 DEF WalkedListKept
<1>3. CASE mem' = list_splice_init(mem, g, h)
  <2>1. Represents(mem', [q EXCEPT ![g] = <<>>, ![h] = q[g] \o q[h]])
    BY <1>1, <1>3, SpliceRepresents
  <2> QED
    BY <1>1, <1>2, <2>1 DEF Q!SpliceFirst
<1>4. CASE mem' = list_splice_tail_init(mem, g, h)
  <2>1. Represents(mem', [q EXCEPT ![g] = <<>>, ![h] = q[h] \o q[g]])
    BY <1>1, <1>4, SpliceRepresents
  <2> QED
    BY <1>1, <1>2, <2>1 DEF Q!SpliceLast
<1> QED
  BY <1>3, <1>4 DEF Splice

LEMMA CutStep ==
    ASSUME ListInv, NEW g \in Heads, NEW h \in Heads, NEW e, CutList(g, h, e)
    PROVE  /\ Represents(mem', Lists(mem)')
           /\ \/ \E n \in 0 .. Len(Lists(mem)[h]) : Q!Cut(g, h, n)
              \/ UNCHANGED Lists(mem)
           /\ WalkedListKept
<1> DEFINE q == Lists(mem)
<1>1. Represents(mem, q) /\ q \in Arrangements /\ g # h /\ q[g] = <<>> /\ Len(q[h]) \in Nat
  <2>1. Represents(mem, q) /\ list_empty(mem, g) /\ g # h
    BY DEF ListInv, CutList
  <2> QED
    BY <2>1, OnARing, SeqFacts DEF Represents
<1>2. \/ mem' = mem
      \/ \E k \in 1 .. Len(q[h]) :
            Represents(mem', CutOf(q, g, h, k))
  <2>1. /\ list_empty(mem, g) /\ e \in EntriesOf(mem, h) \cup {h}
        /\ mem' \in {list_cut_position(mem, g, h, e), list_cut_before(mem, g, h, e)}
    BY DEF CutList
  <2> HIDE DEF q
  <2> QED
    BY <1>1, <2>1, CutsRepresent
<1>3. CASE mem' = mem
  BY <1>1, <1>3 DEF WalkedListKept
<1>4. ASSUME NEW k \in 1 .. Len(q[h]),
             Represents(mem', CutOf(q, g, h, k))
      PROVE  /\ Represents(mem', Lists(mem'))
             /\ Q!Cut(g, h, k) /\ WalkedListKept
  <2> DEFINE r == CutOf(q, g, h, k)
  <2>1. Lists(mem') = r
    BY <1>4, ListsOfMemory
  <2>2. \A f \in Heads \ {g, h} : r[f] = q[f]
    BY <1>1 DEF Arrangements, CutOf
  <2>3. walk.kind # "none" => walk.head \in Heads \ {g, h}
    BY DEF CutList, OtherList, ListInv, WalkInv
  <2>4. Q!Cut(g, h, k)
    BY <1>1, <2>1 DEF Q!Cut, CutOf
  <2>5. WalkedListKept
    <3> HIDE DEF r
    <3> QED
      BY <2>1, <2>2, <2>3 DEF WalkedListKept
  <2> QED
    BY <1>4, <2>1, <2>4, <2>5
<1> QED
  <2>1. \A k \in 1 .. Len(q[h]) : k \in 0 .. Len(q[h])
    BY <1>1
  <2> QED
    BY <1>2, <1>3, <1>4, <2>1

-----------------------------------------------------------------------------
(* The loops.                                                              *)

LEMMA EndKept ==
    ASSUME NEW q \in Arrangements, Distinct(q), NEW h \in Heads, NEW s \in Seq(Entries),
           \A j \in 1 .. Len(s) : \A k \in 1 .. Len(s) : s[j] = s[k] => j = k,
           NEW i \in 1 .. Len(s), EndsWith(q[h], s, i)
    PROVE  EndsWith(Q!RemoveFirst(q[h], s[i]), s, i)
<1> DEFINE t == q[h]
           n == Len(s)
<1>1. /\ t \in Seq(Entries) /\ Len(t) \in Nat /\ n \in Nat
      /\ n - i <= Len(t) /\ \A j \in i + 1 .. n : t[Len(t) - n + j] = s[j]
  BY SeqFacts, LenProperties DEF EndsWith
<1>2. CASE \A k \in 1 .. Len(t) : t[k] # s[i]
  <2>1. Q!RemoveFirst(q[h], s[i]) = q[h]
    BY <1>2 DEF Q!RemoveFirst
  <2> QED
    BY <2>1
<1>3. ASSUME NEW k \in 1 .. Len(t), t[k] = s[i]
      PROVE  EndsWith(Q!RemoveFirst(q[h], s[i]), s, i)
  <2> DEFINE u == Q!RemoveAt(t, k)
  <2>1. Q!RemoveFirst(q[h], s[i]) = u
    <3>1. Without(q, q[h][k]) = [q EXCEPT ![h] = u]
      BY WithoutListed
    <3>2. Without(q, q[h][k])[h] = Q!RemoveFirst(q[h], s[i])
      BY <1>3 DEF Without
    <3> HIDE DEF u
    <3> QED
      BY <3>1, <3>2 DEF Arrangements
  <2>2. /\ Len(u) = Len(t) - 1
        /\ \A j \in 1 .. Len(t) - 1 : u[j] = IF j < k THEN t[j] ELSE t[j + 1]
    BY <1>1, RemoveAtFacts
  <2> HIDE DEF u, t, n
  <2>3. k <= Len(t) - n + i
    <3> SUFFICES ASSUME k > Len(t) - n + i PROVE FALSE
      BY <1>1
    <3>1. k - Len(t) + n \in i + 1 .. n /\ Len(t) - n + (k - Len(t) + n) = k
      BY <1>1 DEF n
    <3>2. t[k] = s[k - Len(t) + n]
      BY <1>1, <3>1
    <3>3. k - Len(t) + n \in 1 .. Len(s) /\ k - Len(t) + n # i
      BY <1>1, <3>1 DEF n
    <3> QED
      BY <1>3, <3>2, <3>3
  <2>4. n - i <= Len(u)
    BY <1>1, <2>2, <2>3
  <2>5. ASSUME NEW j \in i + 1 .. n
        PROVE  u[Len(u) - n + j] = s[j]
    <3>1. /\ Len(u) - n + j \in 1 .. Len(t) - 1 /\ ~(Len(u) - n + j < k)
          /\ (Len(u) - n + j) + 1 = Len(t) - n + j
      BY <1>1, <2>2, <2>3
    <3> QED
      BY <1>1, <2>2, <3>1
  <2> QED
    BY <2>1, <2>4, <2>5 DEF EndsWith, n
<1> QED
  BY <1>2, <1>3

(* A call leaves the loop that it is called from, or that is called off by *)
(* none, where it was.                                                     *)
LEMMA CallKeepsWalk ==
    ASSUME ListInv, WalkedListKept, Represents(mem', Lists(mem)'), walk' = walk
    PROVE  ListInv'
<1> DEFINE q == Lists(mem)
           all == walk.all
           i == Len(walk.seen) + 1
<1>1. CASE walk.kind = "none"
  BY <1>1 DEF ListInv, WalkInv
<1>2. CASE walk.kind # "none"
  <2>1. /\ walk.kind \in {"plain", "safe"} /\ walk.head \in Heads
        /\ all \in Seq(Entries)
        /\ \A j \in 1 .. Len(all) : \A k \in 1 .. Len(all) : all[j] = all[k] => j = k
        /\ walk.seen \in Seq(Entries) /\ Len(walk.seen) <= Len(all)
        /\ \A j \in 1 .. Len(walk.seen) : walk.seen[j] = all[j]
        /\ walk.pos = Place(all, walk.head, i)
        /\ walk.kind = "plain" => q[walk.head] = all
        /\ walk.kind = "safe" /\ i <= Len(all) =>
             /\ walk.n = Place(all, walk.head, i + 1)
             /\ EndsWith(q[walk.head], all, i)
    BY <1>2 DEF ListInv, WalkInv
  <2>2. q \in Arrangements /\ Distinct(q) /\ Len(all) \in Nat /\ Len(walk.seen) \in Nat
    BY <2>1, LenProperties DEF ListInv, Represents
  <2>3. /\ walk.kind = "plain" => Lists(mem)'[walk.head] = all
        /\ walk.kind = "safe" /\ i <= Len(all) => EndsWith(Lists(mem)'[walk.head], all, i)
    <3>1. CASE Lists(mem)'[walk.head] = q[walk.head]
      BY <2>1, <3>1
    <3>2. CASE /\ walk.kind = "safe"
               /\ Lists(mem)'[walk.head] = Q!RemoveFirst(q[walk.head], walk.pos)
      <4> SUFFICES ASSUME i <= Len(all)
                   PROVE  EndsWith(Q!RemoveFirst(q[walk.head], walk.pos), all, i)
        BY <3>2
      <4>1. i \in 1 .. Len(all) /\ walk.pos = all[i]
        BY <2>1, <2>2 DEF Place
      <4>2. EndsWith(q[walk.head], all, i)
        BY <2>1, <3>2
      <4> HIDE DEF q, all, i
      <4> QED
        BY <2>1, <2>2, <4>1, <4>2, EndKept
    <3> QED
      BY <1>2, <3>1, <3>2 DEF WalkedListKept
  <2>4. WalkInv'
    BY <2>1, <2>3 DEF WalkInv
  <2> QED
    BY <2>1, <2>4 DEF ListInv
<1> QED
  BY <1>1, <1>2

LEMMA BeginWalkKeeps ==
    ASSUME ListInv, NEW h \in Heads, NEW kind \in {"plain", "safe"}, BeginWalk(kind, h)
    PROVE  ListInv'
<1> DEFINE q == Lists(mem)
<1>1. /\ Represents(mem, q) /\ q \in Arrangements /\ Distinct(q)
      /\ mem' = mem
      /\ walk' = [kind |-> kind, head |-> h, pos |-> mem.next[h],
                  n |-> IF kind = "safe" THEN mem.next[mem.next[h]] ELSE Poison, seen |-> <<>>,
                  all |-> q[h]]
  <2>1. Represents(mem, q)
    BY DEF ListInv
  <2> QED
    BY <2>1, ListsOfMemory DEF Represents, BeginWalk
<1>2. /\ q[h] \in Seq(Entries) /\ Len(q[h]) \in Nat
      /\ \A j \in 1 .. Len(q[h]) : \A k \in 1 .. Len(q[h]) : q[h][j] = q[h][k] => j = k
      /\ <<>> \in Seq(Entries) /\ Len(<<>>) = 0
  BY <1>1, SeqFacts, EmptySeq DEF Distinct
<1>3. mem.next[h] = Place(q[h], h, 1)
  BY <1>1, OnARing DEF Node, Place
<1>4. ASSUME 1 <= Len(q[h])
      PROVE  /\ mem.next[mem.next[h]] = Place(q[h], h, 2)
             /\ EndsWith(q[h], q[h], 1)
  <2>1. 1 \in 1 .. Len(q[h]) /\ mem.next[h] = q[h][1] /\ 1 + 1 = 2
    BY <1>2, <1>3, <1>4 DEF Place
  <2>2. mem.next[q[h][1]] = Node(q, h, 1 + 1)
    BY <1>1, <2>1, OnARing
  <2>3. \A j : Len(q[h]) - Len(q[h]) + j = 0 + j
    BY <1>2
  <2>4. EndsWith(q[h], q[h], 1)
    BY <1>2 DEF EndsWith
  <2> QED
    BY <2>1, <2>2, <2>4 DEF Node, Place
<1>5. Lists(mem)' = q
  BY <1>1
<1>6. walk' \in Walks
  <2>1. mem.next[h] \in Nodes /\ mem.next[mem.next[h]] \in Nodes \cup {Poison} /\ h \in Nodes
    <3>1. 1 \in 0 .. Len(q[h]) + 1
      BY <1>2
    <3>2. mem.next[h] \in Nodes
      BY <1>1, <3>1, OnARing, NodeFacts
    <3> QED
      BY <1>1, <3>2 DEF Represents, Memories, Nodes
  <2> QED
    BY <1>1, <1>2, <2>1 DEF Walks
<1>7. WalkInv'
  <2> HIDE DEF q
  <2>1. /\ walk'.kind = kind /\ walk'.head = h /\ walk'.pos = mem.next[h] /\ walk'.seen = <<>>
        /\ walk'.all = q[h] /\ (kind = "safe" => walk'.n = mem.next[mem.next[h]])
    BY <1>1
  <2>2. Len(walk'.seen) = 0 /\ 0 + 1 = 1 /\ 1 + 1 = 2
    BY <1>2, <2>1
  <2> QED
    BY <1>2, <1>3, <1>4, <1>5, <2>1, <2>2 DEF WalkInv
<1> QED
  BY <1>1, <1>5, <1>6, <1>7 DEF ListInv

NextEnd(t, s, i, h) ==
    /\ \E k \in 1 .. Len(t) : /\ Place(s, h, i + 1) = t[k]
                              /\ Place(s, h, i + 2) = Place(t, h, k + 1)
    /\ EndsWith(t, s, i + 1)

LEMMA NextOfTheEnd ==
    ASSUME NEW s \in Seq(Entries), NEW t \in Seq(Entries), NEW i \in Nat, i + 1 <= Len(s),
           EndsWith(t, s, i), NEW h
    PROVE  NextEnd(t, s, i, h)
<1> DEFINE k == Len(t) - Len(s) + (i + 1)
<1>1. /\ Len(s) \in Nat /\ Len(t) \in Nat
      /\ Len(s) - i <= Len(t) /\ \A j \in i + 1 .. Len(s) : t[Len(t) - Len(s) + j] = s[j]
  BY LenProperties DEF EndsWith
<1>2. i + 1 \in i + 1 .. Len(s) /\ i + 1 \in 1 .. Len(s) /\ k \in 1 .. Len(t)
  BY <1>1
<1>3. Place(s, h, i + 1) = t[k]
  BY <1>1, <1>2 DEF Place
<1>4. Place(s, h, i + 2) = Place(t, h, k + 1)
  <2>1. CASE i + 2 <= Len(s)
    <3>1. /\ i + 2 \in i + 1 .. Len(s) /\ i + 2 \in 1 .. Len(s) /\ k + 1 \in 1 .. Len(t)
          /\ k + 1 = Len(t) - Len(s) + (i + 2)
      BY <1>1, <2>1
    <3> QED
      BY <1>1, <3>1 DEF Place
  <2>2. CASE ~(i + 2 <= Len(s))
    <3>1. i + 2 \notin 1 .. Len(s) /\ k + 1 \notin 1 .. Len(t)
      BY <1>1, <2>2
    <3> QED
      BY <3>1 DEF Place
  <2> QED
    BY <2>1, <2>2
<1>5. EndsWith(t, s, i + 1)
  <2>1. Len(s) - (i + 1) <= Len(t) /\ \A j \in (i + 1) + 1 .. Len(s) : j \in i + 1 .. Len(s)
    BY <1>1
  <2> QED
    BY <1>1, <2>1 DEF EndsWith
<1> QED
  BY <1>2, <1>3, <1>4, <1>5 DEF NextEnd

LEMMA AppendNext ==
    ASSUME NEW s \in Seq(Entries), NEW u \in Seq(Entries), Len(u) + 1 <= Len(s),
           \A j \in 1 .. Len(u) : u[j] = s[j]
    PROVE  LET v == Append(u, s[Len(u) + 1]) IN
           /\ v \in Seq(Entries) /\ Len(v) = Len(u) + 1
           /\ \A j \in 1 .. Len(v) : v[j] = s[j]
<1> DEFINE v == Append(u, s[Len(u) + 1])
<1>1. Len(u) \in Nat /\ Len(s) \in Nat /\ s[Len(u) + 1] \in Entries
  <2>1. Len(u) \in Nat /\ Len(s) \in Nat
    BY LenProperties
  <2>2. Len(u) + 1 \in 1 .. Len(s)
    BY <2>1
  <2> QED
    BY <2>1, <2>2, ElementOfSeq
<1>2. /\ v \in Seq(Entries) /\ Len(v) = Len(u) + 1
      /\ \A j \in 1 .. Len(u) : v[j] = u[j]
      /\ v[Len(u) + 1] = s[Len(u) + 1]
  BY <1>1, AppendProperties
<1> HIDE DEF v
<1>3. \A j \in 1 .. Len(v) : v[j] = s[j]
  BY <1>1, <1>2
<1> QED
  BY <1>2, <1>3 DEF v

LEMMA StepWalkKeeps ==
    ASSUME ListInv, StepWalk
    PROVE  ListInv'
<1> DEFINE q == Lists(mem)
           all == walk.all
           i == Len(walk.seen) + 1
           h == walk.head
<1>0. /\ Represents(mem, q) /\ q \in Arrangements
      /\ mem' = mem /\ walk.kind # "none" /\ walk.pos # walk.head
      /\ walk' = [walk EXCEPT
                    !.seen = Append(@, walk.pos),
                    !.pos = IF walk.kind = "safe" THEN walk.n ELSE mem.next[walk.pos],
                    !.n = IF walk.kind = "safe" THEN mem.next[walk.n] ELSE Poison]
  BY DEF ListInv, Represents, StepWalk
<1>1. /\ walk.kind \in {"plain", "safe"} /\ h \in Heads
      /\ all \in Seq(Entries)
      /\ \A j \in 1 .. Len(all) : \A k \in 1 .. Len(all) : all[j] = all[k] => j = k
      /\ walk.seen \in Seq(Entries) /\ Len(walk.seen) <= Len(all)
      /\ \A j \in 1 .. Len(walk.seen) : walk.seen[j] = all[j]
      /\ walk.pos = Place(all, h, i)
      /\ walk.kind = "plain" => q[h] = all
      /\ walk.kind = "safe" /\ i <= Len(all) =>
           /\ walk.n = Place(all, h, i + 1)
           /\ EndsWith(q[h], all, i)
  BY <1>0 DEF ListInv, WalkInv
<1>2. /\ Len(all) \in Nat /\ Len(walk.seen) \in Nat /\ i \in Nat /\ q[h] \in Seq(Entries)
      /\ Len(q[h]) \in Nat
  BY <1>0, <1>1, LenProperties, SeqFacts
<1>3. i \in 1 .. Len(all) /\ walk.pos = all[i] /\ walk.pos \in Entries
  <2>1. i \in 1 .. Len(all) /\ walk.pos = all[i]
    BY <1>0, <1>1 DEF Place
  <2> QED
    BY <1>1, <2>1, ElementOfSeq
<1>4. /\ walk' \in Walks
      /\ walk'.kind = walk.kind /\ walk'.head = h /\ walk'.all = all
      /\ walk'.seen = Append(walk.seen, walk.pos)
      /\ walk'.pos = IF walk.kind = "safe" THEN walk.n ELSE mem.next[walk.pos]
      /\ walk'.n = IF walk.kind = "safe" THEN mem.next[walk.n] ELSE Poison
  <2>1. walk \in Walks /\ mem \in Memories
    BY DEF ListInv, Represents
  <2>2. walk.pos \in Nodes /\ mem.next[walk.pos] \in Nodes \cup {Poison}
    BY <1>3, <2>1 DEF Nodes, Memories
  <2>3. walk.kind = "safe" => mem.next[walk.n] \in Nodes \cup {Poison}
    <3>1. walk.kind = "safe" => walk.n \in Nodes
      <4>1. walk.kind = "safe" => walk.n = Place(all, h, i + 1)
        BY <1>1, <1>2, <1>3
      <4>2. Place(all, h, i + 1) \in Nodes
        BY <1>1, ElementOfSeq DEF Place, Nodes
      <4> QED
        BY <4>1, <4>2
    <3> QED
      BY <2>1, <3>1 DEF Memories
  <2>4. Append(walk.seen, walk.pos) \in Seq(Entries)
    BY <1>1, <1>3, AppendProperties
  <2> QED
    BY <1>0, <2>1, <2>2, <2>3, <2>4 DEF Walks
<1>5. /\ walk'.seen \in Seq(Entries) /\ Len(walk'.seen) = i /\ Len(walk'.seen) <= Len(all)
      /\ \A j \in 1 .. Len(walk'.seen) : walk'.seen[j] = all[j]
  <2>1. /\ walk'.seen = Append(walk.seen, all[Len(walk.seen) + 1])
        /\ Len(walk.seen) + 1 <= Len(all)
    BY <1>2, <1>3, <1>4
  <2>2. LET v == Append(walk.seen, all[Len(walk.seen) + 1]) IN
        /\ v \in Seq(Entries) /\ Len(v) = Len(walk.seen) + 1
        /\ \A j \in 1 .. Len(v) : v[j] = all[j]
    BY <1>1, <2>1, AppendNext
  <2> QED
    BY <2>1, <2>2
<1>6. walk'.pos = Place(all, h, i + 1)
  <2>1. CASE walk.kind = "safe"
    BY <1>1, <1>2, <1>3, <1>4, <2>1
  <2>2. CASE walk.kind = "plain"
    <3>1. q[h] = all
      BY <1>1, <2>2
    <3>2. mem.next[q[h][i]] = Node(q, h, i + 1)
      <4> HIDE DEF i, q, all, h
      <4> QED
        BY <1>0, <1>1, <1>3, <3>1, OnARing
    <3> QED
      BY <1>3, <1>4, <2>2, <3>1, <3>2 DEF Node, Place
  <2> QED
    BY <1>1, <2>1, <2>2
<1>7. ASSUME walk.kind = "safe", i + 1 <= Len(all)
      PROVE  /\ walk'.n = Place(all, h, i + 2)
             /\ EndsWith(q[h], all, i + 1)
  <2>1. /\ walk.n = Place(all, h, i + 1) /\ EndsWith(q[h], all, i)
    BY <1>1, <1>3, <1>7
  <2> HIDE DEF i, q, all, h
  <2>6. /\ all \in Seq(Entries) /\ q[h] \in Seq(Entries) /\ i \in Nat /\ i + 1 <= Len(all)
        /\ EndsWith(q[h], all, i)
    BY <1>1, <1>2, <1>7, <2>1
  <2>7. /\ \E k \in 1 .. Len(q[h]) : /\ Place(all, h, i + 1) = q[h][k]
                                     /\ Place(all, h, i + 2) = Place(q[h], h, k + 1)
        /\ EndsWith(q[h], all, i + 1)
    <3>1. NextEnd(q[h], all, i, h)
      BY <2>6, NextOfTheEnd
    <3> QED
      BY <3>1, Zenon DEF NextEnd
  <2>2. PICK k \in 1 .. Len(q[h]) : /\ Place(all, h, i + 1) = q[h][k]
                                    /\ Place(all, h, i + 2) = Place(q[h], h, k + 1)
    BY <2>7
  <2>3. EndsWith(q[h], all, i + 1)
    BY <2>7
  <2>4. mem.next[q[h][k]] = Node(q, h, k + 1)
    BY <1>0, <1>1, OnARing
  <2>5. Node(q, h, k + 1) = Place(q[h], h, k + 1)
    BY DEF Node, Place
  <2> QED
    BY <1>4, <1>7, <2>1, <2>2, <2>3, <2>4, <2>5
<1>8. Lists(mem)' = q
  BY <1>0
<1>9. WalkInv'
  <2> HIDE DEF q, i
  <2>1. /\ walk'.kind = "plain" => q[h] = all
    BY <1>1, <1>4
  <2>2. walk'.kind = "safe" /\ i + 1 <= Len(all) =>
           /\ walk'.n = Place(all, h, i + 2)
           /\ EndsWith(q[h], all, i + 1)
    BY <1>4, <1>7
  <2>3. (i + 1) + 1 = i + 2
    BY <1>2
  <2> QED
    BY <1>1, <1>4, <1>5, <1>6, <1>8, <2>1, <2>2, <2>3 DEF WalkInv
<1> QED
  BY <1>0, <1>4, <1>8, <1>9 DEF ListInv

-----------------------------------------------------------------------------
(* The theorems.                                                           *)

LEMMA EmptyArrangement ==
    ASSUME mem = [next |-> [n \in Nodes |-> n], prev |-> [n \in Nodes |-> n]]
    PROVE  Represents(mem, [h \in Heads |-> <<>>])
<1> DEFINE q == [h \in Heads |-> <<>>]
<1>1. mem \in Memories /\ \A n \in Nodes : mem.next[n] = n /\ mem.prev[n] = n
  BY DEF Memories
<1>2. q \in Arrangements /\ \A h \in Heads : q[h] = <<>> /\ Len(q[h]) = 0
  BY EmptySeq DEF Arrangements
<1> HIDE DEF q
<1>3. Distinct(q)
  BY <1>2 DEF Distinct
<1>4. \A h \in Heads : h \in Nodes /\ \A i : Node(q, h, i) = h
  BY <1>2 DEF Node, Nodes
<1>5. \A h \in Heads : Ring(mem, q, h)
  BY <1>1, <1>4 DEF Ring
<1>6. \A e \in Entries : LooseEntry(mem, e)
  BY <1>1 DEF LooseEntry, Nodes
<1> QED
  BY <1>1, <1>2, <1>3, <1>5, <1>6 DEF Represents, q

LEMMA InitIsRight ==
    ListInit => ListInv /\ Q!Init
<1> SUFFICES ASSUME ListInit PROVE ListInv /\ Q!Init
  OBVIOUS
<1>1. Represents(mem, [h \in Heads |-> <<>>])
  BY EmptyArrangement DEF ListInit
<1>2. Lists(mem) = [h \in Heads |-> <<>>]
  BY <1>1, ListsOfMemory
<1>3. walk \in Walks /\ walk.kind = "none"
  BY EmptySeq DEF ListInit, NoWalk, Walks
<1> QED
  BY <1>1, <1>2, <1>3 DEF ListInv, WalkInv, Q!Init

(* Under every call the pointers go on standing for sequences, a loop      *)
(* stays at the entry it should be at, and the sequences do what Queues    *)
(* says of the call.                                                       *)
LEMMA NextIsRight ==
    ASSUME ListInv, [ListNext]_listVars
    PROVE  ListInv' /\ (Q!Next \/ UNCHANGED Lists(mem))
<1>1. CASE UNCHANGED listVars
  <2>1. mem' = mem /\ walk' = walk
    BY <1>1 DEF listVars
  <2>2. Lists(mem)' = Lists(mem)
    BY <2>1
  <2>3. WalkInv'
    BY <2>1, <2>2 DEF ListInv, WalkInv
  <2> QED
    BY <2>1, <2>2, <2>3 DEF ListInv
<1>2. ASSUME NEW h \in Heads, NEW kind \in {"plain", "safe"}, BeginWalk(kind, h)
      PROVE  ListInv' /\ UNCHANGED Lists(mem)
  BY <1>2, BeginWalkKeeps DEF BeginWalk
<1>3. CASE StepWalk
  BY <1>3, StepWalkKeeps DEF StepWalk
<1>4. CASE EndWalk
  <2>1. mem' = mem /\ walk' \in Walks /\ walk'.kind = "none"
    BY <1>4, EmptySeq DEF EndWalk, NoWalk, Walks
  <2>2. Lists(mem)' = Lists(mem)
    BY <2>1
  <2> QED
    BY <2>1, <2>2 DEF ListInv, WalkInv
<1>5. ASSUME NEW e \in Entries, Delete(e)
      PROVE  ListInv' /\ Q!Delete(e)
  BY <1>5, DeleteStep, CallKeepsWalk DEF Delete
<1>6. ASSUME NEW e \in Entries, NEW h \in Heads, Add(e, h)
      PROVE  ListInv' /\ (Q!AddFirst(e, h) \/ Q!AddLast(e, h))
  BY <1>6, AddStep, CallKeepsWalk DEF Add
<1>7. ASSUME NEW e \in Entries, NEW h \in Heads, Move(e, h)
      PROVE  ListInv' /\ (Q!MoveFirst(e, h) \/ Q!MoveLast(e, h))
  BY <1>7, MoveStep, CallKeepsWalk DEF Move
<1>8. ASSUME NEW e \in Entries, NEW f \in Entries, Replace(e, f)
      PROVE  ListInv' /\ Q!Replace(e, f)
  BY <1>8, ReplaceStep, CallKeepsWalk DEF Replace
<1>9. ASSUME NEW h \in Heads, Rotate(h)
      PROVE  ListInv' /\ Q!RotateLeft(h)
  BY <1>9, RotateStep, CallKeepsWalk DEF Rotate
<1>10. ASSUME NEW g \in Heads, NEW h \in Heads, Splice(g, h)
       PROVE  ListInv' /\ (Q!SpliceFirst(g, h) \/ Q!SpliceLast(g, h))
  BY <1>10, SpliceStep, CallKeepsWalk DEF Splice
<1>11. ASSUME NEW g \in Heads, NEW h \in Heads, NEW e \in Nodes, CutList(g, h, e)
       PROVE  /\ ListInv'
              /\ \/ \E n \in 0 .. Len(Lists(mem)[h]) : Q!Cut(g, h, n)
                 \/ UNCHANGED Lists(mem)
  BY <1>11, CutStep, CallKeepsWalk DEF CutList
<1> QED
  BY <1>1, <1>2, <1>3, <1>4, <1>5, <1>6, <1>7, <1>8, <1>9, <1>10, <1>11 DEF ListNext, Q!Next

LEMMA RingsFollow == ListInv => RingsAreWhole /\ ListTypeOK
<1> SUFFICES ASSUME ListInv PROVE RingsAreWhole /\ ListTypeOK
  OBVIOUS
<1> DEFINE q == Lists(mem)
<1>1. Represents(mem, q) /\ q \in Arrangements /\ mem \in Memories
  BY DEF ListInv, Represents
<1>2. ASSUME NEW h \in Heads, NEW i \in 0 .. Len(q[h])
      PROVE  /\ Node(q, h, i) \in Nodes /\ Node(q, h, i + 1) \in Nodes
             /\ mem.next[Node(q, h, i)] = Node(q, h, i + 1)
             /\ mem.prev[Node(q, h, i + 1)] = Node(q, h, i)
  <2>1. i \in 0 .. Len(q[h]) + 1 /\ i + 1 \in 0 .. Len(q[h]) + 1
    BY <1>1, SeqFacts
  <2> QED
    BY <1>1, <2>1, NodeFacts DEF Represents, Ring
<1>3. ASSUME NEW n \in Nodes, NEW h \in Heads, NEW i \in 1 .. Len(q[h]) + 1, n = Node(q, h, i),
             n = Node(q, h, IF i = Len(q[h]) + 1 THEN 0 ELSE i)
      PROVE  /\ mem.next[n] # Poison /\ mem.prev[n] # Poison
             /\ mem.prev[mem.next[n]] = n /\ mem.next[mem.prev[n]] = n
  <2> DEFINE j == IF i = Len(q[h]) + 1 THEN 0 ELSE i
  <2>1. /\ Len(q[h]) \in Nat /\ j \in 0 .. Len(q[h]) /\ i - 1 \in 0 .. Len(q[h])
        /\ (i - 1) + 1 = i
    BY <1>1, SeqFacts
  <2> HIDE DEF q, j
  <2>2. mem.next[n] = Node(q, h, j + 1) /\ mem.prev[Node(q, h, j + 1)] = n /\ mem.next[n] \in Nodes
    BY <1>2, <1>3, <2>1 DEF j
  <2>3. /\ mem.prev[Node(q, h, (i - 1) + 1)] = Node(q, h, i - 1)
        /\ mem.next[Node(q, h, i - 1)] = Node(q, h, (i - 1) + 1) /\ Node(q, h, i - 1) \in Nodes
    BY <1>2, <2>1
  <2>4. mem.prev[n] = Node(q, h, i - 1) /\ mem.next[Node(q, h, i - 1)] = n
    BY <1>3, <2>1, <2>3
  <2> QED
    BY <2>2, <2>3, <2>4, NodesAssumption
<1>4. ASSUME NEW n \in Heads
      PROVE  /\ mem.next[n] # Poison /\ mem.prev[n] # Poison
             /\ mem.prev[mem.next[n]] = n /\ mem.next[mem.prev[n]] = n
  <2>1. Node(q, n, Len(q[n]) + 1) = n /\ Node(q, n, 0) = n /\ Len(q[n]) + 1 \in 1 .. Len(q[n]) + 1
    BY <1>1, NodeFacts, SeqFacts
  <2> QED
    BY <1>3, <2>1 DEF Nodes
<1>5. ASSUME NEW n \in Entries
      PROVE  /\ mem.next[n] = Poison <=> mem.prev[n] = Poison
             /\ mem.next[n] # Poison => mem.prev[mem.next[n]] = n
             /\ mem.prev[n] # Poison => mem.next[mem.prev[n]] = n
  <2>1. CASE Free(q, n)
    BY <1>1, <2>1 DEF Represents, LooseEntry
  <2>2. CASE ~Free(q, n)
    <3>1. PICK h \in Heads : \E i \in 1 .. Len(q[h]) : q[h][i] = n
      BY <2>2 DEF Free
    <3>2. PICK i \in 1 .. Len(q[h]) : q[h][i] = n
      BY <3>1
    <3>3. i \in 1 .. Len(q[h]) + 1 /\ i # Len(q[h]) + 1 /\ n = Node(q, h, i) /\ n \in Nodes
      BY <1>1, <3>2, SeqFacts DEF Node, Nodes
    <3> QED
      BY <1>3, <3>3
  <2> QED
    BY <2>1, <2>2
<1>6. RingsAreWhole
  BY <1>4, <1>5, NodesAssumption DEF RingsAreWhole, Nodes
<1>7. ListTypeOK
  BY <1>1 DEF ListTypeOK, Memories, ListInv, Walks
<1> QED
  BY <1>6, <1>7

LEMMA WalksFollow == ListInv => WalksVisitAll
<1> SUFFICES ASSUME ListInv, walk.kind # "none"
             PROVE  /\ walk.pos # Poison
                    /\ LET been == walk.seen \o (IF walk.pos = walk.head THEN <<>> ELSE <<walk.pos>>)
                       IN  /\ Len(been) <= Len(walk.all)
                           /\ been = SubSeq(walk.all, 1, Len(been))
                    /\ walk.pos = walk.head => walk.seen = walk.all
  BY DEF WalksVisitAll
<1> DEFINE all == walk.all
           seen == walk.seen
           h == walk.head
<1>1. /\ h \in Heads /\ all \in Seq(Entries) /\ seen \in Seq(Entries) /\ Len(seen) <= Len(all)
      /\ \A j \in 1 .. Len(seen) : seen[j] = all[j]
      /\ walk.pos = Place(all, h, Len(seen) + 1)
  BY DEF ListInv, WalkInv
<1> HIDE DEF all, seen, h
<1>2. /\ Len(all) \in Nat /\ Len(seen) \in Nat
      /\ \A j \in 1 .. Len(all) : all[j] \in Entries /\ all[j] # h
  BY <1>1, LenProperties, ElementOfSeq, NodesAssumption
<1>3. ASSUME NEW k \in 0 .. Len(all), NEW s \in Seq(Entries), Len(s) = k,
             \A j \in 1 .. k : s[j] = all[j]
      PROVE  s = SubSeq(all, 1, Len(s))
  <2>1. /\ SubSeq(all, 1, k) \in Seq(Entries) /\ Len(SubSeq(all, 1, k)) = k
        /\ \A j \in 1 .. k : SubSeq(all, 1, k)[j] = all[j]
    BY <1>1, <1>2, SubSeqProperties
  <2> QED
    BY <1>3, <2>1, SeqEqual
<1>4. CASE Len(seen) = Len(all)
  <2>1. Len(seen) + 1 \notin 1 .. Len(all)
    BY <1>2, <1>4
  <2>2. walk.pos = h
    BY <1>1, <2>1 DEF Place
  <2>3. seen = SubSeq(all, 1, Len(seen))
    BY <1>1, <1>2, <1>3
  <2>4. SubSeq(all, 1, Len(all)) = all
    BY <1>1, SubSeqFull
  <2>5. seen \o <<>> = seen
    BY <1>1, ConcatEmptySeq
  <2>6. walk.pos # Poison
    BY <1>1, <2>2, NodesAssumption DEF Nodes
  <2> QED
    BY <1>1, <1>4, <2>2, <2>3, <2>4, <2>5, <2>6 DEF all, seen, h
<1>5. CASE Len(seen) # Len(all)
  <2>1. Len(seen) + 1 \in 1 .. Len(all) /\ Len(seen) + 1 \in 0 .. Len(all)
    BY <1>1, <1>2, <1>5
  <2>2. walk.pos = all[Len(seen) + 1]
    BY <1>1, <2>1 DEF Place
  <2>3. walk.pos \in Entries /\ walk.pos # h /\ walk.pos # Poison
    BY <1>2, <2>1, <2>2, NodesAssumption DEF Nodes
  <2> DEFINE been == seen \o <<walk.pos>>
  <2>4. /\ been \in Seq(Entries) /\ Len(been) = Len(seen) + 1
        /\ \A j \in 1 .. Len(seen) + 1 : been[j] = IF j <= Len(seen) THEN seen[j]
                                                  ELSE <<walk.pos>>[j - Len(seen)]
    <3>1. <<walk.pos>> \in Seq(Entries) /\ Len(<<walk.pos>>) = 1
      BY <2>3
    <3> QED
      BY <1>1, <3>1, ConcatProperties
  <2> HIDE DEF been
  <2>5. \A j \in 1 .. Len(seen) + 1 : been[j] = all[j]
    <3> SUFFICES ASSUME NEW j \in 1 .. Len(seen) + 1 PROVE been[j] = all[j]
      OBVIOUS
    <3>1. CASE j <= Len(seen)
      BY <1>1, <1>2, <2>4, <3>1
    <3>2. CASE j = Len(seen) + 1
      <4>1. j - Len(seen) = 1 /\ ~(j <= Len(seen))
        BY <1>2, <3>2
      <4> QED
        BY <2>2, <2>4, <3>2, <4>1
    <3> QED
      BY <1>2, <3>1, <3>2
  <2>6. been = SubSeq(all, 1, Len(been)) /\ Len(been) <= Len(all)
    BY <1>2, <1>3, <2>1, <2>4, <2>5
  <2> QED
    BY <2>3, <2>6 DEF been, all, seen, h
<1> QED
  BY <1>4, <1>5

(* list_head.h: no call leaves half a link behind, or a pointer to what    *)
(* was deleted.                                                            *)
THEOREM RingsAreWholeAlways == ListSpec => []RingsAreWhole
<1>1. ListInit => ListInv
  BY InitIsRight
<1>2. ListInv /\ [ListNext]_listVars => ListInv'
  BY NextIsRight
<1>3. ListInv => RingsAreWhole
  BY RingsFollow
<1> QED
  BY <1>1, <1>2, <1>3, PTL DEF ListSpec

(* list_for_each_entry and its _safe form: a loop is at each entry of its  *)
(* list once, in order, whatever its body does to other lists and, in the  *)
(* _safe form, to the entry it is at.                                      *)
THEOREM WalksVisitAllAlways == ListSpec => []WalksVisitAll
<1>1. ListInit => ListInv
  BY InitIsRight
<1>2. ListInv /\ [ListNext]_listVars => ListInv'
  BY NextIsRight
<1>3. ListInv => WalksVisitAll
  BY WalksFollow
<1> QED
  BY <1>1, <1>2, <1>3, PTL DEF ListSpec

(* list_head.h: the lists are sequences in which an entry is once, and the *)
(* calls are what Queues says they are.                                    *)
THEOREM QueuesAlways == ListSpec => QueuesSpec
<1>1. ListInit => ListInv /\ Q!Init
  BY InitIsRight
<1>2. ListInv /\ [ListNext]_listVars => ListInv' /\ [Q!Next]_(Lists(mem))
  BY NextIsRight
<1> QED
  BY <1>1, <1>2, PTL DEF ListSpec, QueuesSpec, Q!Spec

-----------------------------------------------------------------------------
(* Words: the characters of the line that count are left as they were, and *)
(* the pointers are where words start.                                     *)

Characters == WordChars \cup {EndOfString}
Image == {pointers[n] : n \in DOMAIN pointers}
StartsBefore(s, c) == {p \in Starts(s) : p < c}

(* The blanks behind curr are NULs by now, the words that begin behind it  *)
(* have their pointers.                                                    *)
LineOf(k) ==
    /\ typed \in [1 .. k -> WordChars] /\ program \in {"pa1", "pa2", "pa4"}
    /\ curr \in 1 .. k + 1 /\ comment \in Nat \ {0}
    /\ command \in [1 .. k + 1 -> Characters]
    /\ \A p \in 1 .. k : command[p] = IF p < curr /\ typed[p] = " " THEN EndOfString
                                      ELSE typed[p]
    /\ command[k + 1] = EndOfString
    /\ token_started \in BOOLEAN
    /\ token_started <=> (curr > 1 /\ typed[curr - 1] # " ")
LineInv == typed \in Seq(WordChars) /\ LineOf(Len(typed))
PointersInv ==
    /\ pointers \in Seq(1 .. Len(typed))
    /\ \A m, n \in 1 .. Len(pointers) : m < n => pointers[m] < pointers[n]
    /\ wpc = "return" => Image = KeptStarts(typed)
    /\ wpc # "return" => Image = StartsBefore(typed, curr)
WordsPhase ==
    /\ wpc \in {"split", "comments", "return", "smashed"}
    /\ wpc \in {"split", "comments"} => Len(pointers) =< MaxTokens
    /\ wpc = "smashed" => Len(pointers) > MaxTokens
    /\ wpc \in {"comments", "return"} => curr = Len(typed) + 1
    /\ wpc = "comments" =>
          /\ program # "pa1" /\ comment =< Len(pointers) + 1
          /\ \A n \in 1 .. comment - 1 : typed[pointers[n]] # "#"
    /\ wpc = "split" => comment = 1
    /\ wpc = "return" => Cardinality(Starts(typed)) =< MaxTokens
WordsInv == LineInv /\ PointersInv /\ WordsPhase

(* Pointers that grow are as many as the places they point to.             *)
LEMMA ImageSize ==
    ASSUME NEW s, NEW k \in Nat, s \in Seq(1 .. k),
           \A m, n \in 1 .. Len(s) : m < n => s[m] < s[n]
    PROVE  Cardinality({s[n] : n \in DOMAIN s}) = Len(s)
<1> DEFINE T == {s[n] : n \in DOMAIN s}
           f == [n \in 1 .. Len(s) |-> s[n]]
<1>1. Len(s) \in Nat /\ DOMAIN s = 1 .. Len(s) /\ \A n \in 1 .. Len(s) : s[n] \in Nat
  BY LenProperties, ElementOfSeq
<1>2. f \in [1 .. Len(s) -> T]
  BY <1>1
<1>3. \A m, n \in 1 .. Len(s) : f[m] = f[n] => m = n
  BY <1>1
<1>4. \A t \in T : \E n \in 1 .. Len(s) : f[n] = t
  BY <1>1
<1>5. f \in Bijection(1 .. Len(s), T)
  <2>1. f \in Injection(1 .. Len(s), T)
    <3> HIDE DEF f, T
    <3> QED
      BY <1>2, <1>3 DEF Injection, IsInjective
  <2>2. f \in Surjection(1 .. Len(s), T)
    <3> HIDE DEF f, T
    <3> QED
      BY <1>2, <1>4 DEF Surjection
  <2> QED
    BY <2>1, <2>2 DEF Bijection
<1>6. IsFiniteSet(1 .. Len(s)) /\ Cardinality(1 .. Len(s)) = Len(s)
  <2>1. PICK m \in Nat : m = Len(s)
    BY <1>1
  <2>2. IsFiniteSet(1 .. m) /\ Cardinality(1 .. m) = m
    BY FS_Interval
  <2> QED
    BY <2>1, <2>2
<1> QED
  BY <1>5, <1>6, FS_Bijection DEF ExistsBijection

(* The length of the line under a name of its own.                         *)
LEMMA LineLength ==
    ASSUME LineInv
    PROVE  \E k \in Nat : k = Len(typed) /\ LineOf(k)
BY LenProperties DEF LineInv

LEMMA StartFacts ==
    ASSUME NEW k \in Nat, LineOf(k)
    PROVE  Starts(typed) =
             {p \in 1 .. k : typed[p] # " " /\ (p = 1 \/ typed[p - 1] = " ")}
<1>1. DOMAIN typed = 1 .. k
  BY DEF LineOf
<1> QED
  BY <1>1 DEF Starts

LEMMA PointerFacts ==
    ASSUME LineInv, PointersInv
    PROVE  /\ Len(pointers) \in Nat /\ DOMAIN pointers = 1 .. Len(pointers)
           /\ \A n \in 1 .. Len(pointers) : pointers[n] \in 1 .. Len(typed) /\ pointers[n] \in Image
           /\ \A p \in Image : \E n \in 1 .. Len(pointers) : p = pointers[n]
           /\ Cardinality(Image) = Len(pointers)
<1>1. pointers \in Seq(1 .. Len(typed)) /\ Len(typed) \in Nat
  BY LineLength DEF PointersInv
<1>2. /\ Len(pointers) \in Nat /\ DOMAIN pointers = 1 .. Len(pointers)
      /\ \A n \in 1 .. Len(pointers) : pointers[n] \in 1 .. Len(typed)
  BY <1>1, LenProperties, ElementOfSeq
<1>3. Cardinality(Image) = Len(pointers)
  BY <1>1, <1>2, ImageSize DEF PointersInv, Image
<1> QED
  BY <1>2, <1>3 DEF Image

LEMMA InitWords == WordsInit => WordsInv
<1> SUFFICES ASSUME WordsInit PROVE WordsInv
  OBVIOUS
<1>1. /\ typed \in Seq(WordChars) /\ program \in {"pa1", "pa2", "pa4"}
      /\ command = Append(typed, EndOfString) /\ curr = 1 /\ token_started = FALSE
      /\ pointers = <<>> /\ comment = 1 /\ wpc = "split"
  BY CommandsAssumption, ProgramsAssumption DEF WordsInit
<1>2. PICK k \in Nat : k = Len(typed) /\ typed \in [1 .. k -> WordChars]
  BY <1>1, LenProperties
<1>3. /\ command \in [1 .. k + 1 -> Characters]
      /\ \A p \in 1 .. k : command[p] = typed[p]
      /\ command[k + 1] = EndOfString
  <2>1. typed \in Seq(Characters) /\ EndOfString \in Characters
    BY <1>1, SeqMonotonic DEF Characters
  <2>2. /\ command \in Seq(Characters) /\ Len(command) = k + 1
        /\ \A p \in 1 .. k : command[p] = typed[p]
        /\ command[k + 1] = EndOfString
    BY <1>1, <1>2, <2>1, AppendProperties
  <2> QED
    BY <2>2, LenProperties
<1>4. LineOf(k) /\ LineInv
  <2>1. curr \in 1 .. k + 1 /\ comment \in Nat \ {0} /\ ~(curr > 1)
    BY <1>1, <1>2
  <2>2. \A p \in 1 .. k : ~(p < curr)
    BY <1>1
  <2>3. \A p \in 1 .. k : command[p] = IF p < curr /\ typed[p] = " " THEN EndOfString
                                        ELSE typed[p]
    BY <1>3, <2>2
  <2>4. token_started \in BOOLEAN /\ (token_started <=> (curr > 1 /\ typed[curr - 1] # " "))
    BY <1>1, <2>1
  <2>5. LineOf(k)
    BY <1>1, <1>2, <1>3, <2>1, <2>3, <2>4, Zenon DEF LineOf
  <2> QED
    BY <1>1, <1>2, <2>5 DEF LineInv
<1>5. PointersInv
  <2>1. pointers \in Seq(1 .. Len(typed)) /\ Len(pointers) = 0
    BY <1>1
  <2>2. Image = {}
    BY <1>1 DEF Image
  <2>3. StartsBefore(typed, curr) = {}
    <3>1. Starts(typed) \subseteq 1 .. k
      BY <1>4, StartFacts
    <3> QED
      BY <1>1, <3>1 DEF StartsBefore
  <2> QED
    BY <1>1, <2>1, <2>2, <2>3 DEF PointersInv
<1>6. WordsPhase
  <2>1. Len(pointers) = 0
    BY <1>1
  <2> QED
    BY <1>1, <2>1, MaxTokensAssumption DEF WordsPhase
<1> QED
  BY <1>4, <1>5, <1>6 DEF WordsInv

(* A round over a character that is not the NUL.                           *)
LEMMA WhereCurrIs ==
    ASSUME NEW k \in Nat, LineOf(k)
    PROVE  curr \in 1 .. k \/ curr = k + 1
<1>1. curr \in 1 .. k + 1
  BY Zenon DEF LineOf
<1> QED
  BY <1>1

LEMMA Characterwise ==
    ASSUME NEW k \in Nat, LineOf(k)
    PROVE  /\ command \in [1 .. k + 1 -> Characters] /\ command[k + 1] = EndOfString
           /\ \A p \in 1 .. k : command[p] = IF p < curr /\ typed[p] = " " THEN EndOfString
                                             ELSE typed[p]
           /\ \A p \in 1 .. k : typed[p] # EndOfString
<1>1. /\ command \in [1 .. k + 1 -> Characters] /\ command[k + 1] = EndOfString
      /\ \A p \in 1 .. k : command[p] = IF p < curr /\ typed[p] = " " THEN EndOfString
                                        ELSE typed[p]
      /\ typed \in [1 .. k -> WordChars]
  BY Zenon DEF LineOf
<1> QED
  BY <1>1 DEF WordChars, EndOfString

LEMMA NotTheEnd ==
    ASSUME NEW k \in Nat, LineOf(k), command[curr] # EndOfString
    PROVE  curr \in 1 .. k /\ command[curr] = typed[curr]
<1>1. curr \in 1 .. k
  BY WhereCurrIs, Characterwise
<1> QED
  BY <1>1, Characterwise

LEMMA TheEnd ==
    ASSUME NEW k \in Nat, LineOf(k), command[curr] = EndOfString
    PROVE  curr = k + 1
<1> SUFFICES ASSUME curr \in 1 .. k
             PROVE  FALSE
  BY WhereCurrIs
<1>1. PICK q \in 1 .. k : q = curr
  OBVIOUS
<1>2. /\ command[q] = IF q < curr /\ typed[q] = " " THEN EndOfString ELSE typed[q]
      /\ typed[q] # EndOfString
  BY Characterwise
<1>3. ~(q < curr)
  BY <1>1
<1> QED
  BY <1>1, <1>2, <1>3

LEMMA SplitKeepsLine ==
    ASSUME NEW k \in Nat, LineOf(k), Split, command[curr] # EndOfString
    PROVE  LineOf(k)'
<1>1. /\ curr \in 1 .. k /\ command[curr] = typed[curr]
      /\ curr' = curr + 1 /\ UNCHANGED <<program, typed, comment>>
  BY NotTheEnd DEF Split
<1>2. curr' \in 1 .. k + 1 /\ curr' - 1 = curr /\ curr' > 1
      /\ \A p \in 1 .. k : p < curr' <=> p < curr \/ p = curr
  BY <1>1
<1>3. CASE command[curr] = " "
  <2>1. command' = [command EXCEPT ![curr] = EndOfString] /\ token_started' = FALSE
    BY <1>3 DEF Split
  <2>2. /\ command' \in [1 .. k + 1 -> Characters] /\ command'[k + 1] = EndOfString
        /\ \A p \in 1 .. k : command'[p] = IF p = curr THEN EndOfString ELSE command[p]
    <3>1. command \in [1 .. k + 1 -> Characters] /\ command[k + 1] = EndOfString
      BY Characterwise
    <3>2. EndOfString \in Characters /\ curr \in 1 .. k + 1 /\ curr # k + 1
      BY <1>1 DEF Characters
    <3> QED
      BY <2>1, <3>1, <3>2
  <2>3. \A p \in 1 .. k : command'[p] = IF p < curr' /\ typed[p] = " " THEN EndOfString
                                        ELSE typed[p]
    BY <1>1, <1>2, <1>3, <2>2, Characterwise
  <2> QED
    BY <1>1, <1>2, <1>3, <2>1, <2>2, <2>3 DEF LineOf
<1>4. CASE command[curr] # " "
  <2>1. command' = command /\ token_started' = TRUE
    BY <1>4 DEF Split
  <2>2. \A p \in 1 .. k : command'[p] = IF p < curr' /\ typed[p] = " " THEN EndOfString
                                        ELSE typed[p]
    BY <1>1, <1>2, <1>4, <2>1, Characterwise
  <2> QED
    BY <1>1, <1>2, <1>4, <2>1, <2>2 DEF LineOf
<1> QED
  BY <1>3, <1>4

(* Whether the character at curr begins a word.                            *)
LEMMA NextStart ==
    ASSUME NEW k \in Nat, LineOf(k), curr \in 1 .. k
    PROVE  StartsBefore(typed, curr + 1)
             = StartsBefore(typed, curr) \cup
               (IF typed[curr] # " " /\ ~token_started THEN {curr} ELSE {})
<1>1. \A p \in 1 .. k : p < curr + 1 <=> p < curr \/ p = curr
  OBVIOUS
<1>2. token_started <=> (curr # 1 /\ typed[curr - 1] # " ")
  <2>1. token_started <=> (curr > 1 /\ typed[curr - 1] # " ")
    BY Zenon DEF LineOf
  <2>2. curr > 1 <=> curr # 1
    OBVIOUS
  <2> QED
    BY <2>1, <2>2, Zenon
<1>3. PICK S : S = Starts(typed)
  OBVIOUS
<1>4. curr \in S <=> typed[curr] # " " /\ ~token_started
  BY <1>2, <1>3, StartFacts
<1>5. S \subseteq 1 .. k
  BY <1>3, StartFacts
<1> QED
  BY <1>1, <1>3, <1>4, <1>5 DEF StartsBefore

LEMMA SplitKeepsPointers ==
    ASSUME WordsInv, Split, command[curr] # EndOfString
    PROVE  PointersInv' /\ WordsPhase'
<1>0. PICK k \in Nat : k = Len(typed) /\ LineOf(k) /\ LineInv /\ PointersInv
  BY LineLength DEF WordsInv
<1>1. /\ curr \in 1 .. k /\ command[curr] = typed[curr]
      /\ curr' = curr + 1 /\ typed' = typed /\ comment' = comment /\ comment = 1
      /\ wpc = "split" /\ Image = StartsBefore(typed, curr) /\ Len(pointers) =< MaxTokens
  BY <1>0, NotTheEnd DEF Split, WordsInv, PointersInv, WordsPhase
<1>2. CASE typed[curr] = " " \/ token_started
  <2>1. pointers' = pointers /\ wpc' = "split"
    <3>1. ~ (Len(pointers) > MaxTokens)
      BY <1>0, <1>1, PointerFacts, MaxTokensAssumption
    <3> QED
      BY <1>1, <1>2, <3>1 DEF Split
  <2>2. Image' = Image
    BY <2>1 DEF Image
  <2>3. StartsBefore(typed, curr)' = StartsBefore(typed, curr)
    BY <1>0, <1>1, <1>2, NextStart DEF StartsBefore
  <2>4. PointersInv'
    BY <1>0, <1>1, <2>1, <2>2, <2>3 DEF PointersInv
  <2>5. WordsPhase'
    BY <1>1, <2>1 DEF WordsPhase
  <2> QED
    BY <2>4, <2>5
<1>3. CASE typed[curr] # " " /\ ~token_started
  <2>1. /\ pointers' = Append(pointers, curr)
        /\ wpc' = IF Len(pointers') > MaxTokens THEN "smashed" ELSE wpc
    BY <1>1, <1>3 DEF Split
  <2>2. /\ pointers' \in Seq(1 .. Len(typed)) /\ Len(pointers') = Len(pointers) + 1
        /\ \A n \in 1 .. Len(pointers) : pointers'[n] = pointers[n]
        /\ pointers'[Len(pointers) + 1] = curr
    BY <1>0, <1>1, <2>1, AppendProperties DEF PointersInv
  <2>3. Len(pointers) \in Nat /\ \A n \in 1 .. Len(pointers) : pointers[n] < curr
    BY <1>0, <1>1, PointerFacts DEF StartsBefore
  <2>4. \A m, n \in 1 .. Len(pointers') : m < n => pointers'[m] < pointers'[n]
    <3> SUFFICES ASSUME NEW m \in 1 .. Len(pointers'), NEW n \in 1 .. Len(pointers'), m < n
                 PROVE  pointers'[m] < pointers'[n]
      OBVIOUS
    <3>0. PICK l \in Nat : l = Len(pointers) /\ Len(pointers') = l + 1
      BY <2>2, <2>3
    <3>1. m \in 1 .. Len(pointers) /\ (n \in 1 .. Len(pointers) \/ n = Len(pointers) + 1)
      BY <3>0
    <3> QED
      BY <1>0, <2>2, <2>3, <3>1 DEF PointersInv
  <2>5. Image' = Image \cup {curr}
    <3>1. DOMAIN pointers' = 1 .. Len(pointers) + 1 /\ DOMAIN pointers = 1 .. Len(pointers)
      BY <1>0, <2>2, PointerFacts, LenProperties
    <3>2. \A n : n \in 1 .. Len(pointers) + 1 <=> n \in 1 .. Len(pointers) \/ n = Len(pointers) + 1
      BY <2>3
    <3>3. Image' = {pointers'[n] : n \in 1 .. Len(pointers) + 1}
      BY <3>1 DEF Image
    <3>4. Image = {pointers[n] : n \in 1 .. Len(pointers)}
      BY <3>1 DEF Image
    <3>5. ASSUME NEW x
          PROVE  x \in Image' <=> x \in Image \cup {curr}
      BY <2>2, <3>2, <3>3, <3>4
    <3> QED
      BY <3>5
  <2>6. StartsBefore(typed, curr)' = Image \cup {curr}
    BY <1>0, <1>1, <1>3, NextStart DEF StartsBefore
  <2>7. wpc' # "return"
    BY <1>1, <2>1
  <2>8. PointersInv'
    BY <1>1, <2>2, <2>4, <2>5, <2>6, <2>7 DEF PointersInv
  <2>9. WordsPhase'
    BY <1>1, <2>1, <2>2, <2>3, MaxTokensAssumption DEF WordsPhase
  <2> QED
    BY <2>8, <2>9
<1> QED
  BY <1>2, <1>3

LEMMA AllStarts ==
    ASSUME NEW k \in Nat, LineOf(k), curr = k + 1
    PROVE  StartsBefore(typed, curr) = Starts(typed)
<1>1. Starts(typed) \subseteq 1 .. k
  BY StartFacts
<1>2. \A p \in 1 .. k : p < curr
  OBVIOUS
<1> QED
  BY <1>1, <1>2 DEF StartsBefore

LEMMA SplitKeepsWords ==
    ASSUME WordsInv, Split
    PROVE  WordsInv'
<1>0. PICK k \in Nat : k = Len(typed) /\ LineOf(k) /\ LineInv /\ PointersInv /\ WordsPhase
  BY LineLength DEF WordsInv
<1>1. CASE command[curr] # EndOfString
  <2>1. LineOf(k)' /\ typed' = typed
    BY <1>0, <1>1, SplitKeepsLine DEF Split
  <2>2. LineInv'
    BY <1>0, <2>1 DEF LineInv
  <2> QED
    BY <1>1, <2>2, SplitKeepsPointers DEF WordsInv
<1>2. CASE command[curr] = EndOfString
  <2>1. /\ wpc = "split" /\ wpc' = IF program = "pa1" THEN "return" ELSE "comments"
        /\ UNCHANGED <<program, typed, comment, command, curr, token_started, pointers>>
    BY <1>2 DEF Split
  <2>2. curr = k + 1 /\ StartsBefore(typed, curr) = Starts(typed)
    BY <1>0, <1>2, TheEnd, AllStarts
  <2>3. LineInv'
    BY <1>0, <2>1 DEF LineInv, LineOf
  <2>4. Image' = Image /\ Image = Starts(typed) /\ Cardinality(Starts(typed)) = Len(pointers)
    BY <1>0, <2>1, <2>2, PointerFacts DEF Image, PointersInv
  <2>5. program = "pa1" => KeptStarts(typed) = Starts(typed)
    BY DEF KeptStarts
  <2>6. PointersInv'
    <3>1. KeptStarts(typed)' = KeptStarts(typed) /\ StartsBefore(typed, curr)' = StartsBefore(typed, curr)
      BY <2>1 DEF KeptStarts, StartsBefore
    <3> QED
      BY <1>0, <2>1, <2>2, <2>4, <2>5, <3>1 DEF PointersInv
  <2>7. WordsPhase'
    <3>1. curr' = Len(typed') + 1 /\ Len(pointers) \in Nat
      BY <1>0, <2>1, <2>2, PointerFacts
    <3>2. Len(pointers) =< MaxTokens /\ comment = 1
      BY <1>0, <2>1 DEF WordsPhase
    <3> QED
      BY <2>1, <2>4, <3>1, <3>2 DEF WordsPhase
  <2> QED
    BY <2>3, <2>6, <2>7 DEF WordsInv
<1> QED
  BY <1>1, <1>2

-----------------------------------------------------------------------------
(* The comment.                                                            *)

(* A pointer is to a character that is none of those overwritten.          *)
LEMMA PointedAt ==
    ASSUME WordsInv, wpc \in {"comments", "return"}, NEW p \in Starts(typed)
    PROVE  command[p] = typed[p]
<1>1. PICK k \in Nat : k = Len(typed) /\ LineOf(k)
  BY LineLength DEF WordsInv
<1>2. p \in 1 .. k /\ typed[p] # " "
  BY <1>1, StartFacts
<1> QED
  BY <1>1, <1>2, Characterwise

(* The words before the first that starts with "#".                        *)
LEMMA KeptBefore ==
    ASSUME LineInv, PointersInv, program # "pa1", Image = Starts(typed),
           NEW c \in Nat \ {0}, c =< Len(pointers) + 1,
           \A n \in 1 .. c - 1 : typed[pointers[n]] # "#",
           c =< Len(pointers) => typed[pointers[c]] = "#"
    PROVE  KeptStarts(typed) = {pointers[n] : n \in 1 .. c - 1}
<1>1. PICK k \in Nat, l \in Nat : k = Len(typed) /\ l = Len(pointers)
  BY LineLength, PointerFacts
<1>2. /\ \A n \in 1 .. l : pointers[n] \in 1 .. k /\ pointers[n] \in Starts(typed)
      /\ \A p \in Starts(typed) : \E n \in 1 .. l : p = pointers[n]
      /\ \A m, n \in 1 .. l : m < n => pointers[m] < pointers[n]
  BY <1>1, PointerFacts DEF PointersInv
<1>3. c \in 1 .. l \/ c = l + 1
  BY <1>1
<1>4. ASSUME NEW p \in Starts(typed)
      PROVE  (\A q \in Starts(typed) : q =< p => typed[q] # "#")
               <=> \E n \in 1 .. c - 1 : p = pointers[n]
  <2>1. PICK n \in 1 .. l : p = pointers[n]
    BY <1>2
  <2>2. CASE n < c
    <3>1. \A q \in Starts(typed) : q =< p => typed[q] # "#"
      <4> SUFFICES ASSUME NEW q \in Starts(typed), q =< p
                   PROVE  typed[q] # "#"
        OBVIOUS
      <4>1. PICK m \in 1 .. l : q = pointers[m]
        BY <1>2
      <4>2. m =< n
        BY <1>2, <2>1, <4>1
      <4>3. m \in 1 .. c - 1
        BY <2>2, <4>2
      <4> QED
        BY <4>1, <4>3
    <3>2. n \in 1 .. c - 1
      BY <2>2
    <3> QED
      BY <2>1, <3>1, <3>2
  <2>3. CASE ~(n < c)
    <3>1. c \in 1 .. l
      BY <1>3, <2>3
    <3>2. /\ pointers[c] \in Starts(typed) /\ typed[pointers[c]] = "#"
          /\ pointers[c] \in 1 .. k /\ pointers[n] \in 1 .. k
      BY <1>1, <1>2, <3>1
    <3>3. c = n \/ c < n
      BY <2>3
    <3>4. pointers[c] =< p
      BY <1>2, <2>1, <3>1, <3>2, <3>3
    <3>5. ~ \E m \in 1 .. c - 1 : p = pointers[m]
      <4> SUFFICES ASSUME NEW m \in 1 .. c - 1, p = pointers[m]
                   PROVE  FALSE
        OBVIOUS
      <4>1. m \in 1 .. l /\ m < n
        BY <2>3, <3>1
      <4>2. pointers[m] < pointers[n] /\ pointers[m] \in 1 .. k
        BY <1>2, <4>1
      <4> QED
        BY <2>1, <3>2, <4>2
    <3> QED
      BY <3>2, <3>4, <3>5
  <2> QED
    BY <2>2, <2>3
<1>5. \A n \in 1 .. c - 1 : pointers[n] \in Starts(typed)
  BY <1>2, <1>3
<1>6. KeptStarts(typed) =
        {p \in Starts(typed) : \A q \in Starts(typed) : q =< p => typed[q] # "#"}
  BY DEF KeptStarts
<1> QED
  BY <1>4, <1>5, <1>6

LEMMA CutCommentKeepsWords ==
    ASSUME WordsInv, CutComment
    PROVE  WordsInv'
<1>1. PICK k \in Nat, l \in Nat :
        /\ k = Len(typed) /\ LineOf(k) /\ l = Len(pointers)
        /\ LineInv /\ PointersInv /\ WordsPhase
  BY LineLength, PointerFacts DEF WordsInv
<1>2. /\ wpc = "comments" /\ UNCHANGED <<program, typed, command, curr, token_started>>
      /\ curr = k + 1 /\ program # "pa1" /\ l =< MaxTokens
      /\ comment \in Nat \ {0} /\ comment =< l + 1
      /\ \A n \in 1 .. comment - 1 : typed[pointers[n]] # "#"
  <2>1. comment \in Nat \ {0}
    BY <1>1, Zenon DEF LineOf
  <2> QED
    BY <1>1, <2>1 DEF CutComment, WordsPhase
<1>3. StartsBefore(typed, curr) = Starts(typed) /\ Image = Starts(typed)
      /\ Cardinality(Starts(typed)) = l
  BY <1>1, <1>2, AllStarts, PointerFacts DEF PointersInv
<1>4. ASSUME NEW c \in Nat \ {0}, comment' = c
      PROVE  LineInv'
  BY <1>1, <1>2, <1>4 DEF LineInv, LineOf
<1>5. /\ \A n \in 1 .. l : pointers[n] \in Starts(typed) /\ pointers[n] \in 1 .. k
      /\ \A n \in 1 .. l : command[pointers[n]] = typed[pointers[n]]
      /\ DOMAIN pointers = 1 .. l
  BY <1>1, <1>2, <1>3, PointerFacts, PointedAt
<1>6. CASE comment > Len(pointers)
  <2>1. wpc' = "return" /\ UNCHANGED <<pointers, comment>>
    BY <1>6 DEF CutComment
  <2>2. LineInv'
    BY <1>2, <1>4, <2>1
  <2>3. KeptStarts(typed) = Image
    <3>1. KeptStarts(typed) = {pointers[n] : n \in 1 .. comment - 1}
      BY <1>1, <1>2, <1>3, <1>6, KeptBefore
    <3>2. comment - 1 = l
      BY <1>1, <1>2, <1>6
    <3> QED
      BY <1>5, <3>1, <3>2 DEF Image
  <2>4. PointersInv'
    <3>1. Image' = Image /\ KeptStarts(typed)' = KeptStarts(typed)
      BY <1>2, <2>1 DEF Image, KeptStarts
    <3> QED
      BY <1>1, <1>2, <2>1, <2>3, <3>1 DEF PointersInv
  <2>5. WordsPhase'
    <3>1. Cardinality(Starts(typed'))  =< MaxTokens /\ curr' = Len(typed') + 1
      BY <1>1, <1>2, <1>3
    <3> QED
      BY <1>1, <1>2, <2>1, <3>1 DEF WordsPhase
  <2> QED
    BY <2>2, <2>4, <2>5 DEF WordsInv
<1>7. CASE ~(comment > Len(pointers)) /\ command[pointers[comment]] = "#"
  <2>1. pointers' = SubSeq(pointers, 1, comment - 1) /\ wpc' = "return" /\ comment' = comment
    BY <1>7 DEF CutComment
  <2>2. LineInv'
    BY <1>2, <1>4, <2>1
  <2>3. comment \in 1 .. l /\ typed[pointers[comment]] = "#"
    BY <1>1, <1>2, <1>5, <1>7
  <2>4. KeptStarts(typed) = {pointers[n] : n \in 1 .. comment - 1}
    BY <1>1, <1>2, <1>3, <2>3, KeptBefore
  <2>5. PICK c \in Nat : c = comment - 1 /\ c < l
    BY <2>3
  <2>6. /\ pointers' \in Seq(1 .. Len(typed)) /\ Len(pointers') = c
        /\ \A n \in 1 .. c : pointers'[n] = pointers[n]
    <3>1. \A n \in 1 .. c : pointers[n] \in 1 .. Len(typed)
      BY <1>1, <1>5, <2>5
    <3>2. pointers' = SubSeq(pointers, 1, c) /\ 1 \in Int /\ c \in Int
      BY <2>1, <2>5
    <3>3. /\ SubSeq(pointers, 1, c) \in Seq(1 .. Len(typed))
          /\ Len(SubSeq(pointers, 1, c)) = IF 1 <= c THEN c - 1 + 1 ELSE 0
          /\ \A n \in 1 .. c - 1 + 1 : SubSeq(pointers, 1, c)[n] = pointers[1 + n - 1]
      BY <3>1, <3>2, SubSeqProperties
    <3>4. (IF 1 <= c THEN c - 1 + 1 ELSE 0) = c
      OBVIOUS
    <3>5. \A n \in 1 .. c : n \in 1 .. c - 1 + 1 /\ 1 + n - 1 = n
      OBVIOUS
    <3> QED
      BY <3>2, <3>3, <3>4, <3>5
  <2>7. DOMAIN pointers' = 1 .. c
    BY <2>6, LenProperties
  <2>8. Image' = KeptStarts(typed)
    BY <2>4, <2>5, <2>6, <2>7 DEF Image
  <2>9. \A m, n \in 1 .. Len(pointers') : m < n => pointers'[m] < pointers'[n]
    <3>1. \A m, n \in 1 .. l : m < n => pointers[m] < pointers[n]
      BY <1>1 DEF PointersInv
    <3>2. \A n \in 1 .. c : n \in 1 .. l
      BY <2>5
    <3> QED
      BY <2>6, <3>1, <3>2
  <2>10. PointersInv'
    <3>1. KeptStarts(typed)' = KeptStarts(typed)
      BY <1>2 DEF KeptStarts
    <3> QED
      BY <1>2, <2>1, <2>6, <2>8, <2>9, <3>1 DEF PointersInv
  <2>11. WordsPhase'
    <3>1. Cardinality(Starts(typed')) =< MaxTokens /\ curr' = Len(typed') + 1
      BY <1>1, <1>2, <1>3
    <3> QED
      BY <2>1, <3>1 DEF WordsPhase
  <2> QED
    BY <2>2, <2>10, <2>11 DEF WordsInv
<1>8. CASE ~(comment > Len(pointers)) /\ command[pointers[comment]] # "#"
  <2>1. comment' = comment + 1 /\ UNCHANGED <<pointers, wpc>>
    BY <1>8 DEF CutComment
  <2>2. LineInv'
    BY <1>2, <1>4, <2>1
  <2>3. comment \in 1 .. l /\ typed[pointers[comment]] # "#"
    BY <1>1, <1>2, <1>5, <1>8
  <2>4. PointersInv'
    <3>1. Image' = Image /\ StartsBefore(typed, curr)' = StartsBefore(typed, curr)
      BY <1>2, <2>1 DEF Image, StartsBefore
    <3> QED
      BY <1>1, <1>2, <2>1, <3>1 DEF PointersInv
  <2>5. WordsPhase'
    <3>1. \A n \in 1 .. comment' - 1 : n \in 1 .. comment - 1 \/ n = comment
      BY <2>1, <2>3
    <3>2. \A n \in 1 .. comment' - 1 : typed'[pointers'[n]] # "#"
      BY <1>2, <2>1, <2>3, <3>1
    <3>3. comment' =< Len(pointers') + 1 /\ Len(pointers') =< MaxTokens /\ curr' = Len(typed') + 1
      BY <1>1, <1>2, <2>1, <2>3
    <3> QED
      BY <1>2, <2>1, <3>2, <3>3 DEF WordsPhase
  <2> QED
    BY <2>2, <2>4, <2>5 DEF WordsInv
<1> QED
  BY <1>6, <1>7, <1>8

(* The numbers of a stretch of the line, one fact to an idea.              *)
LEMMA Within ==
    ASSUME NEW k \in Nat, NEW p \in 1 .. k
    PROVE  /\ k \in p .. k /\ p \in p .. k
           /\ \A e \in p .. k : e \in Nat
           /\ \A e \in p .. k : e \in 1 .. k
           /\ \A e \in p .. k : e \in p - 1 .. k
           /\ \A e \in p .. k : p \in p .. e
           /\ \A e \in p .. k : \A q \in p .. e : q \in p .. k
OBVIOUS

LEMMA NotLast ==
    ASSUME NEW k \in Nat, NEW p \in 1 .. k, NEW e \in p .. k, e # k
    PROVE  e < k
OBVIOUS

LEMMA Before ==
    ASSUME NEW k \in Nat, NEW p \in 1 .. k, NEW e \in p .. k, NEW q \in p .. e, q # p
    PROVE  q - 1 \in p .. k /\ (q - 1) + 1 = q /\ ~(e <= q - 1)
OBVIOUS

LEMMA Behind ==
    ASSUME NEW k \in Nat, NEW p \in 1 .. k, NEW e \in p .. k, NEW q \in p .. k, e < q
    PROVE  e + 1 \in p .. q /\ e + 1 \in 1 .. k /\ e # k
OBVIOUS

LEMMA Trichotomy ==
    ASSUME NEW k \in Nat, NEW p \in 1 .. k, NEW e \in p .. k, NEW q \in p .. k
    PROVE  e < q \/ q < e \/ e = q
OBVIOUS

LEMMA NotEmpty ==
    ASSUME NEW k \in Nat, NEW p \in 1 .. k, NEW d \in p - 1 .. k
    PROVE  (d = p - 1 /\ d + 1 = p) \/ d \in p .. k
OBVIOUS

LEMMA Offsets ==
    ASSUME NEW k \in Nat, NEW p \in 1 .. k, NEW e \in p .. k, NEW q \in 1 .. e - p + 1
    PROVE  p + q - 1 \in p .. e
OBVIOUS

(* Where a word ends: the last character before a blank or the NUL.        *)
Ends(s, p, k, e) ==
    /\ e \in p .. k
    /\ \A q \in p .. e : s[q] # " "
    /\ e = k \/ s[e + 1] = " "

LEMMA WordEnds ==
    ASSUME NEW k \in Nat, NEW s, NEW p \in 1 .. k, s[p] # " "
    PROVE  \E e \in p .. k : Ends(s, p, k, e)
<1> DEFINE T == {e \in p .. k : e = k \/ s[e + 1] = " "}
<1>1. T \in SUBSET Nat /\ T # {}
  BY Within, Zenon
<1>2. PICK e \in T : \A x \in T : e <= x
  BY <1>1, LeastNat
<1>3. e \in p .. k /\ (e = k \/ s[e + 1] = " ")
  OBVIOUS
<1>4. ASSUME NEW q \in p .. e, s[q] = " " PROVE FALSE
  <2>1. q # p /\ q \in p .. k
    BY <1>3, <1>4, Within, Zenon
  <2>2. q - 1 \in p .. k /\ (q - 1) + 1 = q /\ ~(e <= q - 1)
    BY <1>3, <1>4, <2>1, Before, Zenon
  <2>3. q - 1 \in T
    BY <1>4, <2>2, Zenon
  <2> QED
    BY <1>2, <2>2, <2>3, Zenon
<1>5. \A q \in p .. e : s[q] # " "
  BY <1>4, Zenon
<1> QED
  BY <1>3, <1>5, Zenon DEF Ends

LEMMA OneEnd ==
    ASSUME NEW k \in Nat, NEW s, NEW p \in 1 .. k, NEW e, NEW d, Ends(s, p, k, e), Ends(s, p, k, d)
    PROVE  e = d
<1>1. e \in p .. k /\ d \in p .. k
  BY Zenon DEF Ends
<1>2. ASSUME NEW a \in p .. k, NEW b \in p .. k, Ends(s, p, k, a), Ends(s, p, k, b), a < b
      PROVE  FALSE
  <2>1. a + 1 \in p .. b /\ a # k
    BY <1>2, Behind, Zenon
  <2> QED
    BY <1>2, <2>1, Zenon DEF Ends
<1> QED
  BY <1>1, <1>2, Trichotomy, Zenon

(* When the line has been gone through, a pointer to a word is a string of *)
(* just that word.                                                         *)
StringEnds(s, p, k, e) ==
    /\ e \in p - 1 .. k
    /\ s[e + 1] = EndOfString
    /\ \A q \in p .. e : s[q] # EndOfString

LEMMA OneStringEnd ==
    ASSUME NEW k \in Nat, NEW s, NEW t, NEW p \in 1 .. k, NEW e, Ends(s, p, k, e),
           \A q \in 1 .. k : t[q] = EndOfString <=> s[q] = " ",
           t[k + 1] = EndOfString
    PROVE  /\ StringEnds(t, p, k, e)
           /\ \A d : StringEnds(t, p, k, d) => d = e
<1>1. e \in p .. k /\ (\A q \in p .. e : s[q] # " ") /\ (e = k \/ s[e + 1] = " ")
  BY Zenon DEF Ends
<1>2. e \in p - 1 .. k
  BY <1>1, Within, Zenon
<1>3. ASSUME NEW q \in p .. e PROVE t[q] # EndOfString
  <2>1. q \in p .. k
    BY <1>1, Within, Zenon
  <2>2. q \in 1 .. k
    BY <2>1, Within, Zenon
  <2> QED
    BY <1>1, <2>2, Zenon
<1>4. t[e + 1] = EndOfString
  <2>1. CASE e = k
    BY <2>1
  <2>2. CASE e # k
    <3>1. e < k /\ k \in p .. k
      BY <1>1, <2>2, NotLast, Within, Zenon
    <3>2. e + 1 \in 1 .. k
      BY <1>1, <3>1, Behind, Zenon
    <3> QED
      BY <1>1, <2>2, <3>2, Zenon
  <2> QED
    BY <2>1, <2>2
<1>5. ASSUME NEW d, StringEnds(t, p, k, d) PROVE d = e
  <2>1. d \in p - 1 .. k /\ t[d + 1] = EndOfString /\ \A q \in p .. d : t[q] # EndOfString
    BY <1>5, Zenon DEF StringEnds
  <2>2. t[p] # EndOfString
    BY <1>1, <1>3, Within, Zenon
  <2>3. d \in p .. k
    BY <2>1, <2>2, NotEmpty, Zenon
  <2>4. ASSUME d < e PROVE FALSE
    <3>1. d + 1 \in p .. e
      BY <1>1, <2>3, <2>4, Behind, Zenon
    <3> QED
      BY <1>3, <2>1, <3>1, Zenon
  <2>5. ASSUME e < d PROVE FALSE
    <3>1. e + 1 \in p .. d
      BY <1>1, <2>3, <2>5, Behind, Zenon
    <3> QED
      BY <1>4, <2>1, <3>1, Zenon
  <2> QED
    BY <1>1, <2>3, <2>4, <2>5, Trichotomy, Zenon
<1> QED
  BY <1>2, <1>3, <1>4, <1>5, Zenon DEF StringEnds

LEMMA SameStretch ==
    ASSUME NEW S, NEW s, NEW t, NEW k \in Nat, NEW p \in 1 .. k, NEW e \in p .. k,
           \A q \in p .. e : s[q] \in S, \A q \in p .. e : s[q] = t[q]
    PROVE  SubSeq(t, p, e) = SubSeq(s, p, e)
<1>1. p \in Int /\ e \in Int
  OBVIOUS
<1>2. \A q \in p .. e : t[q] \in S
  BY Zenon
<1>3. PICK u : /\ u = SubSeq(s, p, e)
               /\ u \in Seq(S) /\ Len(u) = IF p <= e THEN e - p + 1 ELSE 0
               /\ \A i \in 1 .. e - p + 1 : u[i] = s[p + i - 1]
  <2>1. /\ SubSeq(s, p, e) \in Seq(S)
        /\ Len(SubSeq(s, p, e)) = IF p <= e THEN e - p + 1 ELSE 0
        /\ \A i \in 1 .. e - p + 1 : SubSeq(s, p, e)[i] = s[p + i - 1]
    BY <1>1, SubSeqProperties
  <2> QED
    BY <2>1, Zenon
<1>4. PICK v : /\ v = SubSeq(t, p, e)
               /\ v \in Seq(S) /\ Len(v) = IF p <= e THEN e - p + 1 ELSE 0
               /\ \A i \in 1 .. e - p + 1 : v[i] = t[p + i - 1]
  <2>1. /\ SubSeq(t, p, e) \in Seq(S)
        /\ Len(SubSeq(t, p, e)) = IF p <= e THEN e - p + 1 ELSE 0
        /\ \A i \in 1 .. e - p + 1 : SubSeq(t, p, e)[i] = t[p + i - 1]
    BY <1>1, <1>2, SubSeqProperties
  <2> QED
    BY <2>1, Zenon
<1>5. \A i \in 1 .. e - p + 1 : v[i] = u[i]
  BY <1>3, <1>4, Offsets, Zenon
<1>6. p <= e
  OBVIOUS
<1>7. Len(u) = Len(v) /\ \A i \in 1 .. Len(u) : u[i] = v[i]
  BY <1>3, <1>4, <1>5, <1>6, Zenon
<1> QED
  BY <1>3, <1>4, <1>7, SeqEqual, Zenon

LEMMA StringIsWord ==
    ASSUME NEW k \in Nat, LineOf(k), curr = k + 1, NEW p \in Starts(typed)
    PROVE  StringAt(p) = WordAt(typed, p)
<1>1. p \in 1 .. k /\ typed[p] # " "
  BY StartFacts
<1>2. PICK e \in p .. k : Ends(typed, p, k, e)
  BY <1>1, WordEnds, Zenon
<1>3. /\ command \in [1 .. k + 1 -> Characters]
      /\ \A q \in 1 .. k : command[q] = EndOfString <=> typed[q] = " "
      /\ \A q \in 1 .. k : typed[q] # " " => command[q] = typed[q]
      /\ command[k + 1] = EndOfString
  <2>1. /\ command \in [1 .. k + 1 -> Characters]
        /\ \A q \in 1 .. k : command[q] = IF q < curr /\ typed[q] = " " THEN EndOfString ELSE typed[q]
        /\ command[k + 1] = EndOfString
        /\ \A q \in 1 .. k : typed[q] # EndOfString
    BY Characterwise, Zenon
  <2>2. \A q \in 1 .. k : q < curr
    OBVIOUS
  <2> QED
    BY <2>1, <2>2, Zenon DEF EndOfString
<1>4. typed \in [1 .. k -> WordChars]
  BY Zenon DEF LineOf
<1>5. Len(typed) = k /\ Len(command) = k + 1 /\ (k + 1) - 1 = k
  <2>1. Len(typed) = k
    BY <1>4, LenProperties
  <2>2. PICK l \in Nat : l = k + 1
    OBVIOUS
  <2>3. command \in [1 .. l -> Characters]
    BY <1>3, <2>2, Zenon
  <2>4. Len(command) = l
    BY <2>3, LenProperties
  <2>5. l - 1 = k
    BY <2>2
  <2> QED
    BY <2>1, <2>2, <2>4, <2>5, Zenon
<1>6. StringEnds(command, p, k, e) /\ \A d : StringEnds(command, p, k, d) => d = e
  <2>1. PICK s, t : s = typed /\ t = command
    OBVIOUS
  <2>2. Ends(s, p, k, e) /\ t[k + 1] = EndOfString
    BY <1>2, <1>3, <2>1
  <2>3. \A q \in 1 .. k : t[q] = EndOfString <=> s[q] = " "
    BY <1>3, <2>1
  <2>4. StringEnds(t, p, k, e) /\ \A d : StringEnds(t, p, k, d) => d = e
    BY <1>1, <2>2, <2>3, OneStringEnd
  <2> QED
    BY <2>1, <2>4
<1>7. (CHOOSE d \in p .. k : (\A q \in p .. d : typed[q] # " ") /\ (d = k \/ typed[d + 1] = " ")) = e
  <2>1. \A d : Ends(typed, p, k, d) <=> d = e
    BY <1>1, <1>2, OneEnd, Zenon
  <2> QED
    BY <2>1 DEF Ends
<1>8. (CHOOSE d \in p - 1 .. k : command[d + 1] = EndOfString
                                 /\ \A q \in p .. d : command[q] # EndOfString) = e
  <2>1. \A d : StringEnds(command, p, k, d) <=> d = e
    BY <1>6, Zenon
  <2> QED
    BY <2>1 DEF StringEnds
<1>9. WordAt(typed, p) = SubSeq(typed, p, e)
  BY <1>5, <1>7, Zenon DEF WordAt
<1>10. StringAt(p) = SubSeq(command, p, e)
  BY <1>5, <1>8, Zenon DEF StringAt
<1>11. /\ \A q \in p .. e : typed[q] \in WordChars
       /\ \A q \in p .. e : typed[q] = command[q]
  <2>1. \A q \in p .. e : q \in 1 .. k
    BY <1>1, Within, Zenon
  <2>2. \A q \in p .. e : typed[q] # " "
    BY <1>2, Zenon DEF Ends
  <2> QED
    BY <1>3, <1>4, <2>1, <2>2, Zenon
<1>12. SubSeq(command, p, e) = SubSeq(typed, p, e)
  <2>1. PICK S, s, t : S = WordChars /\ s = typed /\ t = command
    OBVIOUS
  <2>2. /\ \A q \in p .. e : s[q] \in S
        /\ \A q \in p .. e : s[q] = t[q]
        /\ p \in 1 .. k /\ e \in p .. k
    BY <1>1, <1>2, <1>11, <2>1
  <2>3. SubSeq(t, p, e) = SubSeq(s, p, e)
    BY <2>2, SameStretch
  <2> QED
    BY <2>1, <2>3
<1> QED
  BY <1>9, <1>10, <1>12, Zenon

-----------------------------------------------------------------------------
(* What holds whatever lines there are.                                    *)

LEMMA StartsAreFinite ==
    ASSUME NEW k \in Nat, LineOf(k)
    PROVE  IsFiniteSet(Starts(typed))
<1>1. Starts(typed) \subseteq 1 .. k
  BY StartFacts
<1>2. IsFiniteSet(1 .. k)
  BY FS_Interval
<1> QED
  BY <1>1, <1>2, FS_Subset

LEMMA WordsInvSuffices == WordsInv => WordsAreCut
<1> SUFFICES ASSUME WordsInv PROVE WordsAreCut
  OBVIOUS
<1>1. LineInv /\ PointersInv /\ WordsPhase
  BY DEF WordsInv
<1>2. PICK k \in Nat : k = Len(typed) /\ LineOf(k)
  BY <1>1, LineLength
<1>3. /\ Len(pointers) \in Nat /\ DOMAIN pointers = 1 .. Len(pointers)
      /\ \A n \in 1 .. Len(pointers) : pointers[n] \in Image
      /\ Cardinality(Image) = Len(pointers)
  BY <1>1, PointerFacts
<1>4. CASE wpc = "return"
  <2>1. Image = KeptStarts(typed) /\ curr = k + 1 /\ Cardinality(Starts(typed)) =< MaxTokens
    BY <1>1, <1>2, <1>4 DEF PointersInv, WordsPhase
  <2>2. \A n \in DOMAIN pointers : pointers[n] \in Starts(typed)
    BY <1>3, <2>1 DEF KeptStarts
  <2>3. \A n \in DOMAIN pointers : StringAt(pointers[n]) = WordAt(typed, pointers[n])
    BY <1>2, <2>1, <2>2, StringIsWord
  <2>4. \A m, n \in DOMAIN pointers : m < n => pointers[m] < pointers[n]
    BY <1>1, <1>3 DEF PointersInv
  <2> QED
    BY <1>4, <2>1, <2>3, <2>4 DEF WordsAreCut, Image
<1>5. CASE wpc = "comments"
  <2>1. Image = StartsBefore(typed, curr) /\ curr = k + 1 /\ Len(pointers) =< MaxTokens
    BY <1>1, <1>2, <1>5 DEF PointersInv, WordsPhase
  <2>2. StartsBefore(typed, curr) = Starts(typed)
    BY <1>2, <2>1, AllStarts
  <2> QED
    BY <1>3, <1>5, <2>1, <2>2 DEF WordsAreCut
<1>6. CASE wpc = "smashed"
  <2>1. Image = StartsBefore(typed, curr) /\ Len(pointers) > MaxTokens
    BY <1>1, <1>6 DEF PointersInv, WordsPhase
  <2>2. StartsBefore(typed, curr) \subseteq Starts(typed)
    BY DEF StartsBefore
  <2>3. /\ Cardinality(StartsBefore(typed, curr)) <= Cardinality(Starts(typed))
        /\ Cardinality(Starts(typed)) \in Nat
    BY <1>2, <2>2, StartsAreFinite, FS_Subset, FS_CardinalityType
  <2> QED
    BY <1>3, <1>6, <2>1, <2>3, MaxTokensAssumption DEF WordsAreCut
<1> QED
  BY <1>4, <1>5, <1>6 DEF WordsAreCut

LEMMA NextWords == WordsInv /\ [WordsNext]_wordVars => WordsInv'
<1> SUFFICES ASSUME WordsInv, [WordsNext]_wordVars PROVE WordsInv'
  OBVIOUS
<1>1. CASE Split
  BY <1>1, SplitKeepsWords
<1>2. CASE CutComment
  BY <1>2, CutCommentKeepsWords
<1>3. CASE UNCHANGED wordVars
  <2>1. /\ UNCHANGED <<program, typed, command, curr>>
        /\ UNCHANGED <<token_started, pointers, comment, wpc>>
    BY <1>3 DEF wordVars
  <2>2. LineInv'
    BY <2>1 DEF WordsInv, LineInv, LineOf
  <2>3. /\ Image' = Image /\ KeptStarts(typed)' = KeptStarts(typed)
        /\ StartsBefore(typed, curr)' = StartsBefore(typed, curr)
    BY <2>1 DEF Image, KeptStarts, StartsBefore
  <2>4. PointersInv'
    BY <2>1, <2>3 DEF WordsInv, PointersInv
  <2>5. WordsPhase'
    BY <2>1 DEF WordsInv, WordsPhase
  <2> QED
    BY <2>2, <2>4, <2>5 DEF WordsInv
<1> QED
  BY <1>1, <1>2, <1>3 DEF WordsNext

(* parse_command of PA1, PA2 and PA4: when it returns, its pointers are, in *)
(* order, where the words of the line start, up to the comment, and each   *)
(* is a string of just that word; it returns from no line with more words  *)
(* than tokens[] holds, for any lines and any MAX_NR_TOKENS.               *)
THEOREM WordsAreCutAlways == WordsSpec => []WordsAreCut
<1>1. WordsInit => WordsInv
  BY InitWords
<1>2. WordsInv /\ [WordsNext]_wordVars => WordsInv'
  BY NextWords
<1>3. WordsInv => WordsAreCut
  BY WordsInvSuffices
<1> QED
  BY <1>1, <1>2, <1>3, PTL DEF WordsSpec
=============================================================================
