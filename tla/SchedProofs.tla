---------------------------- MODULE SchedProofs ----------------------------
(***************************************************************************)
(* The scheduling simulator with every script, any number of processes and *)
(* resources, and all its versions.                                        *)
(***************************************************************************)
EXTENDS SchedDrafts, SequenceTheorems, FiniteSetTheorems, WellFoundedInduction, TLAPS

-----------------------------------------------------------------------------
(* Sequences, and the positions the loops of the simulator stop at.        *)

LEMMA LeastNat ==
    ASSUME NEW T \in SUBSET Nat, T # {}
    PROVE  \E x \in T : \A y \in T : x <= y
<1>1. IsWellFoundedOn(OpToRel(<, Nat), Nat)
  BY NatLessThanWellFounded, Zenon
<1>2. PICK x \in T : \A y \in T : ~ (<<y, x>> \in OpToRel(<, Nat))
  BY <1>1, WFMin, Zenon
<1>3. \A y \in T : ~ (y < x)
  BY <1>2, Zenon DEF OpToRel
<1> QED
  BY <1>3

LEMMA MinIsLeast ==
    ASSUME NEW T \in SUBSET Nat, T # {}
    PROVE  Min(T) \in T /\ \A y \in T : Min(T) <= y
BY LeastNat DEF Min

(* Taking one entry out of a sequence.                                     *)
LEMMA RemoveAtFacts ==
    ASSUME NEW U, NEW s \in Seq(U), NEW k \in 1 .. Len(s)
    PROVE  /\ RemoveAt(s, k) \in Seq(U)
           /\ Len(RemoveAt(s, k)) = Len(s) - 1
           /\ DOMAIN RemoveAt(s, k) = 1 .. Len(s) - 1
           /\ \A j \in 1 .. Len(s) - 1 :
                 RemoveAt(s, k)[j] = IF j < k THEN s[j] ELSE s[j + 1]
<1> DEFINE a == SubSeq(s, 1, k - 1)
           b == SubSeq(s, k + 1, Len(s))
<1>1. Len(s) \in Nat /\ \A j \in 1 .. Len(s) : s[j] \in U
  BY LenProperties, ElementOfSeq
<1>2. a \in Seq(U) /\ Len(a) = k - 1 /\ \A j \in 1 .. k - 1 : a[j] = s[j]
  <2>1. 1 \in Int /\ k - 1 \in Int /\ \A j \in 1 .. k - 1 : s[j] \in U
    BY <1>1
  <2>2. /\ a \in Seq(U) /\ Len(a) = IF 1 <= k - 1 THEN k - 1 - 1 + 1 ELSE 0
        /\ \A j \in 1 .. k - 1 - 1 + 1 : a[j] = s[1 + j - 1]
    BY <2>1, SubSeqProperties
  <2> QED
    BY <2>2, <1>1
<1>3. /\ b \in Seq(U) /\ Len(b) = Len(s) - k
      /\ \A j \in 1 .. Len(s) - k : b[j] = s[k + j]
  <2>1. k + 1 \in Int /\ Len(s) \in Int /\ \A j \in k + 1 .. Len(s) : s[j] \in U
    BY <1>1
  <2>2. /\ b \in Seq(U) /\ Len(b) = IF k + 1 <= Len(s) THEN Len(s) - (k + 1) + 1 ELSE 0
        /\ \A j \in 1 .. Len(s) - (k + 1) + 1 : b[j] = s[(k + 1) + j - 1]
    BY <2>1, SubSeqProperties
  <2> QED
    BY <2>2, <1>1
<1>4. /\ a \o b \in Seq(U) /\ Len(a \o b) = Len(a) + Len(b)
      /\ \A j \in 1 .. Len(a) + Len(b) :
            (a \o b)[j] = IF j <= Len(a) THEN a[j] ELSE b[j - Len(a)]
  BY <1>2, <1>3, ConcatProperties
<1>5. RemoveAt(s, k) = a \o b
  BY Zenon DEF RemoveAt
<1> HIDE DEF a, b
<1>6. Len(a) + Len(b) = Len(s) - 1
  BY <1>1, <1>2, <1>3
<1>7. ASSUME NEW j \in 1 .. Len(s) - 1
      PROVE  RemoveAt(s, k)[j] = IF j < k THEN s[j] ELSE s[j + 1]
  <2>1. CASE j < k
    BY <2>1, <1>1, <1>2, <1>4, <1>5, <1>6
  <2>2. CASE ~(j < k)
    <3>1. j - (k - 1) \in 1 .. Len(s) - k /\ k + (j - (k - 1)) = j + 1
      BY <2>2, <1>1
    <3>2. (a \o b)[j] = b[j - (k - 1)]
      BY <2>2, <1>1, <1>2, <1>4, <1>6
    <3> QED
      BY <3>1, <3>2, <2>2, <1>3, <1>5
  <2> QED
    BY <2>1, <2>2
<1> QED
  BY <1>4, <1>5, <1>6, <1>7, LenProperties

(* What is left when an entry is taken out of a sequence.                  *)
LEMMA RemoveAtKeeps ==
    ASSUME NEW U, NEW s \in Seq(U), NEW k \in 1 .. Len(s)
    PROVE  /\ ToSet(RemoveAt(s, k)) \subseteq ToSet(s)
           /\ ToSet(s) \subseteq ToSet(RemoveAt(s, k)) \cup {s[k]}
           /\ IsInjective(s) => /\ IsInjective(RemoveAt(s, k))
                                /\ ToSet(RemoveAt(s, k)) = ToSet(s) \ {s[k]}
<1> DEFINE r == RemoveAt(s, k)
<1>1. /\ Len(s) \in Nat /\ DOMAIN s = 1 .. Len(s) /\ DOMAIN r = 1 .. Len(s) - 1
      /\ \A j \in 1 .. Len(s) - 1 : r[j] = IF j < k THEN s[j] ELSE s[j + 1]
  BY RemoveAtFacts, LenProperties
<1> HIDE DEF r
<1>2. \A j \in DOMAIN r : (IF j < k THEN j ELSE j + 1) \in DOMAIN s \ {k}
  BY <1>1
<1>3. \A i \in DOMAIN s \ {k} :
         /\ (IF i < k THEN i ELSE i - 1) \in DOMAIN r
         /\ r[IF i < k THEN i ELSE i - 1] = s[i]
  BY <1>1
<1>4. ToSet(r) \subseteq ToSet(s)
  BY <1>1, <1>2 DEF ToSet
<1>5. ToSet(s) \subseteq ToSet(r) \cup {s[k]}
  BY <1>3 DEF ToSet
<1>6. ASSUME IsInjective(s)
      PROVE  IsInjective(r) /\ s[k] \notin ToSet(r)
  <2>1. \A i, j \in DOMAIN s : s[i] = s[j] => i = j
    BY <1>6 DEF IsInjective
  <2>2. IsInjective(r)
    BY <2>1, <1>1, <1>2 DEF IsInjective
  <2>3. s[k] \notin ToSet(r)
    BY <2>1, <1>1, <1>2 DEF ToSet
  <2> QED
    BY <2>2, <2>3
<1>7. s[k] \in ToSet(s)
  BY <1>1 DEF ToSet
<1> QED
  BY <1>4, <1>5, <1>6, <1>7 DEF r

(* list_del_init: an entry is taken out of the list it is in, if any.      *)
LEMMA RemoveFirstKeeps ==
    ASSUME NEW U, NEW s \in Seq(U), NEW x
    PROVE  /\ RemoveFirst(s, x) \in Seq(U)
           /\ ToSet(RemoveFirst(s, x)) \subseteq ToSet(s)
           /\ ToSet(s) \subseteq ToSet(RemoveFirst(s, x)) \cup {x}
           /\ IsInjective(s) => /\ IsInjective(RemoveFirst(s, x))
                                /\ ToSet(RemoveFirst(s, x)) = ToSet(s) \ {x}
           /\ x \notin ToSet(s) => RemoveFirst(s, x) = s
<1> DEFINE I == {i \in 1 .. Len(s) : s[i] = x}
<1>1. Len(s) \in Nat /\ DOMAIN s = 1 .. Len(s)
  BY LenProperties
<1>2. CASE I = {}
  <2>1. RemoveFirst(s, x) = s
    BY <1>2, Zenon DEF RemoveFirst
  <2>2. x \notin ToSet(s)
    BY <1>1, <1>2 DEF ToSet
  <2> QED
    BY <2>1, <2>2
<1>3. CASE I # {}
  <2>1. \E i \in 1 .. Len(s) : s[i] = x
    BY <1>3, Zenon
  <2>2. RemoveFirst(s, x) = RemoveAt(s, Min(I))
    BY <1>3, <2>1, Zenon DEF RemoveFirst, SelectInSeq
  <2>3. I \in SUBSET Nat
    BY <1>1
  <2>4. Min(I) \in I
    BY <1>3, <2>3, MinIsLeast
  <2>5. PICK k \in 1 .. Len(s) : k = Min(I) /\ s[k] = x
    BY <2>4
  <2>6. x \in ToSet(s)
    BY <2>5, <1>1 DEF ToSet
  <2> HIDE DEF I
  <2> QED
    BY <2>2, <2>5, <2>6, RemoveAtFacts, RemoveAtKeeps
<1> QED
  BY <1>2, <1>3

(* q is the list s with the entry x in it as well, at position k.          *)
Inserted(q, s, k, x) ==
    /\ Len(s) \in Nat /\ DOMAIN s = 1 .. Len(s) /\ DOMAIN q = 1 .. Len(s) + 1
    /\ k \in 1 .. Len(s) + 1 /\ q[k] = x
    /\ \A i \in DOMAIN q : i < k => q[i] = s[i]
    /\ \A i \in DOMAIN q : i > k => q[i] = s[i - 1]

LEMMA InsertKeeps ==
    ASSUME NEW s, NEW x, NEW q, NEW k, Inserted(q, s, k, x)
    PROVE  /\ ToSet(q) = ToSet(s) \cup {x}
           /\ IsInjective(s) /\ x \notin ToSet(s) => IsInjective(q)
<1> USE DEF Inserted
<1>1. \A i \in DOMAIN q \ {k} : /\ (IF i < k THEN i ELSE i - 1) \in DOMAIN s
                                /\ q[i] = s[IF i < k THEN i ELSE i - 1]
  OBVIOUS
<1>2. \A i \in DOMAIN s : /\ (IF i < k THEN i ELSE i + 1) \in DOMAIN q
                          /\ q[IF i < k THEN i ELSE i + 1] = s[i]
  OBVIOUS
<1>3. ToSet(q) \subseteq ToSet(s) \cup {x}
  BY <1>1 DEF ToSet
<1>4. ToSet(s) \subseteq ToSet(q) /\ x \in ToSet(q)
  <2>1. k \in DOMAIN q /\ q[k] = x
    OBVIOUS
  <2>2. x \in ToSet(q)
    BY <2>1, Zenon DEF ToSet
  <2>3. ToSet(s) \subseteq ToSet(q)
    BY <1>2 DEF ToSet
  <2> QED
    BY <2>2, <2>3
<1>5. ASSUME IsInjective(s), x \notin ToSet(s)
      PROVE  IsInjective(q)
  <2>1. \A i, j \in DOMAIN s : s[i] = s[j] => i = j
    BY <1>5 DEF IsInjective
  <2>2. \A i \in DOMAIN s : s[i] # x
    BY <1>5 DEF ToSet
  <2>3. SUFFICES ASSUME NEW i \in DOMAIN q, NEW j \in DOMAIN q, q[i] = q[j]
                 PROVE  i = j
    BY DEF IsInjective
  <2>4. i = k <=> j = k
    BY <1>1, <2>2, <2>3
  <2>5. CASE i # k /\ j # k
    <3>1. (IF i < k THEN i ELSE i - 1) = (IF j < k THEN j ELSE j - 1)
      BY <1>1, <2>1, <2>3, <2>5
    <3> QED
      BY <3>1, <2>5
  <2> QED
    BY <2>4, <2>5
<1> QED
  BY <1>3, <1>4, <1>5

LEMMA AppendKeeps ==
    ASSUME NEW U, NEW s \in Seq(U), NEW x \in U
    PROVE  /\ Append(s, x) \in Seq(U)
           /\ ToSet(Append(s, x)) = ToSet(s) \cup {x}
           /\ IsInjective(s) /\ x \notin ToSet(s) => IsInjective(Append(s, x))
<1> DEFINE q == Append(s, x)
<1>1. /\ q \in Seq(U) /\ Len(q) = Len(s) + 1
      /\ Len(s) \in Nat /\ DOMAIN s = 1 .. Len(s)
      /\ \A i \in 1 .. Len(s) : q[i] = s[i]
      /\ q[Len(s) + 1] = x
  BY AppendProperties, LenProperties
<1> HIDE DEF q
<1>2. DOMAIN q = 1 .. Len(s) + 1 /\ Len(s) + 1 \in 1 .. Len(s) + 1
  BY <1>1, LenProperties
<1>3. Inserted(q, s, Len(s) + 1, x)
  BY <1>1, <1>2 DEF Inserted
<1>4. /\ ToSet(q) = ToSet(s) \cup {x}
      /\ IsInjective(s) /\ x \notin ToSet(s) => IsInjective(q)
  BY <1>3, InsertKeeps, Zenon
<1> QED
  BY <1>1, <1>4 DEF q

LEMMA PrependKeeps ==
    ASSUME NEW U, NEW s \in Seq(U), NEW x \in U
    PROVE  /\ <<x>> \o s \in Seq(U)
           /\ ToSet(<<x>> \o s) = ToSet(s) \cup {x}
           /\ IsInjective(s) /\ x \notin ToSet(s) => IsInjective(<<x>> \o s)
<1> DEFINE q == <<x>> \o s
<1>1. /\ <<x>> \in Seq(U) /\ Len(<<x>>) = 1 /\ <<x>>[1] = x
      /\ Len(s) \in Nat /\ DOMAIN s = 1 .. Len(s)
  BY LenProperties
<1>2. /\ q \in Seq(U) /\ Len(q) = 1 + Len(s)
      /\ \A i \in 1 .. 1 + Len(s) : q[i] = IF i <= 1 THEN <<x>>[i] ELSE s[i - 1]
  BY <1>1, ConcatProperties
<1> HIDE DEF q
<1>3. DOMAIN q = 1 .. Len(s) + 1 /\ 1 \in 1 .. Len(s) + 1
  BY <1>1, <1>2, LenProperties
<1>4. Inserted(q, s, 1, x)
  BY <1>1, <1>2, <1>3 DEF Inserted
<1>5. /\ ToSet(q) = ToSet(s) \cup {x}
      /\ IsInjective(s) /\ x \notin ToSet(s) => IsInjective(q)
  BY <1>4, InsertKeeps, Zenon
<1> QED
  BY <1>2, <1>5 DEF q

(* The loops that look for the best process find one of the queue.         *)
LEMMA BestIsThere ==
    ASSUME NEW s \in Seq(Pids), s # <<>>, NEW rank \in [Pids -> Int]
    PROVE  \E i \in DOMAIN s :
               /\ \A j \in DOMAIN s : rank[s[j]] <= rank[s[i]]
               /\ \A j \in 1 .. (i - 1) : rank[s[j]] < rank[s[i]]
<1> DEFINE Best(n, i) == /\ \A j \in 1 .. n : rank[s[j]] <= rank[s[i]]
                         /\ \A j \in 1 .. (i - 1) : rank[s[j]] < rank[s[i]]
           Bad == {n \in 1 .. Len(s) : ~ \E i \in 1 .. n : Best(n, i)}
<1>1. Len(s) \in Nat \ {0} /\ DOMAIN s = 1 .. Len(s)
  BY LenProperties, EmptySeq
<1>2. \A j \in 1 .. Len(s) : rank[s[j]] \in Int
  BY <1>1, ElementOfSeq
<1>3. Bad \in SUBSET Nat
  BY <1>1
<1>4. ASSUME Bad # {}
      PROVE  FALSE
  <2>1. PICK n \in Bad : \A m \in Bad : n <= m
    BY <1>3, <1>4, LeastNat
  <2>2. n \in 1 .. Len(s) /\ ~ \E i \in 1 .. n : Best(n, i)
    BY <2>1
  <2>3. CASE n = 1
    <3>1. Best(1, 1)
      BY <1>1, <1>2
    <3> QED
      BY <2>2, <2>3, <3>1
  <2>4. CASE n # 1
    <3>1. n - 1 \in 1 .. Len(s) /\ ~ (n <= n - 1)
      BY <2>2, <2>4, <1>1
    <3>2. n - 1 \notin Bad
      BY <3>1, <2>1
    <3>3. PICK i \in 1 .. n - 1 : Best(n - 1, i)
      BY <3>1, <3>2
    <3>4. CASE rank[s[n]] <= rank[s[i]]
      <4>1. Best(n, i)
        BY <3>3, <3>4, <1>2, <2>2
      <4> QED
        BY <4>1, <3>3, <2>2
    <3>5. CASE ~ (rank[s[n]] <= rank[s[i]])
      <4>1. rank[s[i]] < rank[s[n]] /\ rank[s[n]] \in Int /\ rank[s[i]] \in Int
        BY <3>5, <1>2, <2>2, <3>3
      <4>2. Best(n, n)
        BY <4>1, <3>3, <1>2, <2>2
      <4> QED
        BY <4>2, <2>2
    <3> QED
      BY <3>4, <3>5
  <2> QED
    BY <2>3, <2>4
<1>5. Len(s) \in 1 .. Len(s)
  BY <1>1
<1>6. Len(s) \notin Bad
  <2> HIDE DEF Bad
  <2> QED
    BY <1>4, Zenon
<1>7. PICK i \in 1 .. Len(s) : Best(Len(s), i)
  BY <1>5, <1>6, Zenon
<1> QED
  BY <1>1, <1>7

LEMMA FirstBestIsBest ==
    ASSUME NEW s \in Seq(Pids), s # <<>>, NEW rank \in [Pids -> Int]
    PROVE  \E i \in DOMAIN s :
               /\ FirstBest(s, rank) = s[i]
               /\ \A j \in DOMAIN s : rank[s[j]] <= rank[s[i]]
               /\ \A j \in 1 .. (i - 1) : rank[s[j]] < rank[s[i]]
<1> DEFINE i == CHOOSE i \in DOMAIN s :
                    /\ \A j \in DOMAIN s : rank[s[j]] =< rank[s[i]]
                    /\ \A j \in 1 .. (i - 1) : rank[s[j]] < rank[s[i]]
<1>1. /\ i \in DOMAIN s
      /\ \A j \in DOMAIN s : rank[s[j]] <= rank[s[i]]
      /\ \A j \in 1 .. (i - 1) : rank[s[j]] < rank[s[i]]
  BY BestIsThere, Zenon
<1>2. FirstBest(s, rank) = s[i]
  BY DEF FirstBest
<1> QED
  BY <1>1, <1>2

-----------------------------------------------------------------------------
(* What the schedule() functions of all versions have in common.           *)

(* The policies that look at the status of current before they go on with  *)
(* it, those that may take the processor away from it, and those that give *)
(* everybody a turn before it is that of current again.                    *)
LooksAtStatus == policy \in {"fifo", "prio", "pcp", "pip"}
PutsBack == policy \notin {"fifo", "sjf", "pip_sjf", "try_sjf"}
InTurn == policy \in {"rr", "prio", "pcp", "pip", "pcp_prio", "pcp_pcp", "pcp_pip"}
First(q) == IF policy = "rr" THEN Head(q) ELSE Highest(q)

(* When a policy may turn to another process, and to which one.            *)
Gives == policy = "try_sjf" \/ ~HasTime \/ (LooksAtStatus /\ Blocked)
Finds(p) ==
    /\ InTurn => p = First(readyqueue)
    /\ policy = "sjf" => script[p].lifespan < SjfLimit
    /\ policy = "pip_sjf" => \E o \in ToSet(readyqueue) : o # p
    /\ policy = "prio_srtf" =>
          \A o \in ToSet(readyqueue) : script[p].lifespan <= script[o].lifespan
    /\ policy = "prio_prio" /\ current = NoProcess => prio[p] > 0

(* current goes back into the ready queue, at its tail or at its head, and *)
(* p is taken out: it may be current itself if that has time.              *)
Yields(p) ==
    /\ PutsBack
    /\ LooksAtStatus => ~Blocked
    /\ \/ HasTime /\ policy \notin {"prio_srtf", "prio_prio"}
       \/ /\ p \in ToSet(readyqueue)
          /\ \/ policy = "prio_srtf" /\ script[p].lifespan < script[current].lifespan
             \/ policy = "prio_prio" /\ prio[current] < prio[p]
Swaps(q, p) ==
    /\ current \in Pids
    /\ readyqueue # <<>>
    /\ q \in {Append(readyqueue, current), <<current>> \o readyqueue}
    /\ InTurn => q = Append(readyqueue, current) /\ p = First(q)
    /\ p \in ToSet(q)
    /\ Yields(p)
    /\ PutBack(q, p)

(* What a policy may find that it cannot take.                             *)
Crashes ==
    \/ /\ policy \in {"sjf", "try_sjf", "prio_srtf"}
       /\ \E p \in ToSet(readyqueue) : script[p].lifespan >= SjfLimit
    \/ policy = "pip_sjf"
    \/ policy = "rr" /\ readyqueue = <<>> /\ current = NoProcess
    \/ policy = "prio_prio" /\ current = NoProcess /\ \E p \in ToSet(readyqueue) : prio[p] = 0

Choice ==
    \/ Crashes /\ Crash
    \/ /\ HasTime /\ (LooksAtStatus => ~Blocked) /\ (InTurn => readyqueue = <<>>)
       /\ Return(current)
    \/ Gives /\ readyqueue # <<>> /\ \E p \in ToSet(readyqueue) : Finds(p) /\ Return(p)
    \/ /\ Gives /\ readyqueue = <<>> /\ (policy = "rr" => current # NoProcess)
       /\ Return(NoProcess)
    \/ \E q, p : Swaps(q, p)

LEMMA ScriptFacts ==
    ASSUME TypeOK, NEW p \in Pids
    PROVE  /\ script[p].start \in Nat /\ script[p].prio \in Nat /\ script[p].lifespan \in Nat
           /\ script[p].acquire \in Seq(Request)
           /\ IsInjective(script[p].acquire)
           /\ \A q \in Asks(p) : q \in Request /\ q.duration > 0
<1>1. PICK c \in Cases : script = c.script
  BY DEF TypeOK
<1>2. LET d == c.script[p] IN
         /\ d.start \in Nat /\ d.prio \in Nat /\ d.lifespan \in Nat
         /\ d.acquire \in Seq(Request)
         /\ \A i \in DOMAIN d.acquire :
               /\ d.acquire[i].duration > 0
               /\ \A j \in DOMAIN d.acquire : d.acquire[i] = d.acquire[j] => i = j
  BY CasesAssumption, Zenon
<1>3. \A i \in DOMAIN script[p].acquire : script[p].acquire[i] \in Request
  BY <1>1, <1>2, LenProperties, ElementOfSeq
<1> QED
  BY <1>1, <1>2, <1>3 DEF Asks, ToSet, IsInjective

(* The ranks of the searches are numbers, and the result is in the queue.  *)
LEMMA RanksAreNumbers ==
    ASSUME TypeOK
    PROVE  [p \in Pids |-> -script[p].lifespan] \in [Pids -> Int] /\ prio \in [Pids -> Int]
<1>1. \A p \in Pids : script[p].lifespan \in Nat
  BY ScriptFacts
<1>2. prio \in [Pids -> Nat]
  BY DEF TypeOK
<1> QED
  BY <1>1, <1>2

LEMMA SearchesFind ==
    ASSUME TypeOK, NEW s \in Seq(Pids), s # <<>>
    PROVE  /\ Shortest(s) \in ToSet(s)
           /\ \A p \in ToSet(s) : script[Shortest(s)].lifespan <= script[p].lifespan
           /\ Highest(s) \in ToSet(s)
           /\ \A p \in ToSet(s) : prio[p] <= prio[Highest(s)]
           /\ LastHighest(s) \in ToSet(s)
           /\ \A p \in ToSet(s) : prio[p] <= prio[LastHighest(s)]
<1> DEFINE rank == [p \in Pids |-> -script[p].lifespan]
           r == Reverse(s)
<1>1. rank \in [Pids -> Int] /\ prio \in [Pids -> Int]
  BY RanksAreNumbers
<1>2. /\ DOMAIN s = 1 .. Len(s) /\ Len(s) \in Nat \ {0}
      /\ \A i \in DOMAIN s : s[i] \in Pids
  BY LenProperties, EmptySeq, ElementOfSeq
<1>3. r \in Seq(Pids) /\ r # <<>> /\ DOMAIN r = 1 .. Len(s)
      /\ \A i \in 1 .. Len(s) : r[i] = s[Len(s) - i + 1]
  <2>1. \A i \in 1 .. Len(s) : Len(s) - i + 1 \in 1 .. Len(s)
    BY <1>2
  <2>2. r = [i \in 1 .. Len(s) |-> s[(Len(s) - i) + 1]]
    BY Zenon DEF Reverse
  <2>3. r \in [1 .. Len(s) -> Pids]
    BY <1>2, <2>1, <2>2
  <2>4. r \in Seq(Pids)
    BY <1>2, <2>3
  <2> QED
    BY <2>1, <2>2, <2>4, <1>2, LenProperties, EmptySeq
<1>4. ToSet(r) = ToSet(s)
  <2>1. \A i \in 1 .. Len(s) : /\ Len(s) - i + 1 \in 1 .. Len(s)
                               /\ Len(s) - (Len(s) - i + 1) + 1 = i
    BY <1>2
  <2> HIDE DEF r
  <2> QED
    BY <1>2, <1>3, <2>1 DEF ToSet
<1> HIDE DEF rank, r
<1>5. PICK i \in DOMAIN s : /\ FirstBest(s, rank) = s[i]
                            /\ \A j \in DOMAIN s : rank[s[j]] <= rank[s[i]]
  BY <1>1, FirstBestIsBest
<1>6. PICK k \in DOMAIN s : /\ FirstBest(s, prio) = s[k]
                            /\ \A j \in DOMAIN s : prio[s[j]] <= prio[s[k]]
  BY <1>1, FirstBestIsBest
<1>7. PICK m \in DOMAIN r : /\ FirstBest(r, prio) = r[m]
                            /\ \A j \in DOMAIN r : prio[r[j]] <= prio[r[m]]
  BY <1>1, <1>3, FirstBestIsBest
<1>8. \A p \in Pids : rank[p] = -script[p].lifespan /\ script[p].lifespan \in Nat
  BY ScriptFacts DEF rank
<1>9. Shortest(s) = FirstBest(s, rank) /\ Highest(s) = FirstBest(s, prio)
      /\ LastHighest(s) = FirstBest(r, prio)
  BY DEF Shortest, Highest, LastHighest, rank, r
<1>10. Shortest(s) \in ToSet(s) /\ Highest(s) \in ToSet(s) /\ LastHighest(s) \in ToSet(r)
  BY <1>5, <1>6, <1>7, <1>9 DEF ToSet
<1>11. \A p \in ToSet(s) : script[Shortest(s)].lifespan <= script[p].lifespan
  BY <1>2, <1>5, <1>8, <1>9 DEF ToSet
<1>12. \A p \in ToSet(s) : prio[p] <= prio[Highest(s)]
  BY <1>6, <1>9 DEF ToSet
<1>13. \A p \in ToSet(r) : prio[p] <= prio[LastHighest(s)]
  BY <1>7, <1>9 DEF ToSet
<1> QED
  BY <1>4, <1>10, <1>11, <1>12, <1>13

LEMMA ElementsArePids ==
    ASSUME NEW s \in Seq(Pids)
    PROVE  \A p \in ToSet(s) : p \in Pids
BY LenProperties, ElementOfSeq DEF ToSet

LEMMA HeadIsThere ==
    ASSUME NEW s \in Seq(Pids), s # <<>>
    PROVE  Head(s) \in ToSet(s) /\ Head(s) \in Pids
<1>1. Len(s) \in Nat \ {0} /\ DOMAIN s = 1 .. Len(s)
  BY LenProperties, EmptySeq
<1>2. 1 \in DOMAIN s /\ Head(s) = s[1]
  BY <1>1
<1>3. s[1] \in Pids
  BY <1>1, ElementOfSeq
<1> QED
  BY <1>2, <1>3 DEF ToSet

(* A queue with current in it holds current and what it held before.       *)
LEMMA QueuesWithCurrent ==
    ASSUME TypeOK, current \in Pids,
           NEW q \in {Append(readyqueue, current), <<current>> \o readyqueue}
    PROVE  /\ q \in Seq(Pids) /\ q # <<>>
           /\ ToSet(q) = ToSet(readyqueue) \cup {current}
           /\ IsInjective(readyqueue) /\ current \notin ToSet(readyqueue) => IsInjective(q)
<1>1. readyqueue \in Seq(Pids)
  BY DEF TypeOK
<1>2. /\ q \in Seq(Pids) /\ ToSet(q) = ToSet(readyqueue) \cup {current}
      /\ IsInjective(readyqueue) /\ current \notin ToSet(readyqueue) => IsInjective(q)
  <2>1. CASE q = Append(readyqueue, current)
    BY <1>1, <2>1, AppendKeeps
  <2>2. CASE q = <<current>> \o readyqueue
    BY <1>1, <2>2, PrependKeeps
  <2> QED
    BY <2>1, <2>2
<1>3. q # <<>>
  <2>1. current \in ToSet(q)
    BY <1>2
  <2> QED
    BY <1>2, <2>1, LenProperties DEF ToSet
<1> QED
  BY <1>2, <1>3

(* Each schedule() makes such a choice.                                    *)
LEMMA FifoChooses ==
    ASSUME TypeOK, fifo_schedule, policy = "fifo"
    PROVE  Choice
<1>1. readyqueue # <<>> => Head(readyqueue) \in ToSet(readyqueue)
  BY HeadIsThere DEF TypeOK
<1> QED
  BY <1>1 DEF fifo_schedule, Choice, FirstReady, Gives, LooksAtStatus, InTurn, Finds

LEMMA SjfChooses ==
    ASSUME TypeOK, sjf_schedule, policy = "sjf"
    PROVE  Choice
<1>1. readyqueue # <<>> => Shortest(readyqueue) \in ToSet(readyqueue)
  BY SearchesFind DEF TypeOK
<1>2. CASE HasTime \/ readyqueue = <<>>
  BY <1>2 DEF sjf_schedule, Choice, Gives, LooksAtStatus, InTurn
<1>3. CASE ~HasTime /\ readyqueue # <<>>
  <2> DEFINE p == Shortest(readyqueue)
  <2>1. p \in ToSet(readyqueue)
    BY <1>1, <1>3
  <2>2. p \in Pids
    BY <2>1, ElementsArePids DEF TypeOK
  <2>3. script[p].lifespan \in Nat
    BY <2>2, ScriptFacts
  <2>4. IF script[p].lifespan >= SjfLimit THEN Crash ELSE Return(p)
    BY <1>3 DEF sjf_schedule
  <2> HIDE DEF p
  <2>5. CASE script[p].lifespan >= SjfLimit
    BY <2>1, <2>4, <2>5 DEF Choice, Crashes
  <2>6. CASE ~(script[p].lifespan >= SjfLimit)
    <3>1. Finds(p)
      BY <2>3, <2>6 DEF Finds, InTurn, SjfLimit
    <3> QED
      BY <1>3, <2>1, <2>4, <2>6, <3>1 DEF Choice, Gives
  <2> QED
    BY <2>5, <2>6
<1> QED
  BY <1>2, <1>3

LEMMA SrtfChooses ==
    ASSUME TypeOK, srtf_schedule, policy = "srtf"
    PROVE  Choice
<1> DEFINE q == <<current>> \o readyqueue
           s == <<Head(readyqueue)>> \o q
<1>1. ASSUME HasTime, readyqueue # <<>>
      PROVE  Shortest(s) \in ToSet(q) /\ current \in Pids
  <2>1. current \in Pids /\ readyqueue \in Seq(Pids)
    BY <1>1 DEF HasTime, TypeOK, Pids, NoProcess
  <2>2. /\ q \in Seq(Pids) /\ ToSet(q) = ToSet(readyqueue) \cup {current}
    BY <2>1, QueuesWithCurrent
  <2> HIDE DEF q
  <2>3. Head(readyqueue) \in ToSet(readyqueue) /\ Head(readyqueue) \in Pids
    BY <1>1, <2>1, HeadIsThere
  <2>4. s \in Seq(Pids) /\ s # <<>> /\ ToSet(s) \subseteq ToSet(q)
    <3>1. <<Head(readyqueue)>> \in Seq(Pids) /\ Len(<<Head(readyqueue)>>) = 1
          /\ <<Head(readyqueue)>>[1] = Head(readyqueue)
      BY <2>3
    <3>2. /\ s \in Seq(Pids) /\ Len(s) = 1 + Len(q)
          /\ \A i \in 1 .. 1 + Len(q) :
                s[i] = IF i <= 1 THEN <<Head(readyqueue)>>[i] ELSE q[i - 1]
      BY <2>2, <3>1, ConcatProperties
    <3>3. DOMAIN s = 1 .. 1 + Len(q) /\ DOMAIN q = 1 .. Len(q) /\ Len(q) \in Nat
      BY <2>2, <3>2, LenProperties
    <3> HIDE DEF s
    <3>4. \A i \in DOMAIN s : s[i] \in ToSet(q)
      <4> SUFFICES ASSUME NEW i \in DOMAIN s PROVE s[i] \in ToSet(q)
        OBVIOUS
      <4>1. CASE i = 1
        BY <4>1, <3>1, <3>2, <3>3, <2>2, <2>3
      <4>2. CASE i # 1
        <5>1. i - 1 \in DOMAIN q /\ s[i] = q[i - 1]
          BY <4>2, <3>2, <3>3
        <5> QED
          BY <5>1 DEF ToSet
      <4> QED
        BY <4>1, <4>2
    <3> QED
      BY <3>2, <3>3, <3>4 DEF ToSet
  <2> HIDE DEF s
  <2> QED
    BY <2>1, <2>4, SearchesFind
<1>2. readyqueue # <<>> => Shortest(readyqueue) \in ToSet(readyqueue)
  BY SearchesFind DEF TypeOK
<1>3. CASE readyqueue # <<>> /\ HasTime
  <2>1. PutBack(q, Shortest(s))
    BY <1>3 DEF srtf_schedule
  <2>2. Swaps(q, Shortest(s))
    <3> HIDE DEF s
    <3> QED
      BY <1>1, <1>3, <2>1 DEF Swaps, Yields, PutsBack, InTurn, LooksAtStatus
  <2> QED
    BY <2>2 DEF Choice
<1>4. CASE readyqueue = <<>>
  BY <1>4 DEF srtf_schedule, Choice, Gives, LooksAtStatus, InTurn
<1>5. CASE readyqueue # <<>> /\ ~HasTime
  BY <1>2, <1>5 DEF srtf_schedule, Choice, Gives, Finds, InTurn
<1> QED
  BY <1>3, <1>4, <1>5

LEMMA RrChooses ==
    ASSUME TypeOK, rr_schedule, policy = "rr"
    PROVE  Choice
<1>1. readyqueue # <<>> => Head(readyqueue) \in ToSet(readyqueue)
  BY HeadIsThere DEF TypeOK
<1>2. CASE readyqueue # <<>> /\ HasTime
  <2>1. current \in Pids
    BY <1>2 DEF HasTime, TypeOK, Pids, NoProcess
  <2>2. ToSet(Append(readyqueue, current)) = ToSet(readyqueue) \cup {current}
    BY <2>1, QueuesWithCurrent
  <2>3. PutBack(Append(readyqueue, current), Head(readyqueue))
    BY <1>2 DEF rr_schedule
  <2>4. Head(Append(readyqueue, current)) = Head(readyqueue)
    <3>1. Len(readyqueue) \in Nat \ {0} /\ readyqueue \in Seq(Pids)
      BY <1>2, LenProperties, EmptySeq DEF TypeOK
    <3>2. Append(readyqueue, current)[1] = readyqueue[1]
      BY <2>1, <3>1, AppendProperties
    <3>3. Head(readyqueue) = readyqueue[1]
      BY <3>1
    <3>4. Append(readyqueue, current) \in Seq(Pids) /\ Append(readyqueue, current) # <<>>
      BY <2>1, QueuesWithCurrent
    <3>5. Head(Append(readyqueue, current)) = Append(readyqueue, current)[1]
      BY <3>4
    <3> QED
      BY <3>2, <3>3, <3>5
  <2>5. Swaps(Append(readyqueue, current), Head(readyqueue))
    BY <1>1, <1>2, <2>1, <2>2, <2>3, <2>4
        DEF Swaps, Yields, PutsBack, InTurn, First, LooksAtStatus
  <2> QED
    BY <2>5 DEF Choice
<1>3. CASE readyqueue = <<>>
  BY <1>3 DEF rr_schedule, Choice, Crashes, Gives, LooksAtStatus
<1>4. CASE readyqueue # <<>> /\ ~HasTime
  BY <1>1, <1>4 DEF rr_schedule, Choice, Gives, Finds, InTurn, First
<1> QED
  BY <1>2, <1>3, <1>4

LEMMA PrioChooses ==
    ASSUME TypeOK, prio_schedule, policy \in {"prio", "pcp", "pip"}
    PROVE  Choice
<1>1. readyqueue # <<>> => Highest(readyqueue) \in ToSet(readyqueue)
  BY SearchesFind DEF TypeOK
<1>2. CASE readyqueue # <<>> /\ HasTime /\ ~Blocked
  <2>1. current \in Pids
    BY <1>2 DEF HasTime, TypeOK, Pids, NoProcess
  <2> DEFINE q == Append(readyqueue, current)
  <2>2. q \in Seq(Pids) /\ q # <<>>
    BY <2>1, QueuesWithCurrent
  <2>3. PutBack(q, Highest(q))
    BY <1>2 DEF prio_schedule
  <2>4. Swaps(q, Highest(q))
    BY <1>2, <2>1, <2>2, <2>3, SearchesFind DEF Swaps, Yields, PutsBack, InTurn, First
  <2> QED
    BY <2>4 DEF Choice
<1>3. CASE readyqueue = <<>>
  BY <1>3 DEF prio_schedule, Choice, Gives, LooksAtStatus
<1>4. CASE readyqueue # <<>> /\ ~(HasTime /\ ~Blocked)
  BY <1>1, <1>4 DEF prio_schedule, Choice, Gives, LooksAtStatus, Finds, First
<1> QED
  BY <1>2, <1>3, <1>4

LEMMA TrySjfChooses ==
    ASSUME TypeOK, try_sjf_schedule, policy = "try_sjf"
    PROVE  Choice
<1>1. readyqueue # <<>> => Head(readyqueue) \in ToSet(readyqueue)
  BY HeadIsThere DEF TypeOK
<1> QED
  BY <1>1 DEF try_sjf_schedule, Ready, Lifespan, Choice, Crashes, Gives, Finds, InTurn

LEMMA PipSjfChooses ==
    ASSUME TypeOK, pip_sjf_schedule, policy = "pip_sjf"
    PROVE  Choice
<1>1. readyqueue # <<>> => Shortest(readyqueue) \in ToSet(readyqueue)
  BY SearchesFind DEF TypeOK
<1>2. CASE HasTime \/ readyqueue = <<>>
  BY <1>2 DEF pip_sjf_schedule, Ready, Choice, Gives, LooksAtStatus, InTurn
<1>3. CASE ~HasTime /\ readyqueue # <<>>
  <2> DEFINE p == Shortest(readyqueue)
             o == Head(readyqueue)
  <2>1. p \in ToSet(readyqueue) /\ o \in ToSet(readyqueue)
    BY <1>1, <1>3, HeadIsThere DEF TypeOK
  <2>2. o \in Pids
    BY <2>1, ElementsArePids DEF TypeOK
  <2>3. script[o].lifespan \in Nat
    BY <2>2, ScriptFacts
  <2>4. IF script[p].lifespan >= script[o].lifespan THEN Crash ELSE Return(p)
    BY <1>3 DEF pip_sjf_schedule, Ready, NoneBelow, Lifespan
  <2> HIDE DEF p, o
  <2>5. CASE script[p].lifespan >= script[o].lifespan
    BY <2>4, <2>5 DEF Choice, Crashes
  <2>6. CASE ~(script[p].lifespan >= script[o].lifespan)
    <3>1. o # p
      BY <2>3, <2>6
    <3>2. Finds(p)
      BY <2>1, <3>1 DEF Finds, InTurn
    <3> QED
      BY <1>3, <2>1, <2>4, <2>6, <3>2 DEF Choice, Gives
  <2> QED
    BY <2>5, <2>6
<1> QED
  BY <1>2, <1>3

LEMMA PrioSrtfChooses ==
    ASSUME TypeOK, prio_srtf_schedule, policy = "prio_srtf"
    PROVE  Choice
<1> DEFINE q == <<current>> \o readyqueue
           p == Shortest(readyqueue)
<1>1. readyqueue # <<>> =>
         /\ p \in ToSet(readyqueue) /\ p \in Pids
         /\ \A o \in ToSet(readyqueue) : script[p].lifespan <= script[o].lifespan
  BY SearchesFind, ElementsArePids DEF TypeOK
<1>2. CASE /\ readyqueue # <<>> /\ ~NoneBelow(SjfLimit)
           /\ current # NoProcess /\ Lifespan(current) > Lifespan(p)
  <2>1. current \in Pids
    BY <1>2 DEF TypeOK
  <2>2. ToSet(q) = ToSet(readyqueue) \cup {current}
    BY <2>1, QueuesWithCurrent
  <2>3. script[current].lifespan \in Nat /\ script[p].lifespan \in Nat
    BY <1>1, <1>2, <2>1, ScriptFacts
  <2>4. PutBack(q, p)
    BY <1>2 DEF prio_srtf_schedule, Ready
  <2> HIDE DEF p
  <2>5. script[p].lifespan < script[current].lifespan
    BY <1>2, <2>3 DEF Lifespan
  <2>6. Swaps(q, p)
    BY <1>1, <1>2, <2>1, <2>2, <2>4, <2>5 DEF Swaps, Yields, PutsBack, InTurn, LooksAtStatus
  <2> QED
    BY <2>6 DEF Choice
<1>3. CASE readyqueue = <<>>
  BY <1>3 DEF prio_srtf_schedule, Ready, Keep, Choice, Gives, LooksAtStatus, InTurn
<1>4. CASE readyqueue # <<>> /\ NoneBelow(SjfLimit)
  BY <1>1, <1>4 DEF prio_srtf_schedule, Ready, NoneBelow, Lifespan, Choice, Crashes
<1>5. CASE /\ readyqueue # <<>> /\ ~NoneBelow(SjfLimit)
           /\ ~(current # NoProcess /\ Lifespan(current) > Lifespan(p))
  <2>1. Return(IF HasTime THEN current ELSE p)
    BY <1>5 DEF prio_srtf_schedule, Ready
  <2> HIDE DEF p
  <2>2. Finds(p)
    BY <1>1, <1>5 DEF Finds, InTurn
  <2> QED
    BY <1>1, <1>5, <2>1, <2>2 DEF Choice, Gives, LooksAtStatus, InTurn
<1> QED
  BY <1>2, <1>3, <1>4, <1>5

LEMMA PrioPrioChooses ==
    ASSUME TypeOK, prio_prio_schedule, policy = "prio_prio"
    PROVE  Choice
<1> DEFINE q == Append(readyqueue, current)
           p == LastHighest(readyqueue)
<1>1. readyqueue # <<>> => p \in ToSet(readyqueue) /\ Highest(readyqueue) \in ToSet(readyqueue)
  BY SearchesFind DEF TypeOK
<1>2. CASE readyqueue # <<>> /\ current # NoProcess /\ prio[current] < prio[p]
  <2>1. current \in Pids
    BY <1>2 DEF TypeOK
  <2>2. ToSet(q) = ToSet(readyqueue) \cup {current}
    BY <2>1, QueuesWithCurrent
  <2>3. PutBack(q, p)
    BY <1>2 DEF prio_prio_schedule, Ready
  <2> HIDE DEF p
  <2>4. Swaps(q, p)
    BY <1>1, <1>2, <2>1, <2>2, <2>3 DEF Swaps, Yields, PutsBack, InTurn, LooksAtStatus
  <2> QED
    BY <2>4 DEF Choice
<1>3. CASE readyqueue = <<>>
  BY <1>3 DEF prio_prio_schedule, Ready, Keep, Choice, Gives, LooksAtStatus, InTurn
<1>4. CASE readyqueue # <<>> /\ current = NoProcess
  <2> DEFINE o == Highest(readyqueue)
  <2>1. o \in ToSet(readyqueue) /\ ~HasTime
    BY <1>1, <1>4 DEF HasTime
  <2>2. prio[o] \in Nat
    BY <2>1, ElementsArePids DEF TypeOK
  <2>3. IF prio[o] = 0 THEN Crash ELSE Return(o)
    BY <1>4 DEF prio_prio_schedule, Ready
  <2> HIDE DEF o
  <2>4. CASE prio[o] = 0
    BY <1>4, <2>1, <2>3, <2>4 DEF Choice, Crashes
  <2>5. CASE prio[o] # 0
    <3>1. Finds(o)
      BY <2>2, <2>5 DEF Finds, InTurn
    <3> QED
      BY <1>4, <2>1, <2>3, <2>5, <3>1 DEF Choice, Gives
  <2> QED
    BY <2>4, <2>5
<1>5. CASE readyqueue # <<>> /\ current # NoProcess /\ ~(prio[current] < prio[p])
  <2>1. Return(IF HasTime THEN current ELSE p)
    BY <1>5 DEF prio_prio_schedule, Ready
  <2> HIDE DEF p
  <2>2. Finds(p)
    BY <1>5 DEF Finds, InTurn
  <2> QED
    BY <1>1, <1>5, <2>1, <2>2 DEF Choice, Gives, LooksAtStatus, InTurn
<1> QED
  BY <1>2, <1>3, <1>4, <1>5

LEMMA PcpPrioChooses ==
    ASSUME TypeOK, pcp_prio_schedule, policy \in {"pcp_prio", "pcp_pcp", "pcp_pip"}
    PROVE  Choice
<1>1. readyqueue # <<>> => Highest(readyqueue) \in ToSet(readyqueue)
  BY SearchesFind DEF TypeOK
<1>2. CASE readyqueue # <<>> /\ HasTime
  <2>1. current \in Pids
    BY <1>2 DEF HasTime, TypeOK, Pids, NoProcess
  <2> DEFINE q == Append(readyqueue, current)
  <2>2. q \in Seq(Pids) /\ q # <<>>
    BY <2>1, QueuesWithCurrent
  <2>3. PutBack(q, Highest(q))
    BY <1>2 DEF pcp_prio_schedule, Ready
  <2>4. Swaps(q, Highest(q))
    BY <1>2, <2>1, <2>2, <2>3, SearchesFind
        DEF Swaps, Yields, PutsBack, LooksAtStatus, InTurn, First
  <2> QED
    BY <2>4 DEF Choice
<1>3. CASE readyqueue = <<>>
  BY <1>3 DEF pcp_prio_schedule, Ready, Keep, Choice, Gives, LooksAtStatus
<1>4. CASE readyqueue # <<>> /\ ~HasTime
  BY <1>1, <1>4 DEF pcp_prio_schedule, Ready, Choice, Gives, Finds, First
<1> QED
  BY <1>2, <1>3, <1>4

(* The call of schedule(), in any version.                                 *)
ScheduleStep ==
    /\ pc = "schedule"
    /\ prev' = current
    /\ UNCHANGED <<policy, script, ticks, forkqueue, waitqueue, owner, status, age, prio,
                   toAcquire, holding>>

LEMMA SchedulesChoose ==
    ASSUME TypeOK, Schedule \/ DraftSchedule
    PROVE  ScheduleStep /\ Choice
<1>1. CASE Schedule
  <2>1. ScheduleStep
    BY <1>1 DEF Schedule, Calls, ScheduleStep
  <2>2. \/ policy = "fifo" /\ fifo_schedule
        \/ policy = "sjf" /\ sjf_schedule
        \/ policy = "srtf" /\ srtf_schedule
        \/ policy = "rr" /\ rr_schedule
        \/ policy \in {"prio", "pcp", "pip"} /\ prio_schedule
    BY <1>1, Zenon DEF Schedule, Calls
  <2> QED
    BY <2>1, <2>2, FifoChooses, SjfChooses, SrtfChooses, RrChooses, PrioChooses, Zenon
<1>2. CASE DraftSchedule
  <2>1. ScheduleStep
    BY <1>2 DEF DraftSchedule, Calls, ScheduleStep
  <2>2. \/ try_sjf_c_schedule \/ SJF_schedule \/ Prio_schedule \/ PCP_schedule \/ PIP_schedule
    BY <1>2, Zenon DEF DraftSchedule, Calls, Fixing_schedule
  <2>3. \/ policy = "fifo" /\ fifo_schedule
        \/ policy = "sjf" /\ sjf_schedule
        \/ policy = "srtf" /\ srtf_schedule
        \/ policy = "rr" /\ rr_schedule
        \/ policy \in {"prio", "pcp", "pip"} /\ prio_schedule
        \/ policy = "try_sjf" /\ try_sjf_schedule
        \/ policy = "pip_sjf" /\ pip_sjf_schedule
        \/ policy = "prio_srtf" /\ prio_srtf_schedule
        \/ policy = "prio_prio" /\ prio_prio_schedule
        \/ policy \in {"pcp_prio", "pcp_pcp", "pcp_pip"} /\ pcp_prio_schedule
    BY <2>2, Zenon DEF try_sjf_c_schedule, SJF_schedule, Prio_schedule, PCP_schedule, PIP_schedule
  <2> QED
    BY <2>1, <2>3, FifoChooses, SjfChooses, SrtfChooses, RrChooses, PrioChooses,
       TrySjfChooses, PipSjfChooses, PrioSrtfChooses, PrioPrioChooses, PcpPrioChooses, Zenon
<1> QED
  BY <1>1, <1>2

-----------------------------------------------------------------------------
(* acquire() and release(), and what they do to the priorities.            *)

Granting ==
    IF policy \in {"pcp", "pcp_pcp"} THEN [prio EXCEPT ![current] = MaxPrio] ELSE prio
Lending ==
    IF policy = "pip" /\ prio[owner[Asked]] < prio[current]
    THEN [prio EXCEPT ![owner[Asked]] = prio[current]]
    ELSE prio
Restoring == IF Fcfs THEN prio ELSE [prio EXCEPT ![current] = script[current].prio]

AnyGrant ==
    /\ pc = "run" /\ Pending(current) # {} /\ Free
    /\ owner' = [owner EXCEPT ![Asked] = current]
    /\ toAcquire' = [toAcquire EXCEPT ![current] = RemoveAt(@, Min(Pending(current)))]
    /\ holding' = [holding EXCEPT ![current] = Append(@, NextRequest(current))]
    /\ prio' = Granting /\ prio' \in [Pids -> Nat]
    /\ UNCHANGED <<policy, script, ticks, pc, current, prev, forkqueue, readyqueue, waitqueue,
                   status, age>>

AnyRefusal ==
    /\ pc = "run" /\ Pending(current) # {} /\ ~Free
    /\ status' = [status EXCEPT ![current] = "wait"]
    /\ waitqueue' = [waitqueue EXCEPT ![Asked] = Append(@, current)]
    /\ EndTick
    /\ prio' = Lending /\ prio' \in [Pids -> Nat]
    /\ UNCHANGED <<policy, script, current, prev, forkqueue, readyqueue, owner, age, toAcquire,
                   holding>>

Wakes ==
    IF waitqueue[Released] = <<>> THEN UNCHANGED <<waitqueue, status, readyqueue>>
    ELSE \E w \in ToSet(waitqueue[Released]) :
            /\ WakeUp(w)
            /\ policy \in {"pcp", "pip"} => w = Highest(waitqueue[Released])

(* The assertions of a release.                                            *)
Asleep == \A w \in ToSet(waitqueue[Released]) : status[w] = "wait"
Disowns ==
    /\ owner' = [owner EXCEPT ![Released] = NoProcess]
    /\ pc' \in {"release", "assert"}
    /\ owner[Released] # current => pc' = "assert"
    /\ owner[Released] = current /\ Asleep => pc' = "release"

AnyRelease ==
    /\ pc = "release" /\ Over(current) # {}
    /\ Disowns
    /\ Wakes
    /\ holding' = [holding EXCEPT ![current] = RemoveAt(@, Min(Over(current)))]
    /\ prio' = Restoring /\ prio' \in [Pids -> Nat]
    /\ UNCHANGED <<policy, script, ticks, current, prev, forkqueue, age, toAcquire>>

AnyNext ==
    \/ Fork
    \/ ScheduleStep /\ Choice
    \/ Switch
    \/ AnyGrant
    \/ AnyRefusal
    \/ Work
    \/ AnyRelease
    \/ NextTick

(* Somebody runs when the loop asks for resources or works.                *)
Runs == pc \in {"run", "release"} => current \in Pids

(* The first request that is due is one of those that are left.            *)
LEMMA NextIsAsked ==
    ASSUME TypeOK, NEW p \in Pids, Pending(p) # {}
    PROVE  /\ Min(Pending(p)) \in 1 .. Len(toAcquire[p])
           /\ NextRequest(p) \in ToSet(toAcquire[p])
           /\ NextRequest(p) = toAcquire[p][Min(Pending(p))]
           /\ NextRequest(p) \in Request
           /\ NextRequest(p).at = age[p]
<1>1. toAcquire[p] \in Seq(Request)
  BY DEF TypeOK
<1>2. /\ DOMAIN toAcquire[p] = 1 .. Len(toAcquire[p])
      /\ \A i \in DOMAIN toAcquire[p] : toAcquire[p][i] \in Request
  BY <1>1, LenProperties, ElementOfSeq
<1>3. Pending(p) \in SUBSET Nat
  BY <1>2 DEF Pending
<1>4. Min(Pending(p)) \in Pending(p)
  BY <1>3, MinIsLeast
<1> QED
  BY <1>2, <1>4 DEF Pending, NextRequest, ToSet

(* So is the first resource whose time is over one of those held.          *)
LEMMA OverIsHeld ==
    ASSUME TypeOK, NEW p \in Pids, Over(p) # {}
    PROVE  /\ Min(Over(p)) \in 1 .. Len(holding[p])
           /\ holding[p][Min(Over(p))] \in ToSet(holding[p])
           /\ holding[p][Min(Over(p))] \in Left
           /\ holding[p][Min(Over(p))].duration = 0
<1>1. holding[p] \in Seq(Left)
  BY DEF TypeOK
<1>2. /\ DOMAIN holding[p] = 1 .. Len(holding[p])
      /\ \A i \in DOMAIN holding[p] : holding[p][i] \in Left
  BY <1>1, LenProperties, ElementOfSeq
<1>3. Over(p) \in SUBSET Nat
  BY <1>2 DEF Over
<1>4. Min(Over(p)) \in Over(p)
  BY <1>3, MinIsLeast
<1> QED
  BY <1>2, <1>4 DEF Over, ToSet

(* The policies of pa2.c that use the default functions do so everywhere.  *)
LEMMA FcfsPolicies ==
    ASSUME policy \in {"fifo", "sjf", "srtf", "rr", "prio"}
    PROVE  Fcfs
BY DEF Fcfs

LEMMA AcquiresGrantOrRefuse ==
    ASSUME TypeOK, Runs, Acquire \/ DraftAcquire
    PROVE  AnyGrant \/ AnyRefusal
<1>1. /\ \/ Fcfs /\ fcfs_acquire
         \/ policy \in {"pcp", "pcp_pcp"} /\ pcp_acquire
         \/ policy = "pip" /\ pip_acquire
         \/ policy = "pcp_pip" /\ pcp_pip_acquire
      /\ pc = "run"
      /\ Pending(current) # {}
      /\ IF Free
         THEN /\ toAcquire' = [toAcquire EXCEPT ![current] = RemoveAt(@, Min(Pending(current)))]
              /\ holding' = [holding EXCEPT ![current] = Append(@, NextRequest(current))]
              /\ UNCHANGED <<pc, ticks>>
         ELSE EndTick /\ UNCHANGED <<toAcquire, holding>>
      /\ UNCHANGED <<policy, script, current, prev, forkqueue, readyqueue, age>>
  BY FcfsPolicies, Zenon
      DEF Acquire, DraftAcquire, run_current_acquire, try_sjf_c_acquire, SJF_acquire, Prio_acquire,
          PCP_fcfs_acquire, PCP_pcp_acquire, PCP_pip_acquire, Fixing_fcfs_acquire,
          Fixing_pcp_acquire, Fixing_pip_acquire, PIP_fcfs_acquire, PIP_pcp_acquire, PIP_pip_acquire
<1>2. current \in Pids /\ prio \in [Pids -> Nat] /\ MaxPrio \in Nat
  BY <1>1 DEF Runs, TypeOK, MaxPrio
<1>3. prio' \in [Pids -> Nat]
  BY <1>1, <1>2 DEF fcfs_acquire, pcp_acquire, pip_acquire, pcp_pip_acquire
<1>4. IF Free THEN Take ELSE Wait
  BY <1>1 DEF fcfs_acquire, pcp_acquire, pip_acquire, pcp_pip_acquire
<1>5. prio' = IF Free THEN Granting ELSE Lending
  BY <1>1 DEF fcfs_acquire, pcp_acquire, pip_acquire, pcp_pip_acquire, Granting, Lending, Fcfs
<1> QED
  BY <1>1, <1>3, <1>4, <1>5 DEF AnyGrant, AnyRefusal, Take, Wait

LEMMA ReleasesWake ==
    ASSUME TypeOK, Runs, Release \/ DraftRelease
    PROVE  AnyRelease
<1>1. /\ \/ Fcfs /\ fcfs_release
         \/ policy \in {"pcp", "pip"} /\ prio_release
         \/ policy \in {"pcp_pcp", "pcp_pip"} /\ pcp_prio_release
      /\ pc = "release" /\ Over(current) # {}
      /\ holding' = [holding EXCEPT ![current] = RemoveAt(@, Min(Over(current)))]
      /\ UNCHANGED <<policy, script, ticks, current, prev, forkqueue, age, toAcquire>>
  BY FcfsPolicies, Zenon
      DEF Release, DraftRelease, run_current_release, try_sjf_c_release, SJF_release, Prio_release,
          PCP_fcfs_release, PCP_prio_release, Fixing_fcfs_release, Fixing_prio_release,
          PIP_fcfs_release, PIP_prio_release
<1>2. current \in Pids /\ prio \in [Pids -> Nat] /\ script[current].prio \in Nat
  BY <1>1, ScriptFacts DEF Runs, TypeOK
<1>3. prio' \in [Pids -> Nat]
  BY <1>1, <1>2 DEF fcfs_release, prio_release, pcp_prio_release
<1>4. Released \in Resources
  BY <1>1, <1>2, OverIsHeld DEF Released, Left
<1>5. waitqueue[Released] \in Seq(Pids)
  BY <1>4 DEF TypeOK
<1>6. \E w : /\ Hand(w)
             /\ waitqueue[Released] # <<>> => w \in ToSet(waitqueue[Released])
             /\ policy \in {"pcp", "pip"} => w = Highest(waitqueue[Released])
  <2>1. \/ Hand(Head(waitqueue[Released])) /\ policy \notin {"pcp", "pip"}
        \/ Hand(Highest(waitqueue[Released]))
    BY <1>1 DEF fcfs_release, prio_release, pcp_prio_release, Fcfs
  <2> QED
    BY <1>5, <2>1, HeadIsThere, SearchesFind
<1>7. Wakes
  BY <1>6 DEF Hand, Wakes, WakeUp
<1>8. prio' = Restoring
  BY <1>1 DEF fcfs_release, prio_release, pcp_prio_release, Restoring, Fcfs
<1>9. Disowns
  <2>1. PICK w : Disown(w) /\ (waitqueue[Released] # <<>> => w \in ToSet(waitqueue[Released]))
    BY <1>6 DEF Hand
  <2>2. Asleep => (waitqueue[Released] # <<>> => status[w] = "wait")
    BY <2>1 DEF Asleep
  <2> QED
    BY <1>1, <2>1, <2>2 DEF Disown, Disowns
<1> QED
  BY <1>1, <1>3, <1>7, <1>8, <1>9 DEF AnyRelease

(* Every step of the simulator is one of these, whatever its version.      *)
LEMMA StepsAreAny ==
    ASSUME TypeOK, Runs, DraftNext
    PROVE  AnyNext
<1>1. \/ Fork \/ Switch \/ Work \/ NextTick
      \/ Schedule \/ DraftSchedule
      \/ Acquire \/ DraftAcquire
      \/ Release \/ DraftRelease
  BY Zenon DEF DraftNext
<1> QED
  BY <1>1, SchedulesChoose, AcquiresGrantOrRefuse, ReleasesWake, Zenon DEF AnyNext

-----------------------------------------------------------------------------
(* What the steps do to the lists, as sets.                                *)

ForkRound ==
    /\ pc = "fork" /\ Due # {}
    /\ readyqueue' = Append(readyqueue, forkqueue[Min(Due)])
    /\ forkqueue' = RemoveAt(forkqueue, Min(Due))
    /\ UNCHANGED <<pc, policy, script, ticks, current, prev, waitqueue, owner, status, age, prio,
                   toAcquire, holding>>

LEMMA ForkEffects ==
    ASSUME TypeOK, ForkRound
    PROVE  \E p \in ToSet(forkqueue) :
              /\ p \in Pids
              /\ script[p].start <= ticks
              /\ readyqueue' \in Seq(Pids) /\ forkqueue' \in Seq(Pids)
              /\ ToSet(readyqueue') = ToSet(readyqueue) \cup {p}
              /\ ToSet(forkqueue') \subseteq ToSet(forkqueue)
              /\ ToSet(forkqueue) \subseteq ToSet(forkqueue') \cup {p}
              /\ IsInjective(forkqueue) => /\ IsInjective(forkqueue')
                                           /\ ToSet(forkqueue') = ToSet(forkqueue) \ {p}
              /\ IsInjective(readyqueue) /\ p \notin ToSet(readyqueue) => IsInjective(readyqueue')
              /\ readyqueue' = Append(readyqueue, p)
<1> DEFINE k == Min(Due)
<1>1. forkqueue \in Seq(Pids) /\ readyqueue \in Seq(Pids)
  BY DEF TypeOK
<1>2. /\ DOMAIN forkqueue = 1 .. Len(forkqueue)
      /\ \A i \in DOMAIN forkqueue : forkqueue[i] \in Pids
  BY <1>1, LenProperties, ElementOfSeq
<1>3. Due \in SUBSET Nat
  BY <1>2 DEF Due
<1>4. k \in Due
  BY <1>3, MinIsLeast DEF ForkRound
<1>5. k \in 1 .. Len(forkqueue) /\ script[forkqueue[k]].start <= ticks
  BY <1>2, <1>4 DEF Due
<1>6. readyqueue' = Append(readyqueue, forkqueue[k]) /\ forkqueue' = RemoveAt(forkqueue, k)
  BY DEF ForkRound
<1> HIDE DEF k
<1> DEFINE p == forkqueue[k]
<1>7. p \in ToSet(forkqueue) /\ p \in Pids
  BY <1>2, <1>5 DEF ToSet
<1>8. /\ forkqueue' \in Seq(Pids)
      /\ ToSet(forkqueue') \subseteq ToSet(forkqueue)
      /\ ToSet(forkqueue) \subseteq ToSet(forkqueue') \cup {p}
      /\ IsInjective(forkqueue) => /\ IsInjective(forkqueue')
                                   /\ ToSet(forkqueue') = ToSet(forkqueue) \ {p}
  BY <1>1, <1>5, <1>6, RemoveAtFacts, RemoveAtKeeps
<1>9. /\ readyqueue' \in Seq(Pids)
      /\ ToSet(readyqueue') = ToSet(readyqueue) \cup {p}
      /\ IsInjective(readyqueue) /\ p \notin ToSet(readyqueue) => IsInjective(readyqueue')
  <2> HIDE DEF p
  <2>1. readyqueue' = Append(readyqueue, p)
    BY <1>6 DEF p
  <2> QED
    BY <1>1, <1>7, <2>1, AppendKeeps
<1> QED
  BY <1>5, <1>6, <1>7, <1>8, <1>9

LEMMA GrantEffects ==
    ASSUME TypeOK, Runs, AnyGrant
    PROVE  LET q == NextRequest(current) IN
           /\ current \in Pids /\ Asked \in Resources /\ owner[Asked] = NoProcess
           /\ q \in ToSet(toAcquire[current]) /\ q \in Request /\ q.at = age[current]
           /\ q.id = Asked
           /\ toAcquire' \in [Pids -> Seq(Request)] /\ holding' \in [Pids -> Seq(Left)]
           /\ \A o \in Pids \ {current} : toAcquire'[o] = toAcquire[o] /\ holding'[o] = holding[o]
           /\ ToSet(toAcquire'[current]) \subseteq ToSet(toAcquire[current])
           /\ ToSet(toAcquire[current]) \subseteq ToSet(toAcquire'[current]) \cup {q}
           /\ IsInjective(toAcquire[current]) =>
                 /\ IsInjective(toAcquire'[current])
                 /\ ToSet(toAcquire'[current]) = ToSet(toAcquire[current]) \ {q}
           /\ ToSet(holding'[current]) = ToSet(holding[current]) \cup {q}
           /\ IsInjective(holding[current]) /\ q \notin ToSet(holding[current]) =>
                 IsInjective(holding'[current])
<1> DEFINE q == NextRequest(current)
           k == Min(Pending(current))
<1>1. current \in Pids /\ Pending(current) # {}
  BY DEF AnyGrant, Runs
<1>2. toAcquire \in [Pids -> Seq(Request)] /\ holding \in [Pids -> Seq(Left)]
  BY DEF TypeOK
<1>3. /\ k \in 1 .. Len(toAcquire[current])
      /\ q \in ToSet(toAcquire[current]) /\ q = toAcquire[current][k] /\ q \in Request
      /\ q.at = age[current]
  BY <1>1, NextIsAsked
<1>4. Asked = q.id /\ q.id \in Resources
  BY <1>3 DEF Asked, Request
<1>5. /\ toAcquire' = [toAcquire EXCEPT ![current] = RemoveAt(@, k)]
      /\ holding' = [holding EXCEPT ![current] = Append(@, q)]
      /\ owner[Asked] = NoProcess
  BY DEF AnyGrant, Free
<1>6. q \in Left
  BY <1>3 DEF Request, Left
<1> HIDE DEF q, k
<1>7. /\ toAcquire'[current] = RemoveAt(toAcquire[current], k)
      /\ holding'[current] = Append(holding[current], q)
      /\ \A o \in Pids \ {current} : toAcquire'[o] = toAcquire[o] /\ holding'[o] = holding[o]
      /\ DOMAIN toAcquire' = Pids /\ DOMAIN holding' = Pids
      /\ toAcquire' = [o \in Pids |-> toAcquire'[o]] /\ holding' = [o \in Pids |-> holding'[o]]
  BY <1>1, <1>2, <1>5
<1>8. toAcquire[current] \in Seq(Request) /\ holding[current] \in Seq(Left)
  BY <1>1, <1>2
<1>9. /\ toAcquire'[current] \in Seq(Request)
      /\ ToSet(toAcquire'[current]) \subseteq ToSet(toAcquire[current])
      /\ ToSet(toAcquire[current]) \subseteq ToSet(toAcquire'[current]) \cup {q}
      /\ IsInjective(toAcquire[current]) =>
            /\ IsInjective(toAcquire'[current])
            /\ ToSet(toAcquire'[current]) = ToSet(toAcquire[current]) \ {q}
  BY <1>3, <1>7, <1>8, RemoveAtFacts, RemoveAtKeeps
<1>10. /\ holding'[current] \in Seq(Left)
       /\ ToSet(holding'[current]) = ToSet(holding[current]) \cup {q}
       /\ IsInjective(holding[current]) /\ q \notin ToSet(holding[current]) =>
             IsInjective(holding'[current])
  BY <1>6, <1>7, <1>8, AppendKeeps
<1>11. toAcquire' \in [Pids -> Seq(Request)] /\ holding' \in [Pids -> Seq(Left)]
  BY <1>2, <1>7, <1>9, <1>10
<1> QED
  BY <1>1, <1>3, <1>4, <1>5, <1>7, <1>9, <1>10, <1>11 DEF q

LEMMA RefusalEffects ==
    ASSUME TypeOK, Runs, AnyRefusal
    PROVE  /\ current \in Pids /\ Asked \in Resources /\ owner[Asked] \in Pids
           /\ NextRequest(current) \in ToSet(toAcquire[current])
           /\ NextRequest(current) \in Request
           /\ NextRequest(current).at = age[current] /\ NextRequest(current).id = Asked
           /\ waitqueue' \in [Resources -> Seq(Pids)]
           /\ \A r \in Resources \ {Asked} : waitqueue'[r] = waitqueue[r]
           /\ ToSet(waitqueue'[Asked]) = ToSet(waitqueue[Asked]) \cup {current}
           /\ /\ IsInjective(waitqueue[Asked]) /\ current \notin ToSet(waitqueue[Asked])
              => IsInjective(waitqueue'[Asked])
           /\ status'[current] = "wait" /\ \A o \in Pids \ {current} : status'[o] = status[o]
           /\ status' \in [Pids -> Statuses]
<1>1. current \in Pids /\ Pending(current) # {}
  BY DEF AnyRefusal, Runs
<1>2. /\ NextRequest(current) \in ToSet(toAcquire[current])
      /\ NextRequest(current) \in Request /\ NextRequest(current).at = age[current]
  BY <1>1, NextIsAsked
<1>3. Asked \in Resources
  BY <1>2 DEF Asked, Request
<1>4. owner[Asked] \in Pids
  BY <1>3 DEF AnyRefusal, Free, TypeOK
<1>5. /\ waitqueue \in [Resources -> Seq(Pids)] /\ status \in [Pids -> Statuses]
      /\ waitqueue[Asked] \in Seq(Pids)
  BY <1>3 DEF TypeOK
<1>6. /\ waitqueue'[Asked] = Append(waitqueue[Asked], current)
      /\ \A r \in Resources \ {Asked} : waitqueue'[r] = waitqueue[r]
      /\ waitqueue' = [r \in Resources |-> waitqueue'[r]]
      /\ status' = [status EXCEPT ![current] = "wait"]
  BY <1>3, <1>5 DEF AnyRefusal
<1>7. /\ waitqueue'[Asked] \in Seq(Pids)
      /\ ToSet(waitqueue'[Asked]) = ToSet(waitqueue[Asked]) \cup {current}
      /\ /\ IsInjective(waitqueue[Asked]) /\ current \notin ToSet(waitqueue[Asked])
         => IsInjective(waitqueue'[Asked])
  BY <1>1, <1>5, <1>6, AppendKeeps
<1>8. waitqueue' \in [Resources -> Seq(Pids)]
  BY <1>5, <1>6, <1>7
<1>9. /\ status'[current] = "wait" /\ \A o \in Pids \ {current} : status'[o] = status[o]
      /\ status' \in [Pids -> Statuses]
  BY <1>1, <1>5, <1>6 DEF Statuses
<1> QED
  BY <1>1, <1>2, <1>3, <1>4, <1>6, <1>7, <1>8, <1>9 DEF Asked

(* The ways schedule() ends, unless it crashes: current goes on, a process *)
(* that is ready takes its place, there is none, or current went back to   *)
(* the others before one was taken.                                        *)
Keeps ==
    /\ HasTime /\ (LooksAtStatus => ~Blocked) /\ (InTurn => readyqueue = <<>>)
    /\ current' = current
    /\ ToSet(readyqueue') \subseteq ToSet(readyqueue)
    /\ ToSet(readyqueue) \subseteq ToSet(readyqueue') \cup {current}
    /\ current \notin ToSet(readyqueue) => readyqueue' = readyqueue
Picks ==
    /\ Gives /\ Finds(current')
    /\ current' \in ToSet(readyqueue) /\ current' \in Pids
    /\ readyqueue' = RemoveFirst(readyqueue, current')
    /\ ToSet(readyqueue') \subseteq ToSet(readyqueue)
    /\ ToSet(readyqueue) \subseteq ToSet(readyqueue') \cup {current'}
    /\ IsInjective(readyqueue) =>
          IsInjective(readyqueue') /\ ToSet(readyqueue') = ToSet(readyqueue) \ {current'}
Idles ==
    /\ Gives /\ (policy = "rr" => current # NoProcess)
    /\ current' = NoProcess
    /\ readyqueue = <<>> /\ readyqueue' = <<>>
GoesBack ==
    /\ current \in Pids /\ ~Blocked /\ current' \in Pids
    /\ Yields(current')
    /\ current' \in ToSet(readyqueue) \cup {current}
    /\ LET q == Append(readyqueue, current) IN
       InTurn => /\ current' = First(q)
                 /\ readyqueue' = RemoveFirst(q, current')
    /\ ToSet(readyqueue') \subseteq ToSet(readyqueue) \cup {current}
    /\ ToSet(readyqueue) \cup {current} \subseteq ToSet(readyqueue') \cup {current'}
    /\ IsInjective(readyqueue) /\ current \notin ToSet(readyqueue) =>
          /\ IsInjective(readyqueue')
          /\ ToSet(readyqueue') = (ToSet(readyqueue) \cup {current}) \ {current'}
Ends ==
    \/ pc' = "null" /\ UNCHANGED <<current, readyqueue>> /\ Crashes
    \/ pc' = "corrupt" /\ UNCHANGED current /\ Blocked /\ PutsBack /\ ~LooksAtStatus
    \/ pc' = "switch" /\ (Keeps \/ Picks \/ Idles \/ GoesBack)

LEMMA ScheduleEffects ==
    ASSUME TypeOK, ScheduleStep, Choice
    PROVE  readyqueue' \in Seq(Pids) /\ Ends
<1>1. readyqueue \in Seq(Pids) /\ current \in Pids \cup {NoProcess}
  BY DEF TypeOK
<1>2. \A p \in ToSet(readyqueue) : p \in Pids
  BY <1>1, LenProperties, ElementOfSeq DEF ToSet
<1>3. CASE Crashes /\ Crash
  BY <1>1, <1>3 DEF Crash, Ends
<1>4. CASE /\ HasTime /\ (LooksAtStatus => ~Blocked) /\ (InTurn => readyqueue = <<>>)
           /\ Return(current)
  <2>1. /\ readyqueue' \in Seq(Pids)
        /\ ToSet(readyqueue') \subseteq ToSet(readyqueue)
        /\ ToSet(readyqueue) \subseteq ToSet(readyqueue') \cup {current}
        /\ current \notin ToSet(readyqueue) => readyqueue' = readyqueue
        /\ current' = current /\ pc' = "switch"
    BY <1>1, <1>4, RemoveFirstKeeps DEF Return
  <2>2. Keeps
    BY <1>4, <2>1 DEF Keeps
  <2> QED
    BY <2>1, <2>2 DEF Ends
<1>5. CASE Gives /\ readyqueue # <<>> /\ \E p \in ToSet(readyqueue) : Finds(p) /\ Return(p)
  <2>1. PICK p \in ToSet(readyqueue) : Finds(p) /\ Return(p)
    BY <1>5
  <2>2. /\ readyqueue' \in Seq(Pids)
        /\ ToSet(readyqueue') \subseteq ToSet(readyqueue)
        /\ ToSet(readyqueue) \subseteq ToSet(readyqueue') \cup {p}
        /\ IsInjective(readyqueue) =>
              IsInjective(readyqueue') /\ ToSet(readyqueue') = ToSet(readyqueue) \ {p}
        /\ readyqueue' = RemoveFirst(readyqueue, p)
        /\ current' = p /\ pc' = "switch"
    BY <1>1, <2>1, RemoveFirstKeeps DEF Return
  <2>3. Picks
    BY <1>2, <1>5, <2>1, <2>2 DEF Picks
  <2> QED
    BY <2>2, <2>3 DEF Ends
<1>6. CASE /\ Gives /\ readyqueue = <<>> /\ (policy = "rr" => current # NoProcess)
           /\ Return(NoProcess)
  <2>1. NoProcess \notin ToSet(readyqueue)
    BY <1>2 DEF NoProcess, Pids
  <2>2. readyqueue' = readyqueue /\ current' = NoProcess /\ pc' = "switch"
    BY <1>1, <1>6, <2>1, RemoveFirstKeeps DEF Return
  <2> QED
    BY <1>1, <1>6, <2>2 DEF Ends, Idles
<1>7. CASE \E q, p : Swaps(q, p)
  <2>1. PICK q, p : Swaps(q, p)
    BY <1>7
  <2>2. /\ current \in Pids /\ q \in {Append(readyqueue, current), <<current>> \o readyqueue}
        /\ p \in ToSet(q) /\ Yields(p)
        /\ InTurn => q = Append(readyqueue, current) /\ p = First(q)
        /\ PutBack(q, p)
    BY <2>1 DEF Swaps
  <2>3. /\ q \in Seq(Pids) /\ ToSet(q) = ToSet(readyqueue) \cup {current}
        /\ IsInjective(readyqueue) /\ current \notin ToSet(readyqueue) => IsInjective(q)
    BY <2>2, QueuesWithCurrent
  <2>4. CASE Blocked
    BY <2>2, <2>3, <2>4 DEF PutBack, Ends, Yields
  <2>5. CASE ~Blocked
    <3>1. current' = p /\ readyqueue' = RemoveFirst(q, p) /\ pc' = "switch"
      BY <2>2, <2>5 DEF PutBack
    <3>2. /\ readyqueue' \in Seq(Pids)
          /\ ToSet(readyqueue') \subseteq ToSet(q)
          /\ ToSet(q) \subseteq ToSet(readyqueue') \cup {p}
          /\ IsInjective(q) => IsInjective(readyqueue') /\ ToSet(readyqueue') = ToSet(q) \ {p}
      BY <2>3, <3>1, RemoveFirstKeeps
    <3>3. p \in Pids
      BY <1>2, <2>2, <2>3
    <3>4. GoesBack
      BY <2>2, <2>3, <2>5, <3>1, <3>2, <3>3 DEF GoesBack
    <3> QED
      BY <3>1, <3>2, <3>4 DEF Ends
  <2> QED
    BY <2>4, <2>5
<1> QED
  BY <1>3, <1>4, <1>5, <1>6, <1>7 DEF Choice

(* A tick of work is a tick less for all that is held.                     *)
LEMMA WorkEffects ==
    ASSUME TypeOK, Runs, Work, \A h \in ToSet(holding[current]) : h.duration > 0
    PROVE  /\ current \in Pids
           /\ age' \in [Pids -> Nat] /\ holding' \in [Pids -> Seq(Left)]
           /\ age'[current] = age[current] + 1
           /\ \A o \in Pids \ {current} : age'[o] = age[o] /\ holding'[o] = holding[o]
           /\ DOMAIN holding'[current] = DOMAIN holding[current]
           /\ \A i \in DOMAIN holding[current] :
                 /\ holding'[current][i].id = holding[current][i].id
                 /\ holding'[current][i].at = holding[current][i].at
                 /\ holding'[current][i].duration = holding[current][i].duration - 1
                 /\ holding[current][i] \in Left /\ holding[current][i].duration > 0
<1>1. current \in Pids
  BY DEF Work, Runs
<1>2. /\ age \in [Pids -> Nat] /\ holding \in [Pids -> Seq(Left)] /\ holding[current] \in Seq(Left)
  BY <1>1 DEF TypeOK
<1>3. /\ DOMAIN holding[current] = 1 .. Len(holding[current])
      /\ \A i \in DOMAIN holding[current] : holding[current][i] \in Left
      /\ Len(holding[current]) \in Nat
  BY <1>2, LenProperties, ElementOfSeq
<1>4. \A i \in DOMAIN holding[current] : holding[current][i].duration > 0
  BY DEF ToSet
<1> DEFINE f == [i \in DOMAIN holding[current] |-> CountDown(holding[current][i])]
<1>5. \A i \in DOMAIN holding[current] :
         /\ f[i].id = holding[current][i].id
         /\ f[i].at = holding[current][i].at
         /\ f[i].duration = holding[current][i].duration - 1
         /\ f[i] \in Left
  BY <1>3, <1>4 DEF Left, CountDown
<1>6. f \in Seq(Left) /\ DOMAIN f = DOMAIN holding[current]
  <2>1. f = [i \in 1 .. Len(holding[current]) |-> f[i]]
    BY <1>3
  <2> HIDE DEF f
  <2>2. f \in [1 .. Len(holding[current]) -> Left]
    BY <1>3, <1>5, <2>1
  <2>3. f \in Seq(Left)
    BY <1>3, <2>2
  <2> QED
    BY <1>3, <2>2, <2>3
<1>7. holding' = [holding EXCEPT ![current] = f]
  BY DEF Work
<1>8. age' = [age EXCEPT ![current] = age[current] + 1]
  BY DEF Work
<1> HIDE DEF f
<1>9. holding'[current] = f /\ \A o \in Pids \ {current} : holding'[o] = holding[o]
  BY <1>1, <1>2, <1>7
<1>10. holding' \in [Pids -> Seq(Left)]
  BY <1>2, <1>6, <1>7
<1>11. /\ age' \in [Pids -> Nat] /\ age'[current] = age[current] + 1
       /\ \A o \in Pids \ {current} : age'[o] = age[o]
  BY <1>1, <1>2, <1>8
<1> QED
  BY <1>1, <1>3, <1>4, <1>5, <1>6, <1>9, <1>10, <1>11

(* A release takes one entry whose time is over, and wakes one waiter.     *)
LEMMA ReleaseEffects ==
    ASSUME TypeOK, Runs, AnyRelease
    PROVE  \E h \in ToSet(holding[current]) :
              /\ current \in Pids /\ h.id = Released /\ h.duration = 0 /\ h \in Left
              /\ Released \in Resources
              /\ holding' \in [Pids -> Seq(Left)] /\ owner' \in [Resources -> Pids \cup {NoProcess}]
              /\ \A o \in Pids \ {current} : holding'[o] = holding[o]
              /\ ToSet(holding'[current]) \subseteq ToSet(holding[current])
              /\ ToSet(holding[current]) \subseteq ToSet(holding'[current]) \cup {h}
              /\ IsInjective(holding[current]) =>
                    /\ IsInjective(holding'[current])
                    /\ ToSet(holding'[current]) = ToSet(holding[current]) \ {h}
              /\ owner'[Released] = NoProcess
              /\ \A r \in Resources \ {Released} : owner'[r] = owner[r]
              /\ pc' \in {"release", "assert"}
              /\ owner[Released] # current => pc' = "assert"
              /\ owner[Released] = current /\ Asleep => pc' = "release"
<1> DEFINE k == Min(Over(current))
           h == holding[current][k]
<1>1. current \in Pids /\ Over(current) # {}
  BY DEF AnyRelease, Runs
<1>2. /\ k \in 1 .. Len(holding[current]) /\ h \in ToSet(holding[current])
      /\ h \in Left /\ h.duration = 0
  BY <1>1, OverIsHeld
<1>3. Released = h.id
  BY DEF Released
<1>4. holding' = [holding EXCEPT ![current] = RemoveAt(@, k)]
  BY DEF AnyRelease
<1>5. /\ owner' = [owner EXCEPT ![Released] = NoProcess]
      /\ pc' \in {"release", "assert"}
      /\ owner[Released] # current => pc' = "assert"
      /\ owner[Released] = current /\ Asleep => pc' = "release"
  BY DEF AnyRelease, Disowns
<1> HIDE DEF k
<1>6. /\ holding \in [Pids -> Seq(Left)] /\ holding[current] \in Seq(Left)
      /\ owner \in [Resources -> Pids \cup {NoProcess}]
  BY <1>1 DEF TypeOK
<1>7. /\ holding'[current] = RemoveAt(holding[current], k)
      /\ \A o \in Pids \ {current} : holding'[o] = holding[o]
      /\ holding' = [o \in Pids |-> holding'[o]]
  BY <1>1, <1>4, <1>6
<1>8. /\ holding'[current] \in Seq(Left)
      /\ ToSet(holding'[current]) \subseteq ToSet(holding[current])
      /\ ToSet(holding[current]) \subseteq ToSet(holding'[current]) \cup {h}
      /\ IsInjective(holding[current]) =>
            /\ IsInjective(holding'[current])
            /\ ToSet(holding'[current]) = ToSet(holding[current]) \ {h}
  BY <1>2, <1>6, <1>7, RemoveAtFacts, RemoveAtKeeps
<1>9. holding' \in [Pids -> Seq(Left)]
  BY <1>6, <1>7, <1>8
<1> HIDE DEF h
<1>10. Released \in Resources
  BY <1>2, <1>3 DEF Left
<1>11. /\ owner'[Released] = NoProcess
       /\ \A r \in Resources \ {Released} : owner'[r] = owner[r]
       /\ owner' \in [Resources -> Pids \cup {NoProcess}]
  BY <1>5, <1>6, <1>10
<1> QED
  BY <1>1, <1>2, <1>3, <1>5, <1>7, <1>8, <1>9, <1>10, <1>11

WakesProcess(w) ==
    /\ w \in ToSet(waitqueue[Released]) /\ w \in Pids
    /\ readyqueue' \in Seq(Pids) /\ waitqueue' \in [Resources -> Seq(Pids)]
    /\ status' \in [Pids -> Statuses]
    /\ readyqueue' = Append(readyqueue, w)
    /\ policy \in {"pcp", "pip"} => \A o \in ToSet(waitqueue[Released]) : prio[o] <= prio[w]
    /\ ToSet(readyqueue') = ToSet(readyqueue) \cup {w}
    /\ IsInjective(readyqueue) /\ w \notin ToSet(readyqueue) => IsInjective(readyqueue')
    /\ \A r \in Resources \ {Released} : waitqueue'[r] = waitqueue[r]
    /\ ToSet(waitqueue'[Released]) \subseteq ToSet(waitqueue[Released])
    /\ ToSet(waitqueue[Released]) \subseteq ToSet(waitqueue'[Released]) \cup {w}
    /\ IsInjective(waitqueue[Released]) =>
          /\ IsInjective(waitqueue'[Released])
          /\ ToSet(waitqueue'[Released]) = ToSet(waitqueue[Released]) \ {w}
    /\ status'[w] = "ready" /\ \A o \in Pids \ {w} : status'[o] = status[o]

LEMMA WakeEffects ==
    ASSUME TypeOK, Runs, AnyRelease
    PROVE  \/ waitqueue[Released] = <<>> /\ UNCHANGED <<waitqueue, status, readyqueue>>
           \/ \E w : WakesProcess(w)
<1>1. current \in Pids /\ Over(current) # {} /\ Wakes
  BY DEF AnyRelease, Runs
<1>2. Released \in Resources
  BY <1>1, OverIsHeld DEF Released, Left
<1>3. CASE waitqueue[Released] = <<>>
  BY <1>1, <1>3 DEF Wakes
<1>4. CASE waitqueue[Released] # <<>>
  <2>1. PICK w \in ToSet(waitqueue[Released]) :
            WakeUp(w) /\ (policy \in {"pcp", "pip"} => w = Highest(waitqueue[Released]))
    BY <1>1, <1>4 DEF Wakes
  <2>2. /\ waitqueue' = [waitqueue EXCEPT ![Released] = RemoveFirst(@, w)]
        /\ status' = [status EXCEPT ![w] = "ready"]
        /\ readyqueue' = Append(readyqueue, w)
    BY <1>4, <2>1 DEF WakeUp
  <2>3. /\ waitqueue \in [Resources -> Seq(Pids)] /\ waitqueue[Released] \in Seq(Pids)
        /\ status \in [Pids -> Statuses] /\ readyqueue \in Seq(Pids)
    BY <1>2 DEF TypeOK
  <2>4. w \in Pids
    BY <2>3, LenProperties, ElementOfSeq DEF ToSet
  <2>5. /\ waitqueue'[Released] = RemoveFirst(waitqueue[Released], w)
        /\ \A r \in Resources \ {Released} : waitqueue'[r] = waitqueue[r]
        /\ waitqueue' = [r \in Resources |-> waitqueue'[r]]
    BY <1>2, <2>2, <2>3
  <2>6. /\ waitqueue'[Released] \in Seq(Pids)
        /\ ToSet(waitqueue'[Released]) \subseteq ToSet(waitqueue[Released])
        /\ ToSet(waitqueue[Released]) \subseteq ToSet(waitqueue'[Released]) \cup {w}
        /\ IsInjective(waitqueue[Released]) =>
              /\ IsInjective(waitqueue'[Released])
              /\ ToSet(waitqueue'[Released]) = ToSet(waitqueue[Released]) \ {w}
    BY <2>3, <2>5, RemoveFirstKeeps
  <2>7. waitqueue' \in [Resources -> Seq(Pids)]
    BY <2>3, <2>5, <2>6
  <2>8. /\ readyqueue' \in Seq(Pids)
        /\ ToSet(readyqueue') = ToSet(readyqueue) \cup {w}
        /\ IsInjective(readyqueue) /\ w \notin ToSet(readyqueue) => IsInjective(readyqueue')
    BY <2>2, <2>3, <2>4, AppendKeeps
  <2>9. /\ status' \in [Pids -> Statuses]
        /\ status'[w] = "ready" /\ \A o \in Pids \ {w} : status'[o] = status[o]
    BY <2>2, <2>3, <2>4 DEF Statuses
  <2>10. policy \in {"pcp", "pip"} => \A o \in ToSet(waitqueue[Released]) : prio[o] <= prio[w]
    BY <1>4, <2>1, <2>3, SearchesFind
  <2>11. WakesProcess(w)
    BY <2>1, <2>2, <2>4, <2>5, <2>6, <2>7, <2>8, <2>9, <2>10 DEF WakesProcess
  <2> QED
    BY <2>11
<1> QED
  BY <1>3, <1>4

-----------------------------------------------------------------------------
(* The types, and what is left to acquire and of what is held.             *)

(* What a process is still to acquire is part of its script and not        *)
(* overdue.                                                                *)
ToDo ==
    \A p \in Pids :
        /\ IsInjective(toAcquire[p])
        /\ ToSet(toAcquire[p]) \subseteq Asks(p)
        /\ \A q \in ToSet(toAcquire[p]) : q.at >= age[p]
(* What is held has time left, except for what current is about to release.*)
Counting ==
    \A p \in Pids : \A h \in ToSet(holding[p]) :
        h.duration > 0 \/ (p = current /\ pc \in {"release", "assert"})
BasicInv == TypeOK /\ Runs /\ ToDo /\ Counting

LEMMA BasicInit ==
    ASSUME DraftInit
    PROVE  BasicInv
<1>1. PICK c \in Cases : Load(c)
  BY DEF DraftInit
<1>2. /\ policy = c.policy /\ script = c.script /\ ticks = 0 /\ pc = "fork"
      /\ current = NoProcess /\ prev = NoProcess
      /\ forkqueue = [p \in Pids |-> p] /\ readyqueue = <<>>
      /\ waitqueue = [r \in Resources |-> <<>>] /\ owner = [r \in Resources |-> NoProcess]
      /\ status = [p \in Pids |-> "ready"] /\ age = [p \in Pids |-> 0]
      /\ prio = [p \in Pids |-> script[p].prio]
      /\ toAcquire = [p \in Pids |-> script[p].acquire] /\ holding = [p \in Pids |-> <<>>]
  BY <1>1 DEF Load
<1>3. \A p \in Pids : /\ script[p].prio \in Nat /\ script[p].acquire \in Seq(Request)
                      /\ \A i, j \in DOMAIN script[p].acquire :
                            script[p].acquire[i] = script[p].acquire[j] => i = j
  BY <1>2, CasesAssumption
<1>4. forkqueue \in Seq(Pids)
  <2>1. NrProcesses \in Nat /\ Pids = 1 .. NrProcesses
    BY NrProcessesAssumption DEF Pids
  <2>2. forkqueue \in [1 .. NrProcesses -> Pids]
    BY <1>2, <2>1
  <2> QED
    BY <2>1, <2>2
<1>5. TypeOK
  BY <1>2, <1>3, <1>4 DEF TypeOK, Faults, Statuses
<1>6. Runs
  BY <1>2 DEF Runs
<1>7. ToDo
  <2>1. \A p \in Pids : toAcquire[p] = script[p].acquire /\ age[p] = 0
    BY <1>2
  <2>2. \A p \in Pids : IsInjective(toAcquire[p])
    BY <1>3, <2>1 DEF IsInjective
  <2>3. \A p \in Pids : \A q \in ToSet(toAcquire[p]) : q \in Request
    BY <1>3, <2>1, LenProperties, ElementOfSeq DEF ToSet
  <2>4. \A p \in Pids : ToSet(toAcquire[p]) \subseteq Asks(p)
    BY <2>1 DEF Asks
  <2> QED
    BY <2>1, <2>2, <2>3, <2>4 DEF ToDo, Request
<1>8. Counting
  BY <1>2 DEF Counting, ToSet
<1> QED
  BY <1>5, <1>6, <1>7, <1>8 DEF BasicInv

LEMMA ForkCases ==
    ASSUME Fork
    PROVE  \/ ForkRound
           \/ /\ pc = "fork" /\ pc' = "schedule" /\ Due = {}
              /\ UNCHANGED <<forkqueue, readyqueue, policy, script, ticks, current, prev,
                             waitqueue, owner, status, age, prio, toAcquire, holding>>
BY DEF Fork, ForkRound

LEMMA ForkBasic ==
    ASSUME BasicInv, Fork
    PROVE  BasicInv'
<1> USE DEF BasicInv
<1>1. /\ pc = "fork" /\ pc' \in {"fork", "schedule"}
      /\ UNCHANGED <<policy, script, ticks, current, prev, waitqueue, owner, status, age, prio,
                     toAcquire, holding>>
  BY ForkCases DEF ForkRound
<1>2. forkqueue' \in Seq(Pids) /\ readyqueue' \in Seq(Pids)
  <2>1. CASE ForkRound
    BY <2>1, ForkEffects
  <2>2. CASE UNCHANGED <<forkqueue, readyqueue>>
    BY <2>2 DEF TypeOK
  <2> QED
    BY <2>1, <2>2, ForkCases
<1>3. TypeOK'
  BY <1>1, <1>2 DEF TypeOK, Faults
<1>4. Runs' /\ ToDo' /\ Counting'
  BY <1>1 DEF Runs, ToDo, Counting, Asks
<1> QED
  BY <1>3, <1>4

LEMMA ScheduleBasic ==
    ASSUME BasicInv, ScheduleStep, Choice
    PROVE  BasicInv'
<1> USE DEF BasicInv
<1>1. /\ pc = "schedule" /\ prev' = current
      /\ UNCHANGED <<policy, script, ticks, forkqueue, waitqueue, owner, status, age, prio,
                     toAcquire, holding>>
  BY DEF ScheduleStep
<1>2. readyqueue' \in Seq(Pids) /\ Ends
  BY ScheduleEffects
<1>3. pc' \in {"null", "corrupt", "switch"}
  BY <1>2 DEF Ends
<1>4. current' \in Pids \cup {NoProcess}
  BY <1>2 DEF Ends, Keeps, Picks, Idles, GoesBack, TypeOK
<1>5. TypeOK'
  BY <1>1, <1>2, <1>3, <1>4 DEF TypeOK, Faults
<1>6. Runs' /\ ToDo' /\ Counting'
  BY <1>1, <1>3 DEF Runs, ToDo, Counting, Asks
<1> QED
  BY <1>5, <1>6

(* The three ends of a switch.                                             *)
LEMMA SwitchCases ==
    ASSUME TypeOK, Switch
    PROVE  /\ pc = "switch" /\ prev' = NoProcess
           /\ UNCHANGED <<policy, script, current, forkqueue, readyqueue, waitqueue, owner, age,
                          prio, toAcquire, holding>>
           /\ \/ Finished /\ ~ExitAsserts /\ pc' = "assert" /\ UNCHANGED <<ticks, status>>
              \/ /\ Finished => ExitAsserts
                 /\ current \in Pids
                 /\ status' = [Retired EXCEPT ![current] = "running"]
                 /\ pc' = IF Linked(current) THEN "assert" ELSE "run"
                 /\ UNCHANGED ticks
              \/ /\ Finished => ExitAsserts
                 /\ current = NoProcess
                 /\ status' = Retired
                 /\ \/ NonePending /\ pc' = "end" /\ UNCHANGED ticks
                    \/ ~NonePending /\ EndTick
<1>1. current \in Pids \cup {NoProcess}
  BY DEF TypeOK
<1>2. /\ pc = "switch" /\ prev' = NoProcess
      /\ UNCHANGED <<policy, script, current, forkqueue, readyqueue, waitqueue, owner, age,
                     prio, toAcquire, holding>>
  BY DEF Switch
<1>3. CASE Finished /\ ~ExitAsserts
  BY <1>2, <1>3 DEF Switch
<1>4. CASE ~(Finished /\ ~ExitAsserts)
  <2>1. \/ /\ current # NoProcess
           /\ status' = [Retired EXCEPT ![current] = "running"]
           /\ pc' = IF Linked(current) THEN "assert" ELSE "run"
           /\ UNCHANGED ticks
        \/ /\ current = NoProcess
           /\ status' = Retired
           /\ \/ NonePending /\ pc' = "end" /\ UNCHANGED ticks
              \/ ~NonePending /\ EndTick
    BY <1>4, Zenon DEF Switch
  <2> QED
    BY <1>1, <1>2, <1>4, <2>1, Zenon
<1> QED
  BY <1>3, <1>4

(* What becomes of the status of a process at a switch.                    *)
LEMMA RetiredFacts ==
    ASSUME TypeOK
    PROVE  /\ Retired \in [Pids -> Statuses]
           /\ \A p \in Pids \ {prev} : Retired[p] = status[p]
           /\ prev \in Pids =>
                 /\ Finished => Retired[prev] = "exit"
                 /\ ~Finished /\ status[prev] = "running" => Retired[prev] = "ready"
                 /\ ~Finished /\ status[prev] # "running" => Retired[prev] = status[prev]
BY DEF TypeOK, Retired, Statuses

LEMMA SwitchBasic ==
    ASSUME BasicInv, Switch
    PROVE  BasicInv'
<1> USE DEF BasicInv
<1>1. /\ pc = "switch" /\ prev' = NoProcess
      /\ UNCHANGED <<policy, script, current, forkqueue, readyqueue, waitqueue, owner, age,
                     prio, toAcquire, holding>>
  BY SwitchCases
<1>2. /\ pc' \in {"assert", "run", "end", "fork"}
      /\ ticks' \in Nat
      /\ status' \in [Pids -> Statuses]
      /\ pc' = "run" => current \in Pids
  <2>1. Retired \in [Pids -> Statuses] /\ status \in [Pids -> Statuses] /\ ticks \in Nat
    BY RetiredFacts DEF TypeOK
  <2>2. [Retired EXCEPT ![current] = "running"] \in [Pids -> Statuses]
    BY <2>1 DEF Statuses
  <2> QED
    BY <2>1, <2>2, SwitchCases DEF EndTick
<1>3. TypeOK'
  BY <1>1, <1>2 DEF TypeOK, Faults
<1>4. Runs' /\ ToDo' /\ Counting'
  BY <1>1, <1>2 DEF Runs, ToDo, Counting, Asks
<1> QED
  BY <1>3, <1>4

LEMMA GrantBasic ==
    ASSUME BasicInv, AnyGrant
    PROVE  BasicInv'
<1> USE DEF BasicInv
<1> DEFINE q == NextRequest(current)
<1>1. /\ current \in Pids /\ Asked \in Resources
      /\ q \in ToSet(toAcquire[current])
      /\ toAcquire' \in [Pids -> Seq(Request)] /\ holding' \in [Pids -> Seq(Left)]
      /\ \A o \in Pids \ {current} : toAcquire'[o] = toAcquire[o] /\ holding'[o] = holding[o]
      /\ ToSet(toAcquire'[current]) \subseteq ToSet(toAcquire[current])
      /\ IsInjective(toAcquire[current]) => IsInjective(toAcquire'[current])
      /\ ToSet(holding'[current]) = ToSet(holding[current]) \cup {q}
  BY GrantEffects
<1> HIDE DEF q
<1>2. /\ pc = "run"
      /\ owner' = [owner EXCEPT ![Asked] = current]
      /\ prio' \in [Pids -> Nat]
      /\ UNCHANGED <<policy, script, ticks, pc, current, prev, forkqueue, readyqueue, waitqueue,
                     status, age>>
  BY DEF AnyGrant
<1>3. TypeOK'
  BY <1>1, <1>2 DEF TypeOK
<1>4. Runs'
  BY <1>2 DEF Runs
<1>5. ToDo'
  BY <1>1, <1>2 DEF ToDo, Asks
<1>6. q.duration > 0
  <2>1. q \in Asks(current)
    BY <1>1 DEF ToDo
  <2> QED
    BY <1>1, <2>1, ScriptFacts
<1>7. Counting'
  BY <1>1, <1>2, <1>6 DEF Counting
<1> QED
  BY <1>3, <1>4, <1>5, <1>7

LEMMA RefusalBasic ==
    ASSUME BasicInv, AnyRefusal
    PROVE  BasicInv'
<1> USE DEF BasicInv
<1>1. waitqueue' \in [Resources -> Seq(Pids)] /\ status' \in [Pids -> Statuses]
  BY RefusalEffects
<1>2. /\ pc = "run" /\ pc' = "fork" /\ ticks' = ticks + 1
      /\ prio' \in [Pids -> Nat]
      /\ UNCHANGED <<policy, script, current, prev, forkqueue, readyqueue, owner, age, toAcquire,
                     holding>>
  BY DEF AnyRefusal, EndTick
<1>3. TypeOK'
  <2>1. TypeOK /\ ticks \in Nat
    BY DEF TypeOK
  <2>2. ticks' \in Nat
    BY <1>2, <2>1
  <2> QED
    BY <1>1, <1>2, <2>1, <2>2 DEF TypeOK
<1>4. Runs' /\ ToDo' /\ Counting'
  BY <1>2 DEF Runs, ToDo, Counting, Asks
<1> QED
  BY <1>3, <1>4

LEMMA WorkBasic ==
    ASSUME BasicInv, Work
    PROVE  BasicInv'
<1> USE DEF BasicInv
<1>1. /\ pc = "run" /\ pc' = "release" /\ Pending(current) = {}
      /\ UNCHANGED <<policy, script, ticks, current, prev, forkqueue, readyqueue, waitqueue, owner,
                     status, prio, toAcquire>>
  BY DEF Work
<1>2. current \in Pids
  BY <1>1 DEF Runs
<1>3. \A h \in ToSet(holding[current]) : h.duration > 0
  BY <1>1, <1>2 DEF Counting
<1>4. /\ age' \in [Pids -> Nat] /\ holding' \in [Pids -> Seq(Left)]
      /\ age'[current] = age[current] + 1
      /\ \A o \in Pids \ {current} : age'[o] = age[o] /\ holding'[o] = holding[o]
  BY <1>3, WorkEffects
<1>5. TypeOK'
  BY <1>1, <1>4 DEF TypeOK
<1>6. \A q \in ToSet(toAcquire[current]) : q.at \in Nat /\ q.at # age[current]
  <2>1. toAcquire[current] \in Seq(Request)
    BY <1>2 DEF TypeOK
  <2>2. \A i \in DOMAIN toAcquire[current] : toAcquire[current][i] \in Request
    BY <2>1, LenProperties, ElementOfSeq
  <2>3. \A i \in DOMAIN toAcquire[current] : toAcquire[current][i].at # age[current]
    BY <1>1 DEF Pending
  <2> QED
    BY <2>2, <2>3 DEF ToSet, Request
<1>7. ToDo'
  <2>1. \A q \in ToSet(toAcquire[current]) : q.at >= age[current] + 1
    BY <1>2, <1>6 DEF ToDo, TypeOK
  <2> QED
    BY <1>1, <1>2, <1>4, <2>1 DEF ToDo, Asks
<1>8. Runs' /\ Counting'
  BY <1>1, <1>2, <1>4 DEF Runs, Counting
<1> QED
  BY <1>5, <1>7, <1>8

LEMMA ReleaseBasic ==
    ASSUME BasicInv, AnyRelease
    PROVE  BasicInv'
<1> USE DEF BasicInv
<1>1. /\ current \in Pids
      /\ holding' \in [Pids -> Seq(Left)] /\ owner' \in [Resources -> Pids \cup {NoProcess}]
      /\ \A o \in Pids \ {current} : holding'[o] = holding[o]
      /\ pc' \in {"release", "assert"}
  BY ReleaseEffects
<1>2. /\ waitqueue' \in [Resources -> Seq(Pids)] /\ status' \in [Pids -> Statuses]
      /\ readyqueue' \in Seq(Pids)
  BY WakeEffects DEF WakesProcess, TypeOK
<1>3. /\ pc = "release" /\ prio' \in [Pids -> Nat]
      /\ UNCHANGED <<policy, script, ticks, current, prev, forkqueue, age, toAcquire>>
  BY DEF AnyRelease
<1>4. TypeOK'
  BY <1>1, <1>2, <1>3 DEF TypeOK, Faults
<1>5. Runs' /\ ToDo' /\ Counting'
  BY <1>1, <1>3 DEF Runs, ToDo, Counting, Asks
<1> QED
  BY <1>4, <1>5

LEMMA NextTickBasic ==
    ASSUME BasicInv, NextTick
    PROVE  BasicInv'
<1> USE DEF BasicInv
<1>1. /\ pc = "release" /\ pc' = "fork" /\ ticks' = ticks + 1 /\ Over(current) = {}
      /\ UNCHANGED <<policy, script, current, prev, forkqueue, readyqueue, waitqueue, owner, status,
                     age, prio, toAcquire, holding>>
  BY DEF NextTick, EndTick
<1>2. TypeOK'
  BY <1>1 DEF TypeOK
<1>3. \A h \in ToSet(holding[current]) : h.duration > 0
  <2>1. current \in Pids
    BY <1>1 DEF Runs
  <2>2. holding[current] \in Seq(Left)
    BY <2>1 DEF TypeOK
  <2>3. \A i \in DOMAIN holding[current] : holding[current][i] \in Left
    BY <2>2, LenProperties, ElementOfSeq
  <2>4. \A i \in DOMAIN holding[current] : holding[current][i].duration # 0
    BY <1>1 DEF Over
  <2> QED
    BY <2>3, <2>4 DEF ToSet, Left
<1>4. Runs' /\ ToDo' /\ Counting'
  BY <1>1, <1>3 DEF Runs, ToDo, Counting, Asks
<1> QED
  BY <1>2, <1>4

LEMMA BasicStep ==
    ASSUME BasicInv, [DraftNext]_draftVars
    PROVE  BasicInv'
<1>1. CASE UNCHANGED draftVars
  BY <1>1 DEF draftVars, schedVars, BasicInv, TypeOK, Runs, ToDo, Counting, Asks
<1>2. CASE AnyNext
  BY <1>2, ForkBasic, ScheduleBasic, SwitchBasic, GrantBasic, RefusalBasic, WorkBasic, ReleaseBasic,
     NextTickBasic, Zenon DEF AnyNext
<1> QED
  BY <1>1, <1>2, StepsAreAny DEF BasicInv

LEMMA BasicAlways == DraftSpec => []BasicInv
<1>1. DraftInit => BasicInv
  BY BasicInit
<1>2. BasicInv /\ [DraftNext]_draftVars => BasicInv'
  BY BasicStep
<1> QED
  BY <1>1, <1>2, PTL DEF DraftSpec

(* Whatever the policy and the script are, the lists of the simulator hold *)
(* processes and its counters stay numbers: no duration is counted down    *)
(* below zero.                                                             *)
THEOREM TypeOKAlways == DraftSpec => []TypeOK
<1>1. BasicInv => TypeOK
  BY DEF BasicInv
<1> QED
  BY <1>1, BasicAlways, PTL

-----------------------------------------------------------------------------
(* The places of the processes. sched.c links a process through one list   *)
(* head, so that no two lists may have it; current is in none while it     *)
(* runs, and in a wait queue at most before another one is scheduled.      *)

F == ToSet(forkqueue)
R == ToSet(readyqueue)
W(r) == ToSet(waitqueue[r])

NobodyTwice ==
    /\ IsInjective(forkqueue) /\ IsInjective(readyqueue)
    /\ \A r \in Resources : IsInjective(waitqueue[r])
ListsApart ==
    /\ F \cap R = {}
    /\ \A r \in Resources : W(r) \cap F = {} /\ W(r) \cap R = {}
    /\ \A r, s \in Resources : r # s => W(r) \cap W(s) = {}
CurrentApart ==
    /\ current \notin F /\ current \notin R
    /\ pc \in {"run", "release"} => \A r \in Resources : current \notin W(r)
WaitersWait ==
    pc # "assert" => \A p \in Pids : status[p] = "wait" <=> \E r \in Resources : p \in W(r)
PlaceInv == pc # "corrupt" => NobodyTwice /\ ListsApart /\ CurrentApart /\ WaitersWait

LEMMA ListsHoldPids ==
    ASSUME TypeOK
    PROVE  F \subseteq Pids /\ R \subseteq Pids /\ \A r \in Resources : W(r) \subseteq Pids
<1>1. \A s \in Seq(Pids) : ToSet(s) \subseteq Pids
  BY LenProperties, ElementOfSeq DEF ToSet
<1> QED
  BY <1>1 DEF TypeOK, F, R, W

LEMMA LinkedMeans ==
    ASSUME NEW p
    PROVE  Linked(p) <=> p \in F \/ p \in R \/ \E r \in Resources : p \in W(r)
BY DEF Linked, F, R, W

LEMMA PlaceInit ==
    ASSUME DraftInit
    PROVE  PlaceInv
<1>1. PICK c \in Cases : Load(c)
  BY DEF DraftInit
<1>2. /\ pc = "fork" /\ current = NoProcess
      /\ forkqueue = [p \in Pids |-> p] /\ readyqueue = <<>>
      /\ waitqueue = [r \in Resources |-> <<>>]
      /\ status = [p \in Pids |-> "ready"]
  BY <1>1 DEF Load
<1>3. F = Pids /\ R = {} /\ \A r \in Resources : W(r) = {}
  BY <1>2 DEF F, R, W, ToSet
<1>4. NobodyTwice
  BY <1>2 DEF NobodyTwice, IsInjective
<1> QED
  BY <1>2, <1>3, <1>4 DEF PlaceInv, ListsApart, CurrentApart, WaitersWait, NoProcess, Pids

LEMMA ForkPlaces ==
    ASSUME TypeOK, PlaceInv, Fork
    PROVE  PlaceInv'
<1>1. /\ pc = "fork" /\ pc' \in {"fork", "schedule"}
      /\ UNCHANGED <<current, waitqueue, status>>
  BY ForkCases DEF ForkRound
<1>2. NobodyTwice /\ ListsApart /\ CurrentApart /\ WaitersWait
  BY <1>1 DEF PlaceInv
<1>3. (\A r \in Resources : W(r)' = W(r)) /\ WaitersWait'
  BY <1>1, <1>2 DEF W, WaitersWait
<1>4. CASE ForkRound
  <2>1. PICK p \in F :
          /\ R' = R \cup {p}
          /\ IsInjective(forkqueue') /\ F' = F \ {p}
          /\ p \notin R => IsInjective(readyqueue')
    BY <1>2, <1>4, ForkEffects DEF F, R, NobodyTwice
  <2>2. p \notin R /\ p # current /\ \A r \in Resources : p \notin W(r)
    BY <1>2, <2>1 DEF ListsApart, CurrentApart
  <2>3. NobodyTwice'
    BY <1>1, <1>2, <2>1, <2>2 DEF NobodyTwice
  <2>4. ListsApart'
    BY <1>2, <1>3, <2>1, <2>2 DEF ListsApart
  <2>5. CurrentApart'
    BY <1>1, <1>2, <2>1, <2>2 DEF CurrentApart
  <2> QED
    BY <1>3, <2>3, <2>4, <2>5 DEF PlaceInv
<1>5. CASE UNCHANGED <<forkqueue, readyqueue>>
  <2>1. F' = F /\ R' = R
    BY <1>5 DEF F, R
  <2> QED
    BY <1>1, <1>2, <1>3, <1>5, <2>1 DEF PlaceInv, NobodyTwice, ListsApart, CurrentApart
<1> QED
  BY <1>4, <1>5, ForkCases

LEMMA SchedulePlaces ==
    ASSUME TypeOK, PlaceInv, ScheduleStep, Choice
    PROVE  PlaceInv'
<1>1. /\ pc = "schedule"
      /\ UNCHANGED <<forkqueue, waitqueue, status>>
  BY DEF ScheduleStep
<1>2. NobodyTwice /\ ListsApart /\ CurrentApart /\ WaitersWait
  BY <1>1 DEF PlaceInv
<1>3. Ends
  BY ScheduleEffects
<1>4. F' = F /\ (\A r \in Resources : W(r)' = W(r)) /\ WaitersWait'
  BY <1>1, <1>2 DEF F, W, WaitersWait
<1>5. CASE pc' = "null" /\ UNCHANGED <<current, readyqueue>>
  <2>1. R' = R
    BY <1>5 DEF R
  <2> QED
    BY <1>1, <1>2, <1>4, <1>5, <2>1 DEF PlaceInv, NobodyTwice, ListsApart, CurrentApart
<1>6. CASE pc' = "corrupt"
  BY <1>6 DEF PlaceInv
<1>7. CASE pc' = "switch" /\ (Keeps \/ Picks \/ Idles \/ GoesBack)
  <2>1. SUFFICES /\ IsInjective(readyqueue')
                 /\ R' \cap F = {} /\ \A r \in Resources : R' \cap W(r) = {}
                 /\ current' \notin F /\ current' \notin R'
    <3>1. NobodyTwice' /\ ListsApart'
      BY <1>1, <1>2, <1>4, <2>1 DEF NobodyTwice, ListsApart
    <3>2. CurrentApart'
      BY <1>4, <1>7, <2>1 DEF CurrentApart
    <3> QED
      BY <1>4, <3>1, <3>2 DEF PlaceInv
  <2>2. /\ IsInjective(readyqueue) /\ F \cap R = {} /\ current \notin F /\ current \notin R
        /\ \A r \in Resources : W(r) \cap R = {}
    BY <1>2 DEF NobodyTwice, ListsApart, CurrentApart
  <2>3. CASE Keeps
    <3>1. readyqueue' = readyqueue /\ current' = current
      BY <2>2, <2>3 DEF Keeps, R
    <3> QED
      BY <2>2, <3>1 DEF R
  <2>4. CASE Picks
    <3>1. current' \in R /\ IsInjective(readyqueue') /\ R' = R \ {current'}
      BY <2>2, <2>4 DEF Picks, R
    <3> QED
      BY <2>2, <3>1
  <2>5. CASE Idles
    <3>1. current' = NoProcess /\ R' = {}
      BY <2>5 DEF Idles, R, ToSet
    <3>2. NoProcess \notin F /\ IsInjective(readyqueue')
      BY <2>5, ListsHoldPids DEF Idles, IsInjective, NoProcess, Pids
    <3> QED
      BY <3>1, <3>2
  <2>6. CASE GoesBack
    <3>1. /\ current \in Pids /\ status[current] # "wait"
          /\ current' \in R \cup {current}
          /\ IsInjective(readyqueue') /\ R' = (R \cup {current}) \ {current'}
      BY <2>2, <2>6 DEF GoesBack, R, Blocked, NoProcess, Pids
    <3>2. \A r \in Resources : current \notin W(r)
      BY <1>1, <1>2, <3>1 DEF WaitersWait
    <3> QED
      BY <2>2, <3>1, <3>2
  <2> QED
    BY <1>7, <2>3, <2>4, <2>5, <2>6
<1> QED
  BY <1>3, <1>5, <1>6, <1>7 DEF Ends

LEMMA SwitchPlaces ==
    ASSUME TypeOK, PlaceInv, Switch
    PROVE  PlaceInv'
<1>1. /\ pc = "switch" /\ pc' \in {"assert", "run", "end", "fork"}
      /\ UNCHANGED <<current, forkqueue, readyqueue, waitqueue>>
      /\ pc' = "run" => ~Linked(current)
  BY SwitchCases DEF EndTick
<1>2. NobodyTwice /\ ListsApart /\ CurrentApart /\ WaitersWait
  BY <1>1 DEF PlaceInv
<1>3. F' = F /\ R' = R /\ \A r \in Resources : W(r)' = W(r)
  BY <1>1 DEF F, R, W
<1>4. NobodyTwice' /\ ListsApart'
  BY <1>1, <1>2, <1>3 DEF NobodyTwice, ListsApart
<1>5. CurrentApart'
  BY <1>1, <1>2, <1>3, LinkedMeans DEF CurrentApart
<1>6. ASSUME pc' # "assert", NEW p \in Pids
      PROVE  status'[p] = "wait" <=> status[p] = "wait"
  <2>1. Finished => ExitAsserts
    BY <1>6, SwitchCases
  <2>2. prev \in Pids /\ Finished => status[prev] # "wait"
    BY <1>1, <1>2, <2>1, LinkedMeans DEF ExitAsserts, WaitersWait
  <2>3. Retired[p] = "wait" <=> status[p] = "wait"
    BY <2>2, RetiredFacts
  <2>4. CASE current = NoProcess
    <3>1. status' = Retired
      BY <1>6, <2>4, SwitchCases DEF NoProcess, Pids
    <3> QED
      BY <2>3, <3>1
  <2>5. CASE current # NoProcess
    <3>1. /\ current \in Pids /\ ~Linked(current)
          /\ status' = [Retired EXCEPT ![current] = "running"]
      BY <1>6, <2>5, SwitchCases
    <3>2. status[current] # "wait"
      BY <1>1, <1>2, <3>1, LinkedMeans DEF WaitersWait
    <3>3. Retired \in [Pids -> Statuses]
      BY RetiredFacts
    <3> QED
      BY <2>3, <3>1, <3>2, <3>3
  <2> QED
    BY <2>4, <2>5
<1>7. WaitersWait'
  BY <1>1, <1>2, <1>3, <1>6 DEF WaitersWait
<1> QED
  BY <1>4, <1>5, <1>7 DEF PlaceInv

LEMMA RefusalPlaces ==
    ASSUME TypeOK, Runs, PlaceInv, AnyRefusal
    PROVE  PlaceInv'
<1>1. /\ pc = "run" /\ pc' = "fork"
      /\ UNCHANGED <<current, forkqueue, readyqueue>>
  BY DEF AnyRefusal, EndTick
<1>2. NobodyTwice /\ ListsApart /\ CurrentApart /\ WaitersWait
  BY <1>1 DEF PlaceInv
<1>3. /\ current \in Pids /\ Asked \in Resources
      /\ \A r \in Resources \ {Asked} : waitqueue'[r] = waitqueue[r]
      /\ ToSet(waitqueue'[Asked]) = ToSet(waitqueue[Asked]) \cup {current}
      /\ /\ IsInjective(waitqueue[Asked]) /\ current \notin ToSet(waitqueue[Asked])
         => IsInjective(waitqueue'[Asked])
      /\ status'[current] = "wait" /\ \A o \in Pids \ {current} : status'[o] = status[o]
  BY RefusalEffects
<1>4. F' = F /\ R' = R
  BY <1>1 DEF F, R
<1> DEFINE V(r) == ToSet(waitqueue'[r])
<1>5. \A r \in Resources : W(r)' = V(r)
  BY DEF W
<1>6. /\ \A r \in Resources \ {Asked} : V(r) = W(r)
      /\ V(Asked) = W(Asked) \cup {current}
  BY <1>3 DEF W
<1> HIDE DEF V
<1>7. current \notin F /\ current \notin R /\ \A r \in Resources : current \notin W(r)
  BY <1>1, <1>2 DEF CurrentApart
<1>8. NobodyTwice'
  BY <1>1, <1>2, <1>3, <1>7 DEF NobodyTwice, W
<1>9. ListsApart'
  BY <1>2, <1>4, <1>5, <1>6, <1>7 DEF ListsApart
<1>10. CurrentApart'
  BY <1>1, <1>4, <1>7 DEF CurrentApart
<1>11. WaitersWait'
  BY <1>1, <1>2, <1>3, <1>5, <1>6 DEF WaitersWait
<1> QED
  BY <1>8, <1>9, <1>10, <1>11 DEF PlaceInv

LEMMA ReleasePlaces ==
    ASSUME TypeOK, Runs, PlaceInv, AnyRelease
    PROVE  PlaceInv'
<1>1. /\ pc = "release" /\ pc' \in {"release", "assert"} /\ UNCHANGED <<current, forkqueue>>
  BY DEF AnyRelease, Disowns
<1>2. NobodyTwice /\ ListsApart /\ CurrentApart /\ WaitersWait
  BY <1>1 DEF PlaceInv
<1>3. Released \in Resources /\ F' = F
  BY <1>1, ReleaseEffects DEF F
<1>4. CASE UNCHANGED <<waitqueue, status, readyqueue>>
  <2>1. R' = R /\ \A r \in Resources : W(r)' = W(r)
    BY <1>4 DEF R, W
  <2> QED
    BY <1>1, <1>2, <1>3, <1>4, <2>1
        DEF PlaceInv, NobodyTwice, ListsApart, CurrentApart, WaitersWait
<1>5. CASE \E w : WakesProcess(w)
  <2>1. PICK w : WakesProcess(w)
    BY <1>5
  <2> DEFINE V(r) == ToSet(waitqueue'[r])
  <2>2. \A r \in Resources : W(r)' = V(r)
    BY DEF W
  <2>3. /\ w \in W(Released) /\ w \in Pids
        /\ \A r \in Resources \ {Released} : V(r) = W(r) /\ waitqueue'[r] = waitqueue[r]
        /\ V(Released) = W(Released) \ {w} /\ IsInjective(waitqueue'[Released])
        /\ R' = R \cup {w}
        /\ w \notin R => IsInjective(readyqueue')
        /\ status'[w] = "ready" /\ \A o \in Pids \ {w} : status'[o] = status[o]
    BY <1>2, <1>3, <2>1 DEF WakesProcess, W, R, NobodyTwice
  <2> HIDE DEF V
  <2>4. /\ w \notin R /\ w \notin F /\ w # current
        /\ \A r \in Resources : r # Released => w \notin W(r)
    BY <1>1, <1>2, <1>3, <2>3 DEF ListsApart, CurrentApart
  <2>5. NobodyTwice'
    BY <1>1, <1>2, <2>3, <2>4 DEF NobodyTwice
  <2>6. ListsApart'
    BY <1>2, <1>3, <2>2, <2>3, <2>4 DEF ListsApart
  <2>7. CurrentApart'
    BY <1>1, <1>2, <1>3, <2>2, <2>3, <2>4 DEF CurrentApart
  <2>8. WaitersWait'
    BY <1>1, <1>2, <1>3, <2>2, <2>3, <2>4 DEF WaitersWait
  <2> QED
    BY <2>5, <2>6, <2>7, <2>8 DEF PlaceInv
<1> QED
  BY <1>4, <1>5, WakeEffects

LEMMA OtherPlaces ==
    ASSUME PlaceInv, AnyGrant \/ Work \/ NextTick \/ UNCHANGED draftVars
    PROVE  PlaceInv'
<1>1. /\ UNCHANGED <<current, forkqueue, readyqueue, waitqueue, status>>
      /\ \/ pc' = pc
         \/ pc = "run" /\ pc' = "release"
         \/ pc = "release" /\ pc' = "fork"
  BY DEF AnyGrant, Work, NextTick, EndTick, draftVars, schedVars
<1>2. F' = F /\ R' = R /\ \A r \in Resources : W(r)' = W(r)
  BY <1>1 DEF F, R, W
<1> QED
  BY <1>1, <1>2 DEF PlaceInv, NobodyTwice, ListsApart, CurrentApart, WaitersWait

LEMMA PlaceStep ==
    ASSUME BasicInv, PlaceInv, [DraftNext]_draftVars
    PROVE  PlaceInv'
<1>1. TypeOK /\ Runs
  BY DEF BasicInv
<1>2. AnyNext \/ UNCHANGED draftVars
  BY <1>1, StepsAreAny
<1> QED
  BY <1>1, <1>2, ForkPlaces, SchedulePlaces, SwitchPlaces, RefusalPlaces, ReleasePlaces, OtherPlaces,
     Zenon DEF AnyNext

LEMMA PlaceAlways == DraftSpec => []PlaceInv
<1>1. DraftInit => PlaceInv
  BY PlaceInit
<1>2. BasicInv /\ PlaceInv /\ [DraftNext]_draftVars => PlaceInv'
  BY PlaceStep
<1> QED
  BY <1>1, <1>2, BasicAlways, PTL DEF DraftSpec

-----------------------------------------------------------------------------
(* No wake-up is lost: who waits for a resource asks for it first of all,  *)
(* so that the process a release wakes takes the promise over.             *)

AsksNext(p, r) == Pending(p) # {} /\ NextRequest(p).id = r
WaitersAsk == \A r \in Resources : \A p \in W(r) : AsksNext(p, r)
Promised(r) == \E p \in Pids : status[p] \notin {"wait", "exit"} /\ AsksNext(p, r)
WaitInv == WaitersAsk /\ \A r \in Resources : owner[r] = NoProcess /\ W(r) # {} => Promised(r)

LEMMA WaitMeansNoLostWakeup ==
    ASSUME TypeOK, WaitInv
    PROVE  NoLostWakeup
<1>1. \A r \in Resources : waitqueue[r] # <<>> => W(r) # {}
  <2>1. SUFFICES ASSUME NEW r \in Resources, waitqueue[r] # <<>>
                 PROVE  W(r) # {}
    OBVIOUS
  <2>2. waitqueue[r] \in Seq(Pids)
    BY DEF TypeOK
  <2> QED
    BY <2>1, <2>2, HeadIsThere DEF W
<1> QED
  BY <1>1 DEF NoLostWakeup, WaitInv, Promised, AsksNext

LEMMA AsksTheSame ==
    ASSUME NEW p, toAcquire'[p] = toAcquire[p], age'[p] = age[p]
    PROVE  \A r : AsksNext(p, r)' <=> AsksNext(p, r)
<1>1. Pending(p)' = Pending(p)
  BY DEF Pending
<1> QED
  BY <1>1 DEF AsksNext, NextRequest

LEMMA WaitInit ==
    ASSUME DraftInit
    PROVE  WaitInv
<1>1. waitqueue = [r \in Resources |-> <<>>]
  BY DEF DraftInit, Load
<1>2. \A r \in Resources : W(r) = {}
  BY <1>1 DEF W, ToSet
<1> QED
  BY <1>2 DEF WaitInv, WaitersAsk

LEMMA QuietWaits ==
    ASSUME WaitInv, UNCHANGED <<waitqueue, owner, status, age, toAcquire>>
    PROVE  WaitInv'
<1>1. \A p : \A r : AsksNext(p, r)' <=> AsksNext(p, r)
  BY AsksTheSame
<1>2. \A r : W(r)' = W(r)
  BY DEF W
<1> QED
  BY <1>1, <1>2 DEF WaitInv, WaitersAsk, Promised

LEMMA SwitchWaits ==
    ASSUME TypeOK, PlaceInv, WaitInv, Switch
    PROVE  WaitInv'
<1>1. UNCHANGED <<current, waitqueue, owner, age, toAcquire>>
  BY SwitchCases
<1>2. \A p : \A r : AsksNext(p, r)' <=> AsksNext(p, r)
  BY <1>1, AsksTheSame
<1>3. \A r : W(r)' = W(r)
  BY <1>1 DEF W
<1>4. ASSUME NEW r \in Resources, NEW p \in Pids, status[p] \notin {"wait", "exit"},
             AsksNext(p, r)
      PROVE  status'[p] \notin {"wait", "exit"}
  <2>1. CASE UNCHANGED status
    BY <1>4, <2>1
  <2>2. CASE /\ Finished => ExitAsserts
             /\ status' = Retired \/ status' = [Retired EXCEPT ![current] = "running"]
    <3>1. Retired \in [Pids -> Statuses]
      BY RetiredFacts
    <3>2. ~(p = prev /\ Finished)
      <4>1. toAcquire[p] # <<>>
        BY <1>4 DEF AsksNext, Pending
      <4> QED
        BY <2>2, <4>1 DEF ExitAsserts
    <3>3. Retired[p] \notin {"wait", "exit"}
      BY <1>4, <3>2, RetiredFacts
    <3> QED
      BY <2>2, <3>1, <3>3
  <2> QED
    BY <2>1, <2>2, SwitchCases
<1>5. \A r \in Resources : Promised(r) => Promised(r)'
  BY <1>2, <1>4 DEF Promised
<1> QED
  BY <1>1, <1>2, <1>3, <1>5 DEF WaitInv, WaitersAsk

LEMMA GrantWaits ==
    ASSUME TypeOK, Runs, PlaceInv, WaitInv, AnyGrant
    PROVE  WaitInv'
<1>1. /\ pc = "run"
      /\ owner' = [owner EXCEPT ![Asked] = current]
      /\ UNCHANGED <<waitqueue, status, age>>
      /\ AsksNext(current, Asked)
  BY DEF AnyGrant, AsksNext, Asked
<1>2. /\ current \in Pids /\ Asked \in Resources
      /\ \A o \in Pids \ {current} : toAcquire'[o] = toAcquire[o]
  BY GrantEffects
<1>3. owner'[Asked] = current /\ \A r \in Resources \ {Asked} : owner'[r] = owner[r]
  BY <1>1, <1>2 DEF TypeOK
<1>4. \A p \in Pids \ {current} : \A r : AsksNext(p, r)' <=> AsksNext(p, r)
  BY <1>1, <1>2, AsksTheSame
<1>5. \A r \in Resources : W(r)' = W(r) /\ W(r) \subseteq Pids /\ current \notin W(r)
  BY <1>1, ListsHoldPids DEF W, PlaceInv, CurrentApart
<1>6. \A r \in Resources \ {Asked} : Promised(r) => Promised(r)'
  BY <1>1, <1>4 DEF Promised, AsksNext
<1>7. WaitersAsk'
  BY <1>4, <1>5 DEF WaitInv, WaitersAsk
<1>8. \A r \in Resources : owner'[r] = NoProcess /\ W(r)' # {} => Promised(r)'
  BY <1>2, <1>3, <1>5, <1>6 DEF WaitInv, NoProcess, Pids
<1> QED
  BY <1>7, <1>8 DEF WaitInv

LEMMA RefusalWaits ==
    ASSUME TypeOK, Runs, PlaceInv, WaitInv, AnyRefusal
    PROVE  WaitInv'
<1>1. /\ UNCHANGED <<owner, age, toAcquire>>
      /\ AsksNext(current, Asked)
  BY DEF AnyRefusal, AsksNext, Asked
<1>2. /\ current \in Pids /\ Asked \in Resources /\ owner[Asked] \in Pids
      /\ \A r \in Resources \ {Asked} : waitqueue'[r] = waitqueue[r]
      /\ ToSet(waitqueue'[Asked]) = ToSet(waitqueue[Asked]) \cup {current}
      /\ \A o \in Pids \ {current} : status'[o] = status[o]
  BY RefusalEffects
<1>3. \A p : \A r : AsksNext(p, r)' <=> AsksNext(p, r)
  BY <1>1, AsksTheSame
<1>4. \A r \in Resources : /\ r # Asked => W(r)' = W(r)
                           /\ r = Asked => W(r)' = W(r) \cup {current}
  BY <1>2 DEF W
<1>5. \A r \in Resources \ {Asked} : Promised(r) => Promised(r)'
  BY <1>1, <1>2, <1>3 DEF Promised, AsksNext
<1>6. WaitersAsk'
  BY <1>1, <1>3, <1>4 DEF WaitInv, WaitersAsk
<1>7. \A r \in Resources : owner'[r] = NoProcess /\ W(r)' # {} => Promised(r)'
  BY <1>1, <1>2, <1>4, <1>5 DEF WaitInv, NoProcess, Pids
<1> QED
  BY <1>6, <1>7 DEF WaitInv

LEMMA WorkWaits ==
    ASSUME BasicInv, PlaceInv, WaitInv, Work
    PROVE  WaitInv'
<1>1. /\ pc = "run" /\ Pending(current) = {}
      /\ UNCHANGED <<waitqueue, owner, status, toAcquire>>
  BY DEF Work
<1>2. \A h \in ToSet(holding[current]) : h.duration > 0
  BY <1>1 DEF BasicInv, Runs, Counting
<1>3. current \in Pids /\ \A o \in Pids \ {current} : age'[o] = age[o]
  BY <1>2, WorkEffects DEF BasicInv
<1>4. \A p \in Pids \ {current} : \A r : AsksNext(p, r)' <=> AsksNext(p, r)
  BY <1>1, <1>3, AsksTheSame
<1>5. \A r \in Resources : W(r)' = W(r) /\ W(r) \subseteq Pids /\ current \notin W(r)
  BY <1>1, ListsHoldPids DEF W, PlaceInv, CurrentApart, BasicInv
<1>6. \A r \in Resources : Promised(r) => Promised(r)'
  BY <1>1, <1>4 DEF Promised, AsksNext
<1> QED
  BY <1>1, <1>4, <1>5, <1>6 DEF WaitInv, WaitersAsk

LEMMA ReleaseWaits ==
    ASSUME TypeOK, Runs, PlaceInv, WaitInv, AnyRelease
    PROVE  WaitInv'
<1>1. /\ pc = "release" /\ UNCHANGED <<age, toAcquire>>
  BY DEF AnyRelease
<1>2. PICK o \in Resources :
         o = Released /\ \A r \in Resources \ {o} : owner'[r] = owner[r]
  BY ReleaseEffects
<1>3. \A p : \A r : AsksNext(p, r)' <=> AsksNext(p, r)
  BY <1>1, AsksTheSame
<1>4. CASE waitqueue[Released] = <<>> /\ UNCHANGED <<waitqueue, status, readyqueue>>
  <2>1. (\A r : W(r)' = W(r)) /\ W(o) = {}
    BY <1>2, <1>4 DEF W, ToSet
  <2> QED
    BY <1>2, <1>3, <1>4, <2>1 DEF WaitInv, WaitersAsk, Promised
<1>5. CASE \E w : WakesProcess(w)
  <2>1. PICK w : WakesProcess(w)
    BY <1>5
  <2> DEFINE V(r) == ToSet(waitqueue'[r])
  <2>2. \A r \in Resources : W(r)' = V(r)
    BY DEF W
  <2>3. /\ w \in W(o) /\ w \in Pids
        /\ \A r \in Resources \ {o} : V(r) = W(r)
        /\ V(o) \subseteq W(o)
        /\ status'[w] = "ready" /\ \A p \in Pids \ {w} : status'[p] = status[p]
    BY <1>2, <2>1 DEF WakesProcess, W
  <2> HIDE DEF V
  <2>4. WaitersAsk'
    BY <1>2, <1>3, <2>2, <2>3 DEF WaitInv, WaitersAsk
  <2>5. \A r \in Resources : Promised(r) => Promised(r)'
    BY <1>3, <2>3 DEF Promised
  <2>6. Promised(o)'
    <3>1. AsksNext(w, o)
      BY <1>2, <2>3 DEF WaitInv, WaitersAsk
    <3>2. status'[w] \notin {"wait", "exit"} /\ AsksNext(w, o)'
      BY <1>3, <2>3, <3>1
    <3> QED
      BY <2>3, <3>2 DEF Promised
  <2> QED
    BY <1>2, <2>2, <2>3, <2>4, <2>5, <2>6 DEF WaitInv
<1> QED
  BY <1>4, <1>5, WakeEffects

LEMMA WaitStep ==
    ASSUME BasicInv, PlaceInv, WaitInv, [DraftNext]_draftVars
    PROVE  WaitInv'
<1>1. TypeOK /\ Runs
  BY DEF BasicInv
<1>2. AnyNext \/ UNCHANGED draftVars
  BY <1>1, StepsAreAny
<1>3. CASE Fork \/ ScheduleStep \/ NextTick \/ UNCHANGED draftVars
  BY <1>3, QuietWaits DEF Fork, ScheduleStep, NextTick, draftVars, schedVars
<1> QED
  BY <1>1, <1>2, <1>3, SwitchWaits, GrantWaits, RefusalWaits, WorkWaits, ReleaseWaits, Zenon
      DEF AnyNext

LEMMA WaitAlways == DraftSpec => []WaitInv
<1>1. DraftInit => WaitInv
  BY WaitInit
<1>2. BasicInv /\ PlaceInv /\ WaitInv /\ [DraftNext]_draftVars => WaitInv'
  BY WaitStep
<1> QED
  BY <1>1, <1>2, BasicAlways, PlaceAlways, PTL DEF DraftSpec

(* A resource that is free while processes wait for it has been promised   *)
(* to one that asks for it as soon as it runs: no policy of any version    *)
(* forgets the processes behind the one a release has woken.               *)
THEOREM NoLostWakeupAlways == DraftSpec => []NoLostWakeup
<1>1. TypeOK /\ WaitInv => NoLostWakeup
  BY WaitMeansNoLostWakeup
<1> QED
  BY <1>1, TypeOKAlways, WaitAlways, PTL

-----------------------------------------------------------------------------
(* What a process holds are requests of its script it was granted at their *)
(* time, and the resources know whose they are.                            *)

Matches(p, h, q) == h.id = q.id /\ h.at = q.at /\ age[p] + h.duration = q.at + q.duration
Granted ==
    \A p \in Pids : \A h \in ToSet(holding[p]) :
        /\ h.at <= age[p]
        /\ \E q \in Asks(p) \ ToSet(toAcquire[p]) : Matches(p, h, q)
Served ==
    \A p \in Pids : \A q \in Asks(p) :
        \/ q \in ToSet(toAcquire[p])
        \/ \E h \in ToSet(holding[p]) : Matches(p, h, q)
        \/ q.at + q.duration <= age[p]
Owned ==
    \A p \in Pids :
        /\ IsInjective(holding[p])
        /\ \A h \in ToSet(holding[p]) :
              /\ owner[h.id] = p
              /\ \A g \in ToSet(holding[p]) : g.id = h.id => g = h
OwnersHold ==
    \A r \in Resources : \A p \in Pids :
        owner[r] = p => \E h \in ToSet(holding[p]) : h.id = r
RequestInv == Granted /\ Served /\ Owned /\ OwnersHold

LEMMA HeldFacts ==
    ASSUME TypeOK, NEW p \in Pids
    PROVE  /\ holding[p] \in Seq(Left) /\ toAcquire[p] \in Seq(Request)
           /\ \A h \in ToSet(holding[p]) :
                 h \in Left /\ h.id \in Resources /\ h.at \in Nat /\ h.duration \in Nat
           /\ \A q \in Asks(p) : q.id \in Resources /\ q.at \in Nat /\ q.duration \in Nat
           /\ age[p] \in Nat
<1>1. holding[p] \in Seq(Left) /\ toAcquire[p] \in Seq(Request) /\ age[p] \in Nat
  BY DEF TypeOK
<1>2. \A i \in DOMAIN holding[p] : holding[p][i] \in Left
  BY <1>1, LenProperties, ElementOfSeq
<1>3. \A h \in ToSet(holding[p]) : h \in Left
  BY <1>2 DEF ToSet
<1>4. \A q \in Asks(p) : q \in Request
  BY ScriptFacts
<1> QED
  BY <1>1, <1>3, <1>4 DEF Left, Request

LEMMA RequestInit ==
    ASSUME DraftInit
    PROVE  RequestInv
<1>1. PICK c \in Cases : Load(c)
  BY DEF DraftInit
<1>2. /\ toAcquire = [p \in Pids |-> script[p].acquire] /\ holding = [p \in Pids |-> <<>>]
      /\ owner = [r \in Resources |-> NoProcess]
  BY <1>1 DEF Load
<1>3. \A p \in Pids : ToSet(holding[p]) = {} /\ IsInjective(holding[p])
  BY <1>2 DEF ToSet, IsInjective
<1>4. \A p \in Pids : Asks(p) = ToSet(toAcquire[p])
  BY <1>2 DEF Asks
<1>5. \A r \in Resources : owner[r] \notin Pids
  BY <1>2 DEF NoProcess, Pids
<1> QED
  BY <1>3, <1>4, <1>5 DEF RequestInv, Granted, Served, Owned, OwnersHold

LEMMA QuietRequests ==
    ASSUME RequestInv, UNCHANGED <<script, owner, age, toAcquire, holding>>
    PROVE  RequestInv'
BY DEF RequestInv, Granted, Served, Owned, OwnersHold, Matches, Asks

LEMMA GrantRequests ==
    ASSUME BasicInv, RequestInv, AnyGrant
    PROVE  RequestInv'
<1> DEFINE q == NextRequest(current)
<1>1. /\ current \in Pids /\ Asked \in Resources /\ owner[Asked] = NoProcess
      /\ q \in ToSet(toAcquire[current]) /\ q \in Request /\ q.at = age[current] /\ q.id = Asked
      /\ \A o \in Pids \ {current} : toAcquire'[o] = toAcquire[o] /\ holding'[o] = holding[o]
      /\ ToSet(toAcquire'[current]) = ToSet(toAcquire[current]) \ {q}
      /\ ToSet(holding'[current]) = ToSet(holding[current]) \cup {q}
      /\ IsInjective(holding[current]) /\ q \notin ToSet(holding[current]) =>
            IsInjective(holding'[current])
  BY GrantEffects DEF BasicInv, ToDo
<1> HIDE DEF q
<1>2. /\ owner' = [owner EXCEPT ![Asked] = current]
      /\ UNCHANGED <<script, age>>
  BY DEF AnyGrant
<1>3. owner'[Asked] = current /\ \A r \in Resources \ {Asked} : owner'[r] = owner[r]
  BY <1>1, <1>2 DEF BasicInv, TypeOK
<1>4. \A p \in Pids : \A h \in ToSet(holding[p]) : h.id \in Resources /\ h.id # Asked
  BY <1>1, HeldFacts DEF BasicInv, RequestInv, Owned, NoProcess, Pids
<1>5. (\A p : Asks(p)' = Asks(p)) /\ \A p, h, s : Matches(p, h, s)' <=> Matches(p, h, s)
  BY <1>2 DEF Asks, Matches
<1>6. q \in Asks(current) /\ q.at \in Nat /\ q.duration \in Nat
  BY <1>1 DEF BasicInv, ToDo, Request
<1>7. Matches(current, q, q) /\ q.at <= age[current]
  BY <1>1, <1>6 DEF Matches
<1>8. Granted'
  <2>1. SUFFICES ASSUME NEW p \in Pids, NEW h \in ToSet(holding'[p])
                 PROVE  /\ h.at <= age[p]
                        /\ \E s \in Asks(p) \ ToSet(toAcquire'[p]) : Matches(p, h, s)
    BY <1>2, <1>5 DEF Granted
  <2>2. CASE h \in ToSet(holding[p])
    BY <1>1, <2>2 DEF RequestInv, Granted
  <2>3. CASE h \notin ToSet(holding[p])
    <3>1. p = current /\ h = q
      BY <1>1, <2>3
    <3> QED
      BY <1>1, <1>6, <1>7, <3>1
  <2> QED
    BY <2>2, <2>3
<1>9. Served'
  <2>1. SUFFICES ASSUME NEW p \in Pids, NEW s \in Asks(p)
                 PROVE  \/ s \in ToSet(toAcquire'[p])
                        \/ \E h \in ToSet(holding'[p]) : Matches(p, h, s)
                        \/ s.at + s.duration <= age[p]
    BY <1>2, <1>5 DEF Served
  <2>2. \/ s \in ToSet(toAcquire[p])
        \/ \E h \in ToSet(holding[p]) : Matches(p, h, s)
        \/ s.at + s.duration <= age[p]
    BY DEF RequestInv, Served
  <2> QED
    BY <1>1, <1>7, <2>2
<1>10. Owned'
  <2>1. SUFFICES ASSUME NEW p \in Pids
                 PROVE  /\ IsInjective(holding'[p])
                        /\ \A h \in ToSet(holding'[p]) :
                              /\ owner'[h.id] = p
                              /\ \A g \in ToSet(holding'[p]) : g.id = h.id => g = h
    BY DEF Owned
  <2>2. /\ IsInjective(holding[p])
        /\ \A h \in ToSet(holding[p]) :
              /\ owner[h.id] = p /\ owner'[h.id] = p /\ h.id # Asked
              /\ \A g \in ToSet(holding[p]) : g.id = h.id => g = h
    BY <1>3, <1>4 DEF RequestInv, Owned
  <2>3. CASE p # current
    BY <1>1, <2>2, <2>3
  <2>4. CASE p = current
    BY <1>1, <1>3, <2>2, <2>4
  <2> QED
    BY <2>3, <2>4
<1>11. OwnersHold'
  BY <1>1, <1>3 DEF RequestInv, OwnersHold
<1> QED
  BY <1>8, <1>9, <1>10, <1>11 DEF RequestInv

(* As a process gets older, what it holds counts down.                     *)
Now(p, h, q) == h.id = q.id /\ h.at = q.at /\ age'[p] + h.duration = q.at + q.duration

LEMMA WorkCountsDown ==
    ASSUME BasicInv, Work, NEW i \in DOMAIN holding[current]
    PROVE  /\ holding[current][i] \in ToSet(holding[current])
           /\ holding'[current][i] \in ToSet(holding'[current])
           /\ holding'[current][i].id = holding[current][i].id
           /\ holding'[current][i].at = holding[current][i].at
           /\ \A q \in Asks(current) :
                 Now(current, holding'[current][i], q) <=> Matches(current, holding[current][i], q)
<1>1. pc = "run" 
  BY DEF Work
<1>2. \A h \in ToSet(holding[current]) : h.duration > 0
  BY <1>1 DEF BasicInv, Runs, Counting
<1>3. /\ current \in Pids
      /\ age'[current] = age[current] + 1
      /\ DOMAIN holding'[current] = DOMAIN holding[current]
      /\ holding'[current][i].id = holding[current][i].id
      /\ holding'[current][i].at = holding[current][i].at
      /\ holding'[current][i].duration = holding[current][i].duration - 1
  BY <1>2, WorkEffects DEF BasicInv
<1>4. /\ age[current] \in Nat
      /\ \A h \in ToSet(holding[current]) : h.at \in Nat /\ h.duration \in Nat
      /\ \A q \in Asks(current) : q.at \in Nat /\ q.duration \in Nat
  BY <1>3, HeldFacts DEF BasicInv
<1> DEFINE h == holding[current][i]
           g == holding'[current][i]
<1>5. /\ h \in ToSet(holding[current]) /\ g \in ToSet(holding'[current])
      /\ g.id = h.id /\ g.at = h.at /\ g.duration = h.duration - 1
  BY <1>3 DEF ToSet
<1> HIDE DEF g, h
<1>6. ASSUME NEW q \in Asks(current)
      PROVE  age'[current] + g.duration = q.at + q.duration
             <=> age[current] + h.duration = q.at + q.duration
  BY <1>3, <1>4, <1>5
<1>7. \A q \in Asks(current) : Now(current, g, q) <=> Matches(current, h, q)
  BY <1>5, <1>6 DEF Now, Matches
<1> QED
  BY <1>5, <1>7 DEF g, h

LEMMA WorkRequests ==
    ASSUME BasicInv, RequestInv, Work
    PROVE  RequestInv'
<1>1. pc = "run" /\ UNCHANGED <<script, owner, toAcquire>>
  BY DEF Work
<1>2. \A h \in ToSet(holding[current]) : h.duration > 0
  BY <1>1 DEF BasicInv, Runs, Counting
<1>3. /\ current \in Pids
      /\ age'[current] = age[current] + 1
      /\ \A o \in Pids \ {current} : age'[o] = age[o] /\ holding'[o] = holding[o]
      /\ DOMAIN holding'[current] = DOMAIN holding[current]
      /\ \A i \in DOMAIN holding[current] :
            /\ holding'[current][i].id = holding[current][i].id
            /\ holding'[current][i].at = holding[current][i].at
            /\ holding'[current][i].duration = holding[current][i].duration - 1
  BY <1>2, WorkEffects DEF BasicInv
<1>4. /\ age[current] \in Nat
      /\ \A h \in ToSet(holding[current]) : h.at \in Nat /\ h.duration \in Nat
      /\ \A q \in Asks(current) : q.at \in Nat /\ q.duration \in Nat
  BY <1>3, HeldFacts DEF BasicInv
<1>5. \A p : Asks(p)' = Asks(p)
  BY <1>1 DEF Asks
<1>6. \A p \in Pids \ {current} : \A h, q : Now(p, h, q) <=> Matches(p, h, q)
  BY <1>3 DEF Now, Matches
<1>7. ASSUME NEW i \in DOMAIN holding[current]
      PROVE  /\ holding[current][i] \in ToSet(holding[current])
             /\ holding'[current][i] \in ToSet(holding'[current])
             /\ holding'[current][i].id = holding[current][i].id
             /\ holding'[current][i].at = holding[current][i].at
             /\ \A q \in Asks(current) :
                   Now(current, holding'[current][i], q) <=> Matches(current, holding[current][i], q)
  BY <1>7, WorkCountsDown
<1>8. /\ \A g \in ToSet(holding'[current]) :
            \E i \in DOMAIN holding[current] : g = holding'[current][i]
      /\ \A h \in ToSet(holding[current]) :
            \E i \in DOMAIN holding[current] : h = holding[current][i]
  BY <1>3 DEF ToSet
<1>9. Granted'
  <2>1. SUFFICES ASSUME NEW p \in Pids, NEW g \in ToSet(holding'[p])
                 PROVE  /\ g.at <= age'[p]
                        /\ \E q \in Asks(p) \ ToSet(toAcquire[p]) : Now(p, g, q)
    BY <1>1, <1>5 DEF Granted, Now, Matches
  <2>2. CASE p # current
    BY <1>3, <1>6, <2>2 DEF RequestInv, Granted
  <2>3. CASE p = current
    <3>1. PICK i \in DOMAIN holding[current] : g = holding'[current][i]
      BY <1>8, <2>3
    <3>2. /\ holding[current][i] \in ToSet(holding[current])
          /\ g.at = holding[current][i].at
          /\ \A q \in Asks(current) : Now(current, g, q) <=> Matches(current, holding[current][i], q)
      BY <1>7, <3>1
    <3>3. /\ holding[current][i].at <= age[current] /\ holding[current][i].at \in Nat
          /\ \E q \in Asks(current) \ ToSet(toAcquire[current]) :
                Matches(current, holding[current][i], q)
      BY <1>3, <1>4, <3>2 DEF RequestInv, Granted
    <3> QED
      BY <1>3, <1>4, <2>3, <3>2, <3>3
  <2> QED
    BY <2>2, <2>3
<1>10. Served'
  <2>1. SUFFICES ASSUME NEW p \in Pids, NEW q \in Asks(p)
                 PROVE  \/ q \in ToSet(toAcquire[p])
                        \/ \E g \in ToSet(holding'[p]) : Now(p, g, q)
                        \/ q.at + q.duration <= age'[p]
    BY <1>1, <1>5 DEF Served, Now, Matches
  <2>2. \/ q \in ToSet(toAcquire[p])
        \/ \E h \in ToSet(holding[p]) : Matches(p, h, q)
        \/ q.at + q.duration <= age[p]
    BY DEF RequestInv, Served
  <2>3. CASE p # current
    BY <1>3, <1>6, <2>2, <2>3
  <2>4. CASE p = current /\ \E h \in ToSet(holding[p]) : Matches(p, h, q)
    <3>1. PICK i \in DOMAIN holding[current] : Matches(current, holding[current][i], q)
      BY <1>8, <2>4
    <3> QED
      BY <1>7, <2>4, <3>1
  <2>5. CASE p = current /\ q.at + q.duration <= age[p]
    BY <1>3, <1>4, <2>5
  <2> QED
    BY <2>2, <2>3, <2>4, <2>5
<1>11. Owned'
  <2>1. SUFFICES ASSUME NEW p \in Pids
                 PROVE  /\ IsInjective(holding'[p])
                        /\ \A g \in ToSet(holding'[p]) :
                              /\ owner[g.id] = p
                              /\ \A f \in ToSet(holding'[p]) : f.id = g.id => f = g
    BY <1>1 DEF Owned
  <2>2. /\ IsInjective(holding[p])
        /\ \A h \in ToSet(holding[p]) :
              /\ owner[h.id] = p
              /\ \A f \in ToSet(holding[p]) : f.id = h.id => f = h
    BY DEF RequestInv, Owned
  <2>3. CASE p # current
    BY <1>3, <2>2, <2>3
  <2>4. CASE p = current
    <3>1. ASSUME NEW i \in DOMAIN holding[current], NEW j \in DOMAIN holding[current],
                 holding'[current][i].id = holding'[current][j].id
          PROVE  i = j
      <4>1. holding[current][i].id = holding[current][j].id
        BY <1>7, <3>1
      <4>2. holding[current][i] = holding[current][j]
        BY <1>7, <2>2, <2>4, <4>1
      <4> QED
        BY <2>2, <2>4, <4>2 DEF IsInjective
    <3>2. IsInjective(holding'[p])
      <4>1. DOMAIN holding'[current] = DOMAIN holding[current]
        BY <1>3
      <4> QED
        BY <2>4, <3>1, <4>1 DEF IsInjective
    <3>3. \A g \in ToSet(holding'[p]) : owner[g.id] = p
      BY <1>7, <1>8, <2>2, <2>4
    <3>4. \A g, f \in ToSet(holding'[p]) : f.id = g.id => f = g
      BY <1>8, <2>4, <3>1
    <3> QED
      BY <3>2, <3>3, <3>4
  <2> QED
    BY <2>3, <2>4
<1>12. OwnersHold'
  <2>1. SUFFICES ASSUME NEW r \in Resources, NEW p \in Pids, owner[r] = p
                 PROVE  \E g \in ToSet(holding'[p]) : g.id = r
    BY <1>1 DEF OwnersHold
  <2>2. PICK h \in ToSet(holding[p]) : h.id = r
    BY <2>1 DEF RequestInv, OwnersHold
  <2>3. CASE p # current
    BY <1>3, <2>2, <2>3
  <2>4. CASE p = current
    BY <1>7, <1>8, <2>2, <2>4
  <2> QED
    BY <2>3, <2>4
<1> QED
  BY <1>9, <1>10, <1>11, <1>12 DEF RequestInv

LEMMA ReleaseRequests ==
    ASSUME BasicInv, RequestInv, AnyRelease
    PROVE  RequestInv' /\ owner[Released] = current
<1>1. PICK e \in ToSet(holding[current]) :
         /\ current \in Pids /\ e.id = Released /\ e.duration = 0 /\ Released \in Resources
         /\ \A o \in Pids \ {current} : holding'[o] = holding[o]
         /\ IsInjective(holding[current]) =>
               /\ IsInjective(holding'[current])
               /\ ToSet(holding'[current]) = ToSet(holding[current]) \ {e}
         /\ owner'[Released] = NoProcess
         /\ \A r \in Resources \ {Released} : owner'[r] = owner[r]
  BY ReleaseEffects DEF BasicInv
<1>2. UNCHANGED <<script, age, toAcquire>>
  BY DEF AnyRelease
<1>3. /\ IsInjective(holding[current]) /\ owner[Released] = current
      /\ \A h \in ToSet(holding[current]) : h.id = e.id => h = e
  BY <1>1 DEF RequestInv, Owned
<1>4. /\ IsInjective(holding'[current])
      /\ ToSet(holding'[current]) = ToSet(holding[current]) \ {e}
  BY <1>1, <1>3
<1>5. (\A p : Asks(p)' = Asks(p)) /\ \A p, h, s : Matches(p, h, s)' <=> Matches(p, h, s)
  BY <1>2 DEF Asks, Matches
<1>6. \A p \in Pids : \A h \in ToSet(holding'[p]) :
         /\ h \in ToSet(holding[p]) /\ h.id \in Resources /\ h.id # e.id
  <2>1. SUFFICES ASSUME NEW p \in Pids, NEW h \in ToSet(holding'[p])
                 PROVE  h \in ToSet(holding[p]) /\ h.id \in Resources /\ h.id # e.id
    OBVIOUS
  <2>2. h \in ToSet(holding[p])
    BY <1>1, <1>4
  <2>3. h.id \in Resources
    BY <2>2, HeldFacts DEF BasicInv
  <2>4. h.id # e.id
    BY <1>1, <1>3, <1>4, <2>2 DEF RequestInv, Owned
  <2> QED
    BY <2>2, <2>3, <2>4
<1>7. Granted'
  BY <1>2, <1>5, <1>6 DEF RequestInv, Granted
<1>8. Served'
  <2>1. SUFFICES ASSUME NEW p \in Pids, NEW q \in Asks(p)
                 PROVE  \/ q \in ToSet(toAcquire[p])
                        \/ \E h \in ToSet(holding'[p]) : Matches(p, h, q)
                        \/ q.at + q.duration <= age[p]
    BY <1>2, <1>5 DEF Served
  <2>2. \/ q \in ToSet(toAcquire[p])
        \/ \E h \in ToSet(holding[p]) : Matches(p, h, q)
        \/ q.at + q.duration <= age[p]
    BY DEF RequestInv, Served
  <2>3. Matches(current, e, q) /\ p = current => q.at + q.duration <= age[p]
    BY <1>1, HeldFacts DEF Matches, BasicInv
  <2> QED
    BY <1>1, <1>4, <2>2, <2>3
<1>9. Owned'
  <2>1. \A p \in Pids : IsInjective(holding'[p])
    BY <1>1, <1>4 DEF RequestInv, Owned
  <2>2. \A p \in Pids : \A h \in ToSet(holding'[p]) :
           /\ owner'[h.id] = p
           /\ \A g \in ToSet(holding'[p]) : g.id = h.id => g = h
    BY <1>1, <1>6 DEF RequestInv, Owned
  <2> QED
    BY <2>1, <2>2 DEF Owned
<1>10. OwnersHold'
  <2>1. SUFFICES ASSUME NEW r \in Resources, NEW p \in Pids, owner'[r] = p
                 PROVE  \E h \in ToSet(holding'[p]) : h.id = r
    BY DEF OwnersHold
  <2>2. r # e.id /\ owner[r] = p
    BY <1>1, <2>1 DEF NoProcess, Pids
  <2>3. PICK h \in ToSet(holding[p]) : h.id = r
    BY <2>2 DEF RequestInv, OwnersHold
  <2> QED
    BY <1>1, <1>4, <2>2, <2>3
<1> QED
  BY <1>3, <1>7, <1>8, <1>9, <1>10 DEF RequestInv

LEMMA ReleaseGoes ==
    ASSUME BasicInv, PlaceInv, RequestInv, AnyRelease
    PROVE  pc' = "release"
<1>1. pc = "release" /\ Disowns /\ Released \in Resources
  BY ReleaseEffects DEF AnyRelease, BasicInv
<1>2. owner[Released] = current
  BY ReleaseRequests
<1>3. \A w \in W(Released) : status[w] = "wait"
  <2>1. WaitersWait /\ W(Released) \subseteq Pids
    BY <1>1, ListsHoldPids DEF PlaceInv, BasicInv
  <2> QED
    BY <1>1, <2>1 DEF WaitersWait
<1>4. Asleep
  BY <1>3 DEF Asleep, W
<1> QED
  BY <1>1, <1>2, <1>4 DEF Disowns

LEMMA RequestStep ==
    ASSUME BasicInv, RequestInv, [DraftNext]_draftVars
    PROVE  RequestInv'
<1>1. TypeOK /\ Runs
  BY DEF BasicInv
<1>2. AnyNext \/ UNCHANGED draftVars
  BY <1>1, StepsAreAny
<1>3. CASE Fork \/ ScheduleStep \/ Switch \/ AnyRefusal \/ NextTick \/ UNCHANGED draftVars
  BY <1>3, QuietRequests
      DEF Fork, ScheduleStep, Switch, AnyRefusal, NextTick, draftVars, schedVars
<1> QED
  BY <1>2, <1>3, GrantRequests, WorkRequests, ReleaseRequests, Zenon DEF AnyNext

LEMMA RequestAlways == DraftSpec => []RequestInv
<1>1. DraftInit => RequestInv
  BY RequestInit
<1>2. BasicInv /\ RequestInv /\ [DraftNext]_draftVars => RequestInv'
  BY RequestStep
<1> QED
  BY <1>1, <1>2, BasicAlways, PTL DEF DraftSpec

-----------------------------------------------------------------------------
(* Who is forked has started, nobody gets older than its lifespan, and who *)
(* is in a list is there to run: it has time, or it has not run yet. The   *)
(* prio of "Prio Scheduler.c" also keeps processes without time.           *)

MayRun(p) == Unfinished(p) \/ age[p] = 0 \/ (policy = "prio_prio" /\ Lifeless(p))
Started == \A p \in Pids : p \in F \/ script[p].start <= ticks
Aging == \A p \in Pids : Lifeless(p) \/ age[p] <= script[p].lifespan
Lively ==
    pc \notin Faults =>
        \A p \in Pids :
            /\ Linked(p) => MayRun(p) \/ (pc = "switch" /\ p = prev /\ Finished)
            /\ p = current /\ pc \in {"switch", "run"} => MayRun(p)
LifeInv == Started /\ Aging /\ Lively

LEMMA LifeInit ==
    ASSUME DraftInit
    PROVE  LifeInv
<1>1. PICK c \in Cases : Load(c)
  BY DEF DraftInit
<1>2. /\ pc = "fork" /\ forkqueue = [p \in Pids |-> p] /\ age = [p \in Pids |-> 0] /\ script = c.script
  BY <1>1 DEF Load
<1>3. F = Pids
  BY <1>2 DEF F, ToSet
<1>4. \A p \in Pids : script[p].lifespan \in Nat
  BY <1>2, CasesAssumption
<1> QED
  BY <1>2, <1>3, <1>4 DEF LifeInv, Started, Aging, Lively, MayRun

LEMMA ForkLives ==
    ASSUME TypeOK, LifeInv, Fork
    PROVE  LifeInv'
<1>1. /\ pc = "fork" /\ pc' \in {"fork", "schedule"}
      /\ UNCHANGED <<policy, script, ticks, current, prev, waitqueue, age>>
  BY ForkCases DEF ForkRound
<1>2. \E p : /\ F' \cup R' = F \cup R
             /\ F \subseteq F' \cup {p}
             /\ p \in Pids => p \in F' \/ script[p].start <= ticks \/ p \notin F
  <2>1. CASE ForkRound
    <3>1. PICK p \in ToSet(forkqueue) :
             /\ script[p].start <= ticks
             /\ ToSet(readyqueue') = ToSet(readyqueue) \cup {p}
             /\ ToSet(forkqueue') \subseteq ToSet(forkqueue)
             /\ ToSet(forkqueue) \subseteq ToSet(forkqueue') \cup {p}
      BY <2>1, ForkEffects
    <3> QED
      BY <3>1 DEF F, R
  <2>2. CASE UNCHANGED <<forkqueue, readyqueue>>
    BY <2>2 DEF F, R
  <2> QED
    BY <2>1, <2>2, ForkCases
<1>3. \A r : W(r)' = W(r)
  BY <1>1 DEF W
<1>4. \A p : Linked(p)' <=> Linked(p)
  <2>1. \A p : Linked(p)' <=> p \in F' \/ p \in R' \/ \E r \in Resources : p \in W(r)'
    BY DEF Linked, F, R, W
  <2> QED
    BY <1>2, <1>3, <2>1, LinkedMeans
<1>5. Started'
  BY <1>1, <1>2 DEF LifeInv, Started
<1>6. Aging' /\ Lively'
  BY <1>1, <1>4 DEF LifeInv, Aging, Lively, MayRun, Lifeless, Unfinished, Faults
<1> QED
  BY <1>5, <1>6 DEF LifeInv

LEMMA ScheduleLives ==
    ASSUME TypeOK, LifeInv, ScheduleStep, Choice
    PROVE  LifeInv'
<1>1. /\ pc = "schedule" /\ prev' = current
      /\ UNCHANGED <<policy, script, ticks, forkqueue, waitqueue, status, age>>
  BY DEF ScheduleStep
<1>2. Started' /\ Aging'
  BY <1>1 DEF LifeInv, Started, Aging, F, Lifeless
<1>3. \A p \in Pids : MayRun(p)' <=> MayRun(p)
  BY <1>1 DEF MayRun, Unfinished, Lifeless
<1>4. ASSUME pc' \notin Faults
      PROVE  /\ \A p \in Pids : p \in R' => MayRun(p) \/ (p = current /\ Finished')
             /\ current' \in Pids => MayRun(current')
  <2>1. Keeps \/ Picks \/ Idles \/ GoesBack
    BY <1>4, ScheduleEffects DEF Ends, Faults
  <2>2. \A p \in Pids : p \in R => MayRun(p)
    BY <1>1, LinkedMeans DEF LifeInv, Lively, Faults
  <2>3. CASE Keeps
    BY <2>2, <2>3 DEF Keeps, R, HasTime, MayRun
  <2>4. CASE Picks
    BY <2>2, <2>4 DEF Picks, R
  <2>5. CASE Idles
    BY <2>5 DEF Idles, R, ToSet, NoProcess, Pids
  <2>6. CASE GoesBack
    <3>1. /\ current \in Pids /\ R' \subseteq R \cup {current}
          /\ \/ HasTime /\ current' \in R \cup {current}
             \/ current' \in R /\ policy = "prio_srtf" /\ script[current].lifespan > 0
             \/ current' \in R /\ policy = "prio_prio"
      <4>1. /\ current \in Pids /\ R' \subseteq R \cup {current} /\ current' \in Pids
            /\ current' \in R \cup {current} /\ Yields(current')
        BY <2>6 DEF GoesBack, R
      <4>2. script[current'].lifespan \in Nat /\ script[current].lifespan \in Nat
        BY <4>1, ScriptFacts
      <4> QED
        BY <4>1, <4>2 DEF Yields, R
    <3>2. script[current].lifespan \in Nat /\ age[current] \in Nat
      BY <3>1, ScriptFacts, HeldFacts
    <3>3. MayRun(current) \/ Finished'
      <4>1. CASE HasTime
        BY <4>1 DEF HasTime, MayRun
      <4>2. CASE policy = "prio_prio" /\ Lifeless(current)
        BY <4>2 DEF MayRun
      <4>3. CASE ~HasTime /\ ~Lifeless(current)
        <5>1. current # NoProcess
          BY <3>1 DEF NoProcess, Pids
        <5>2. age[current] = script[current].lifespan
          BY <3>1, <3>2, <4>3, <5>1 DEF LifeInv, Aging, HasTime, Unfinished
        <5> QED
          BY <1>1, <5>1, <5>2 DEF Finished
      <4> QED
        BY <3>1, <4>1, <4>2, <4>3 DEF Lifeless
    <3>4. HasTime => MayRun(current)
      BY DEF HasTime, MayRun
    <3> QED
      BY <2>2, <3>1, <3>3, <3>4
  <2> QED
    BY <2>1, <2>3, <2>4, <2>5, <2>6
<1>5. Lively'
  <2>1. \A p \in Pids : p \in F \/ (\E r \in Resources : p \in W(r)) => MayRun(p)
    BY <1>1, LinkedMeans DEF LifeInv, Lively, Faults
  <2>2. F' = F /\ \A r : W(r)' = W(r)
    BY <1>1 DEF F, W
  <2>3. \A p : Linked(p)' <=> p \in F' \/ p \in R' \/ \E r \in Resources : p \in W(r)'
    BY DEF Linked, F, R, W
  <2>4. pc' \notin Faults => pc' = "switch"
    BY ScheduleEffects DEF Ends, Faults
  <2> QED
    BY <1>1, <1>3, <1>4, <2>1, <2>2, <2>3, <2>4 DEF Lively
<1> QED
  BY <1>2, <1>5 DEF LifeInv

LEMMA SwitchLives ==
    ASSUME TypeOK, LifeInv, Switch
    PROVE  LifeInv'
<1>1. /\ pc = "switch"
      /\ UNCHANGED <<policy, script, current, forkqueue, readyqueue, waitqueue, age>>
  BY SwitchCases
<1>2. /\ ticks' = ticks \/ ticks' = ticks + 1
      /\ pc' \notin Faults /\ Finished => ~Linked(prev)
  BY SwitchCases DEF EndTick, ExitAsserts, Faults
<1>3. \A p : Linked(p)' <=> Linked(p)
  BY <1>1 DEF Linked
<1>4. \A p \in Pids : MayRun(p)' <=> MayRun(p)
  BY <1>1 DEF MayRun, Unfinished, Lifeless
<1>5. Started'
  <2>1. \A p \in Pids : script[p].start \in Nat
    BY ScriptFacts
  <2>2. ticks \in Nat
    BY DEF TypeOK
  <2> QED
    BY <1>1, <1>2, <2>1, <2>2 DEF LifeInv, Started, F
<1>6. Aging'
  BY <1>1 DEF LifeInv, Aging, Lifeless
<1>7. Lively'
  BY <1>1, <1>2, <1>3, <1>4 DEF LifeInv, Lively, Faults
<1> QED
  BY <1>5, <1>6, <1>7 DEF LifeInv

LEMMA RefusalLives ==
    ASSUME TypeOK, Runs, LifeInv, AnyRefusal
    PROVE  LifeInv'
<1>1. /\ pc = "run" /\ pc' = "fork" /\ ticks' = ticks + 1
      /\ UNCHANGED <<policy, script, current, prev, forkqueue, readyqueue, age>>
  BY DEF AnyRefusal, EndTick
<1>2. \A p : Linked(p)' => Linked(p) \/ p = current
  <2>1. \A r \in Resources : W(r)' \subseteq W(r) \cup {current}
    BY RefusalEffects DEF W
  <2>2. F' = F /\ R' = R
    BY <1>1 DEF F, R
  <2>3. \A p : Linked(p)' <=> p \in F' \/ p \in R' \/ \E r \in Resources : p \in W(r)'
    BY DEF Linked, F, R, W
  <2> QED
    BY <2>1, <2>2, <2>3, LinkedMeans
<1>3. \A p \in Pids : MayRun(p)' <=> MayRun(p)
  BY <1>1 DEF MayRun, Unfinished, Lifeless
<1>4. Started'
  <2>1. \A p \in Pids : script[p].start \in Nat
    BY ScriptFacts
  <2>2. ticks \in Nat
    BY DEF TypeOK
  <2> QED
    BY <1>1, <2>1, <2>2 DEF LifeInv, Started, F
<1>5. Aging'
  BY <1>1 DEF LifeInv, Aging, Lifeless
<1>6. Lively'
  BY <1>1, <1>2, <1>3 DEF LifeInv, Lively, Faults
<1> QED
  BY <1>4, <1>5, <1>6 DEF LifeInv

LEMMA WorkLives ==
    ASSUME BasicInv, PlaceInv, LifeInv, Work
    PROVE  LifeInv'
<1>1. /\ pc = "run" /\ pc' = "release"
      /\ UNCHANGED <<policy, script, ticks, current, prev, forkqueue, readyqueue, waitqueue>>
  BY DEF Work
<1>2. /\ current \in Pids
      /\ age'[current] = age[current] + 1
      /\ \A o \in Pids \ {current} : age'[o] = age[o]
  BY <1>1, WorkEffects DEF BasicInv, Runs, Counting
<1>3. MayRun(current) /\ ~Linked(current)
  BY <1>1, <1>2, LinkedMeans DEF LifeInv, Lively, Faults, PlaceInv, CurrentApart
<1>4. script[current].lifespan \in Nat /\ age[current] \in Nat
  BY <1>2, ScriptFacts, HeldFacts DEF BasicInv
<1>5. Lifeless(current) \/ age[current] + 1 <= script[current].lifespan
  BY <1>3, <1>4 DEF MayRun, Unfinished, Lifeless
<1>6. Started'
  BY <1>1 DEF LifeInv, Started, F
<1>7. Aging'
  BY <1>1, <1>2, <1>5 DEF LifeInv, Aging, Lifeless
<1>8. \A p : Linked(p)' <=> Linked(p)
  BY <1>1 DEF Linked
<1>9. \A p \in Pids \ {current} : MayRun(p)' <=> MayRun(p)
  BY <1>1, <1>2 DEF MayRun, Unfinished, Lifeless
<1>10. Lively'
  BY <1>1, <1>3, <1>8, <1>9 DEF LifeInv, Lively, Faults
<1> QED
  BY <1>6, <1>7, <1>10 DEF LifeInv

LEMMA ReleaseLives ==
    ASSUME TypeOK, Runs, LifeInv, AnyRelease
    PROVE  LifeInv'
<1>1. /\ pc = "release" /\ pc' \in {"release", "assert"}
      /\ UNCHANGED <<policy, script, ticks, current, prev, forkqueue, age>>
  BY DEF AnyRelease, Disowns
<1>2. PICK o \in Resources : o = Released
  BY ReleaseEffects
<1>3. \A p : Linked(p)' => Linked(p)
  <2>1. \A p : Linked(p)' <=> p \in F' \/ p \in R' \/ \E r \in Resources : p \in W(r)'
    BY DEF Linked, F, R, W
  <2>2. F' = F
    BY <1>1 DEF F
  <2>3. CASE UNCHANGED <<waitqueue, status, readyqueue>>
    BY <2>3, <1>1 DEF Linked
  <2>4. CASE \E w : WakesProcess(w)
    <3>1. PICK w : WakesProcess(w)
      BY <2>4
    <3>2. /\ w \in W(o) /\ R' = R \cup {w} /\ \A r \in Resources : W(r)' \subseteq W(r)
      BY <1>2, <3>1 DEF WakesProcess, W, R
    <3> QED
      BY <1>2, <2>1, <2>2, <3>2, LinkedMeans
  <2> QED
    BY <2>3, <2>4, WakeEffects
<1>4. \A p \in Pids : MayRun(p)' <=> MayRun(p)
  BY <1>1 DEF MayRun, Unfinished, Lifeless
<1>5. Started' /\ Aging'
  BY <1>1 DEF LifeInv, Started, Aging, F, Lifeless
<1>6. Lively'
  BY <1>1, <1>3, <1>4 DEF LifeInv, Lively, Faults
<1> QED
  BY <1>5, <1>6 DEF LifeInv

LEMMA OtherLives ==
    ASSUME TypeOK, LifeInv, AnyGrant \/ NextTick \/ UNCHANGED draftVars
    PROVE  LifeInv'
<1>1. /\ UNCHANGED <<policy, script, current, prev, forkqueue, readyqueue, waitqueue, age>>
      /\ ticks' = ticks \/ ticks' = ticks + 1
      /\ pc' = pc \/ pc' = "fork"
      /\ pc' = "fork" => pc \in {"fork", "release"}
  BY DEF AnyGrant, NextTick, EndTick, draftVars, schedVars
<1>2. Started'
  <2>1. (\A p \in Pids : script[p].start \in Nat) /\ ticks \in Nat
    BY ScriptFacts DEF TypeOK
  <2> QED
    BY <1>1, <2>1 DEF LifeInv, Started, F
<1>3. (\A p : Linked(p)' <=> Linked(p)) /\ (Finished' <=> Finished)
  BY <1>1 DEF Linked, Finished
<1>4. \A p \in Pids : MayRun(p)' <=> MayRun(p)
  BY <1>1 DEF MayRun, Unfinished, Lifeless
<1>5. Aging'
  BY <1>1 DEF LifeInv, Aging, Lifeless
<1>6. Lively'
  BY <1>1, <1>3, <1>4 DEF LifeInv, Lively, Faults
<1> QED
  BY <1>2, <1>5, <1>6 DEF LifeInv

LEMMA LifeStep ==
    ASSUME BasicInv, PlaceInv, LifeInv, [DraftNext]_draftVars
    PROVE  LifeInv'
<1>1. TypeOK /\ Runs
  BY DEF BasicInv
<1>2. AnyNext \/ UNCHANGED draftVars
  BY <1>1, StepsAreAny
<1> QED
  BY <1>1, <1>2, ForkLives, ScheduleLives, SwitchLives, RefusalLives, WorkLives, ReleaseLives,
     OtherLives, Zenon DEF AnyNext

LEMMA LifeAlways == DraftSpec => []LifeInv
<1>1. DraftInit => LifeInv
  BY LifeInit
<1>2. BasicInv /\ PlaceInv /\ LifeInv /\ [DraftNext]_draftVars => LifeInv'
  BY LifeStep
<1> QED
  BY <1>1, <1>2, BasicAlways, PlaceAlways, PTL DEF DraftSpec

-----------------------------------------------------------------------------
(* The simulator implements Timeshare.                                     *)

(* No process without time is kept by the prio of "Prio Scheduler.c".      *)
NoneOutlives == policy = "prio_prio" => \A p \in Pids : ~Lifeless(p)

SimInv == BasicInv /\ PlaceInv /\ RequestInv /\ LifeInv

LEMMA HeldMeans ==
    ASSUME NEW p
    PROVE  /\ Time!Asks(p) = Asks(p)
           /\ Held(p) = {q \in Asks(p) : \E h \in ToSet(holding[p]) : Matches(p, h, q)}
BY DEF Time!Asks, Asks, ToSet, Held, Matches

LEMMA InitTimeshares ==
    ASSUME DraftInit
    PROVE  Time!Init
<1>1. PICK c \in Cases : Load(c)
  BY DEF DraftInit
<1>2. /\ script = c.script /\ ticks = 0 /\ pc = "fork" /\ age = [p \in Pids |-> 0]
      /\ holding = [p \in Pids |-> <<>>]
  BY <1>1 DEF Load
<1>3. [p \in Pids |-> Held(p)] = [p \in Pids |-> {}]
  <2>1. \A p \in Pids : Held(p) = {}
    BY <1>2 DEF Held, ToSet
  <2> QED
    BY <2>1
<1> QED
  BY <1>2, <1>3 DEF Time!Init

(* A step that leaves the processes and the clock as they are.             *)
LEMMA QuietTimeshares ==
    ASSUME UNCHANGED <<script, ticks, age, holding>>, pc # "release", pc' # "release"
    PROVE  UNCHANGED Time!timeVars
<1>1. (pc = "release")' = (pc = "release")
  BY Zenon
<1>2. \A p : Held(p)' = Held(p)
  BY DEF Held, Asks
<1>3. [p \in Pids |-> Held(p)]' = [p \in Pids |-> Held(p)]
  BY <1>2
<1> QED
  BY <1>1, <1>3 DEF Time!timeVars

(* A tick ends when nothing is held for too long.                          *)
LEMMA TickTimeshares ==
    ASSUME BasicInv, EndTick, UNCHANGED <<script, age, holding>>,
           pc = "release" => Over(current) = {}, pc # "assert"
    PROVE  Time!Tick
<1>1. ASSUME NEW p \in Pids, NEW h \in ToSet(holding[p])
      PROVE  h.duration > 0
  <2>1. h.duration > 0 \/ (p = current /\ pc = "release")
    BY <1>1 DEF BasicInv, Counting
  <2>2. h.duration \in Nat
    BY <1>1, HeldFacts DEF BasicInv
  <2>3. Over(current) = {} /\ p = current => h.duration # 0
    BY <1>1 DEF Over, ToSet
  <2> QED
    BY <2>1, <2>2, <2>3
<1>2. ASSUME NEW p \in Pids, NEW q \in Held(p)
      PROVE  age[p] < Time!Until(q)
  <2>1. q \in Asks(p) /\ \E h \in ToSet(holding[p]) : Matches(p, h, q)
    BY HeldMeans
  <2>2. PICK h \in ToSet(holding[p]) : Matches(p, h, q)
    BY <2>1
  <2>3. /\ h.duration \in Nat /\ h.duration > 0 /\ age[p] \in Nat
        /\ q.at \in Nat /\ q.duration \in Nat
    BY <1>1, <2>1, HeldFacts DEF BasicInv
  <2> QED
    BY <2>2, <2>3 DEF Matches, Time!Until
<1>3. /\ ticks' = ticks + 1 /\ (pc = "release")' = FALSE
  BY DEF EndTick
<1>4. [p \in Pids |-> Held(p)]' = [p \in Pids |-> Held(p)]
  <2>1. \A p : Held(p)' = Held(p)
    BY DEF Held, Asks
  <2> QED
    BY <2>1
<1>5. \A p \in Pids : \A q \in [o \in Pids |-> Held(o)][p] : age[p] < Time!Until(q)
  BY <1>2
<1> QED
  BY <1>3, <1>4, <1>5 DEF Time!Tick

(* The process that runs is there, and somebody without time is not.       *)
LEMMA RunnerIsPresent ==
    ASSUME SimInv, NoneOutlives, pc = "run"
    PROVE  current \in Pids /\ Time!Present(current)
<1>1. current \in Pids
  BY DEF SimInv, BasicInv, Runs
<1>2. current \notin F
  BY DEF SimInv, PlaceInv, CurrentApart
<1>3. script[current].start <= ticks
  BY <1>1, <1>2 DEF SimInv, LifeInv, Started
<1>4. MayRun(current)
  BY <1>1 DEF SimInv, LifeInv, Lively, Faults
<1>5. age[current] < script[current].lifespan \/ age[current] = 0
  BY <1>1, <1>4 DEF MayRun, Unfinished, NoneOutlives
<1> QED
  BY <1>1, <1>3, <1>5 DEF Time!Present

LEMMA GrantTimeshares ==
    ASSUME SimInv, NoneOutlives, AnyGrant
    PROVE  \E p \in Pids : \E q \in Time!Asks(p) : Time!Take(p, q)
<1> DEFINE q == NextRequest(current)
<1>1. /\ owner[Asked] = NoProcess
      /\ q \in ToSet(toAcquire[current]) /\ q \in Request /\ q.at = age[current] /\ q.id = Asked
      /\ \A o \in Pids \ {current} : holding'[o] = holding[o]
      /\ ToSet(holding'[current]) = ToSet(holding[current]) \cup {q}
  BY GrantEffects DEF SimInv, BasicInv
<1> HIDE DEF q
<1>2. /\ pc = "run" /\ pc' = "run" /\ UNCHANGED <<script, ticks, age, current>>
  BY DEF AnyGrant
<1>3. current \in Pids /\ Time!Present(current)
  BY <1>2, RunnerIsPresent
<1>4. q \in Asks(current)
  BY <1>1, <1>3 DEF SimInv, BasicInv, ToDo
<1>5. \A o \in Pids : \A h \in Held(o) : h.id # q.id
  <2>1. SUFFICES ASSUME NEW o \in Pids, NEW s \in Asks(o), NEW h \in ToSet(holding[o]),
                        Matches(o, h, s)
                 PROVE  s.id # q.id
    BY HeldMeans
  <2>2. h.id = s.id /\ owner[h.id] = o /\ o # NoProcess
    BY <2>1 DEF Matches, SimInv, RequestInv, Owned, NoProcess, Pids
  <2> QED
    BY <1>1, <2>2
<1>6. \A p, h, s : Matches(p, h, s)' <=> Matches(p, h, s)
  BY <1>2 DEF Matches
<1>7. \A p : Asks(p)' = Asks(p)
  BY <1>2 DEF Asks
<1>8. \A p \in Pids : Held(p)' = {s \in Asks(p) : \E h \in ToSet(holding'[p]) : Matches(p, h, s)}
  BY <1>2, <1>7 DEF Held, Matches
<1>9. \A s \in Asks(current) : Matches(current, q, s) <=> s = q
  <2>1. SUFFICES ASSUME NEW s \in Asks(current)
                 PROVE  Matches(current, q, s) <=> s = q
    OBVIOUS
  <2>2. s \in Request /\ q \in Request /\ age[current] \in Nat
    BY <1>1, <1>3, ScriptFacts, HeldFacts DEF SimInv, BasicInv
  <2>3. Matches(current, q, s) <=> s.id = q.id /\ s.at = q.at /\ s.duration = q.duration
    BY <1>1, <2>2 DEF Matches, Request
  <2>4. s.id = q.id /\ s.at = q.at /\ s.duration = q.duration <=> s = q
    BY <2>2 DEF Request
  <2> QED
    BY <2>3, <2>4
<1>10. ASSUME NEW o \in Pids, o = current
       PROVE  Held(o)' = Held(o) \cup {q}
  <2>1. Held(o)' = {s \in Asks(o) : \E h \in ToSet(holding'[o]) : Matches(o, h, s)}
    BY <1>8
  <2>2. Held(o)' = {s \in Asks(o) : \E h \in ToSet(holding[o]) \cup {q} : Matches(o, h, s)}
    BY <1>1, <1>10, <2>1
  <2>3. \A s \in Asks(o) : Matches(o, q, s) <=> s = q
    BY <1>9, <1>10
  <2>4. \A s : s \in Held(o)' <=>
                /\ s \in Asks(o)
                /\ (\E h \in ToSet(holding[o]) : Matches(o, h, s)) \/ Matches(o, q, s)
    BY <2>2
  <2>5. \A s : s \in Held(o) <=>
                s \in Asks(o) /\ \E h \in ToSet(holding[o]) : Matches(o, h, s)
    BY HeldMeans
  <2>6. \A s : s \in Held(o)' <=> s \in Held(o) \/ s = q
    BY <1>4, <1>10, <2>3, <2>4, <2>5
  <2> QED
    BY <2>6
<1>11. \A o \in Pids \ {current} : Held(o)' = Held(o)
  <2>1. SUFFICES ASSUME NEW o \in Pids, o # current
                 PROVE  Held(o)' = Held(o)
    OBVIOUS
  <2>2. holding'[o] = holding[o]
    BY <1>1, <2>1
  <2> QED
    BY <1>8, <2>2, HeldMeans
<1> DEFINE held == [p \in Pids |-> Held(p)]
           Then(o) == Held(o)'
<1>12. held' = [held EXCEPT ![current] = held[current] \cup {q}]
  <2>1. /\ held' = [o \in Pids |-> Then(o)]
        /\ \A o \in Pids : Then(o) = IF o = current THEN Held(o) \cup {q} ELSE Held(o)
    BY <1>10, <1>11
  <2> HIDE DEF Then
  <2> QED
    BY <1>3, <2>1
<1>13. \A o \in Pids : \A h \in held[o] : h.id # q.id
  BY <1>5
<1>14. (pc = "release") = FALSE /\ (pc = "release")' = (pc = "release")
  BY <1>2
<1>15. Time!Take(current, q)
  <2> HIDE DEF held
  <2>1. /\ script' = script /\ ticks' = ticks /\ age' = age
        /\ ~(pc = "release") /\ q.at = age[current]
    BY <1>1, <1>2
  <2>2. q \in Time!Asks(current)
    BY <1>4, HeldMeans
  <2> QED
    BY <1>3, <1>12, <1>13, <1>14, <2>1, <2>2, Zenon DEF Time!Take, held
<1> QED
  BY <1>3, <1>4, <1>15, HeldMeans

(* A process that is granted what it asks for at its age gets older.       *)
LEMMA WorkTimeshares ==
    ASSUME SimInv, NoneOutlives, Work
    PROVE  \E p \in Pids : Time!Work(p)
<1>1. pc = "run" /\ pc' = "release" /\ UNCHANGED <<script, ticks, current>>
  BY DEF Work
<1>2. PICK p \in Pids : p = current /\ Time!Present(p)
  BY <1>1, RunnerIsPresent
<1>3. \A h \in ToSet(holding[current]) : h.duration > 0
  BY <1>1 DEF SimInv, BasicInv, Runs, Counting
<1>4. /\ age \in [Pids -> Nat] /\ age' \in [Pids -> Nat]
      /\ age'[p] = age[p] + 1
      /\ \A o \in Pids \ {p} : age'[o] = age[o] /\ holding'[o] = holding[o]
      /\ DOMAIN holding'[p] = DOMAIN holding[p]
  BY <1>2, <1>3, WorkEffects DEF SimInv, BasicInv, TypeOK
<1>5. \A o : Asks(o)' = Asks(o)
  BY <1>1 DEF Asks
<1>6. ASSUME NEW o \in Pids, o # p
      PROVE  Held(o)' = Held(o)
  BY <1>4, <1>5, <1>6 DEF Held
<1>7. ASSUME NEW s \in Asks(p)
      PROVE  (\E g \in ToSet(holding'[p]) : Now(p, g, s))
             <=> \E h \in ToSet(holding[p]) : Matches(p, h, s)
  <2>1. /\ \A g \in ToSet(holding'[p]) : \E i \in DOMAIN holding[p] : g = holding'[p][i]
        /\ \A h \in ToSet(holding[p]) : \E i \in DOMAIN holding[p] : h = holding[p][i]
    BY <1>4 DEF ToSet
  <2>2. \A i \in DOMAIN holding[p] :
           /\ holding[p][i] \in ToSet(holding[p])
           /\ holding'[p][i] \in ToSet(holding'[p])
           /\ Now(p, holding'[p][i], s) <=> Matches(p, holding[p][i], s)
    BY <1>2, <1>7, WorkCountsDown DEF SimInv
  <2> QED
    BY <2>1, <2>2
<1>8. Held(p)' = Held(p)
  <2>1. \A s : s \in Held(p)' <=> s \in Asks(p) /\ \E g \in ToSet(holding'[p]) : Now(p, g, s)
    BY <1>5 DEF Held, Now
  <2>2. \A s : s \in Held(p) <=> s \in Asks(p) /\ \E h \in ToSet(holding[p]) : Matches(p, h, s)
    BY HeldMeans
  <2> QED
    BY <1>7, <2>1, <2>2
<1>9. [o \in Pids |-> Held(o)]' = [o \in Pids |-> Held(o)]
  BY <1>6, <1>8
<1>10. age' = [age EXCEPT ![p] = age[p] + 1]
  BY <1>4
<1>11. \A s \in Asks(p) : s.at = age[p] => s \in Held(p)
  <2>1. SUFFICES ASSUME NEW s \in Asks(p), s.at = age[p]
                 PROVE  \E h \in ToSet(holding[p]) : Matches(p, h, s)
    BY HeldMeans
  <2>2. s.duration \in Nat /\ s.duration > 0 /\ age[p] \in Nat
    BY <1>4, ScriptFacts DEF Asks, ToSet, Request, SimInv, BasicInv
  <2>3. s \notin ToSet(toAcquire[p])
    BY <1>2, <2>1 DEF Work, Pending, ToSet
  <2> QED
    BY <2>1, <2>2, <2>3 DEF SimInv, RequestInv, Served
<1>12. (pc = "release") = FALSE /\ (pc = "release")' = TRUE
  BY <1>1
<1>13. Time!Work(p)
  <2>1. \A s \in Time!Asks(p) : s.at = age[p] => s \in [o \in Pids |-> Held(o)][p]
    BY <1>11, HeldMeans
  <2> QED
    BY <1>1, <1>2, <1>9, <1>10, <1>12, <2>1 DEF Time!Work
<1> QED
  BY <1>13

(* A process gives back what it has had for as long as it asked for.       *)
LEMMA ReleaseTimeshares ==
    ASSUME SimInv, AnyRelease
    PROVE  \E p \in Pids : \E q \in Time!Asks(p) : Time!Give(p, q)
<1>1. pc = "release" /\ pc' = "release" /\ UNCHANGED <<script, ticks, age, current, toAcquire>>
  BY ReleaseGoes DEF SimInv, AnyRelease
<1>2. PICK e \in ToSet(holding[current]) :
         /\ current \in Pids /\ e.id = Released /\ e.duration = 0
         /\ \A o \in Pids \ {current} : holding'[o] = holding[o]
         /\ IsInjective(holding[current]) =>
               ToSet(holding'[current]) = ToSet(holding[current]) \ {e}
  BY ReleaseEffects DEF SimInv, BasicInv
<1>3. PICK p \in Pids : p = current
  BY <1>2
<1>4. /\ ToSet(holding'[p]) = ToSet(holding[p]) \ {e}
      /\ \A h \in ToSet(holding[p]) : h.id = e.id => h = e
  BY <1>2, <1>3 DEF SimInv, RequestInv, Owned
<1>5. PICK q \in Asks(p) : Matches(p, e, q)
  BY <1>2, <1>3 DEF SimInv, RequestInv, Granted
<1>6. /\ \A o : Asks(o)' = Asks(o)
      /\ \A o, h, s : Matches(o, h, s)' <=> Matches(o, h, s)
  BY <1>1 DEF Asks, Matches
<1>7. \A o \in Pids \ {p} : Held(o)' = Held(o)
  <2>1. SUFFICES ASSUME NEW o \in Pids, o # p
                 PROVE  Held(o)' = Held(o)
    OBVIOUS
  <2>2. holding'[o] = holding[o]
    BY <1>2, <1>3, <2>1
  <2> QED
    BY <1>1, <1>6, <2>2 DEF Held
<1>8. ASSUME NEW s \in Asks(p), Matches(p, e, s)
      PROVE  s = q
  <2>1. s \in Request /\ q \in Request /\ e.duration = 0 /\ age[p] \in Nat
    BY <1>2, <1>5, <1>8, ScriptFacts, HeldFacts DEF SimInv, BasicInv, Asks, ToSet
  <2>2. s.id = q.id /\ s.at = q.at /\ s.duration = q.duration
    BY <1>5, <1>8, <2>1 DEF Matches, Request
  <2> QED
    BY <2>1, <2>2 DEF Request
<1>9. Held(p)' = Held(p) \ {q}
  <2>1. \A s : s \in Held(p)' <=>
                  s \in Asks(p) /\ \E h \in ToSet(holding'[p]) : Matches(p, h, s)
    BY <1>1, <1>6 DEF Held, Matches
  <2>2. \A s : s \in Held(p) <=>
                  s \in Asks(p) /\ \E h \in ToSet(holding[p]) : Matches(p, h, s)
    BY HeldMeans
  <2>3. ASSUME NEW h \in ToSet(holding[p]), Matches(p, h, q)
        PROVE  h = e
    BY <1>4, <1>5, <2>3 DEF Matches
  <2> QED
    BY <1>2, <1>3, <1>4, <1>5, <1>8, <2>1, <2>2, <2>3
<1>10. q \in Held(p)
  BY <1>2, <1>3, <1>5, HeldMeans
<1>11. age[p] = Time!Until(q)
  <2>1. e.duration = 0 /\ age[p] \in Nat /\ q.at \in Nat /\ q.duration \in Nat
    BY <1>2, <1>5, HeldFacts DEF SimInv, BasicInv
  <2> QED
    BY <1>5, <2>1 DEF Matches, Time!Until
<1> DEFINE held == [o \in Pids |-> Held(o)]
           Then(o) == Held(o)'
<1>12. held' = [held EXCEPT ![p] = held[p] \ {q}]
  <2>1. /\ held' = [o \in Pids |-> Then(o)]
        /\ \A o \in Pids : Then(o) = IF o = p THEN Held(o) \ {q} ELSE Held(o)
    BY <1>7, <1>9
  <2> HIDE DEF Then
  <2> QED
    BY <2>1
<1>13. q \in held[p]
  BY <1>10
<1>14. (pc = "release")' = (pc = "release")
  BY <1>1
<1>15. Time!Give(p, q)
  <2> HIDE DEF held
  <2>1. script' = script /\ ticks' = ticks /\ age' = age /\ Time!Until(q) = age[p]
    BY <1>1, <1>11
  <2> QED
    BY <1>12, <1>13, <1>14, <2>1, Zenon DEF Time!Give, held
<1> QED
  BY <1>5, <1>15, HeldMeans

LEMMA StepTimeshares ==
    ASSUME SimInv, NoneOutlives, [DraftNext]_draftVars
    PROVE  [Time!Next]_Time!timeVars
<1> DEFINE Goal == Time!Next \/ UNCHANGED Time!timeVars
<1> SUFFICES Goal
  OBVIOUS
<1>1. TypeOK /\ Runs
  BY DEF SimInv, BasicInv
<1>2. AnyNext \/ UNCHANGED draftVars
  BY <1>1, StepsAreAny
<1>3. CASE Fork \/ (ScheduleStep /\ Choice)
  <2>1. /\ pc \in {"fork", "schedule"} /\ pc' \in {"fork", "schedule", "switch", "null", "corrupt"}
        /\ UNCHANGED <<script, ticks, age, holding>>
    BY <1>3 DEF Fork, ScheduleStep, Choice, LooksAtStatus, Gives, Swaps, Crash, Return, PutBack
  <2> QED
    BY <2>1, QuietTimeshares
<1>4. CASE Switch
  <2>1. /\ pc = "switch" /\ UNCHANGED <<script, age, holding>>
        /\ EndTick \/ (ticks' = ticks /\ pc' \in {"assert", "run", "end"})
    BY <1>1, <1>4, SwitchCases
  <2>2. CASE EndTick
    BY <2>1, <2>2, TickTimeshares DEF SimInv, Time!Next
  <2>3. CASE ticks' = ticks /\ pc' \in {"assert", "run", "end"}
    BY <2>1, <2>3, QuietTimeshares
  <2> QED
    BY <2>1, <2>2, <2>3
<1>5. CASE AnyRefusal
  <2>1. pc = "run" /\ EndTick /\ UNCHANGED <<script, age, holding>>
    BY <1>5 DEF AnyRefusal
  <2> QED
    BY <2>1, TickTimeshares DEF SimInv, Time!Next
<1>6. CASE NextTick
  <2>1. /\ pc = "release" /\ Over(current) = {} /\ EndTick
        /\ UNCHANGED <<script, age, holding>>
    BY <1>6 DEF NextTick
  <2> QED
    BY <2>1, TickTimeshares DEF SimInv, Time!Next
<1>7. CASE AnyGrant
  BY <1>7, GrantTimeshares DEF Time!Next
<1>8. CASE Work
  BY <1>8, WorkTimeshares DEF Time!Next
<1>9. CASE AnyRelease
  BY <1>9, ReleaseTimeshares DEF Time!Next
<1>10. CASE UNCHANGED draftVars
  <2>1. UNCHANGED <<script, ticks, age, holding, pc>>
    BY <1>10 DEF draftVars, schedVars
  <2>2. (pc = "release")' = (pc = "release")
    BY <2>1
  <2>3. \A p : Held(p)' = Held(p)
    BY <2>1 DEF Held, Asks
  <2>4. [p \in Pids |-> Held(p)]' = [p \in Pids |-> Held(p)]
    BY <2>3
  <2> QED
    BY <2>1, <2>2, <2>4 DEF Time!timeVars
<1> QED
  <2> HIDE DEF Goal
  <2> QED
    BY <1>2, <1>3, <1>4, <1>5, <1>6, <1>7, <1>8, <1>9, <1>10, Zenon DEF AnyNext

LEMMA ScriptsStay ==
    ASSUME [DraftNext]_draftVars, BasicInv
    PROVE  UNCHANGED <<policy, script>>
<1>1. AnyNext \/ UNCHANGED draftVars
  BY StepsAreAny DEF BasicInv
<1> QED
  BY <1>1 DEF AnyNext, Fork, ScheduleStep, Switch, AnyGrant, AnyRefusal, Work, AnyRelease,
              NextTick, draftVars, schedVars

(* Every policy of every version implements Timeshare: whatever it decides *)
(* there is one processor, a resource is held by one process at a time and *)
(* for as long as its request says, and nobody works without what it asks  *)
(* for.                                                                    *)
THEOREM SchedImplementsTimeshare == DraftSpec /\ NoneOutlives => TimeshareSpec
<1>1. DraftInit => Time!Init
  BY InitTimeshares
<1>2. BasicInv /\ NoneOutlives /\ [DraftNext]_draftVars => NoneOutlives'
  BY ScriptsStay DEF NoneOutlives, Lifeless
<1>3. BasicInv /\ PlaceInv /\ RequestInv /\ LifeInv /\ NoneOutlives /\ [DraftNext]_draftVars
      => [Time!Next]_Time!timeVars
  BY StepTimeshares DEF SimInv
<1> QED
  BY <1>1, <1>2, <1>3, BasicAlways, PlaceAlways, RequestAlways, LifeAlways, PTL
     DEF DraftSpec, TimeshareSpec, Time!Spec

-----------------------------------------------------------------------------
(* Where everybody stands: a process that runs is current, one that has    *)
(* exited has nothing left, and one with time is in a list, is current or  *)
(* is prev at its exit, unless the first sjf has dropped it.               *)

Tried(p) == p = NoProcess \/ status[p] = "wait" \/ age[p] > 0
Gone(p) ==
    /\ ~Linked(p) /\ p # current /\ p # prev
    /\ age[p] = script[p].lifespan /\ age[p] > 0
    /\ holding[p] = <<>> /\ toAcquire[p] = <<>>
Lost(p) == Lifeless(p) /\ age[p] > 0

Running ==
    \A p \in Pids : status[p] = "running" => p = current \/ (pc = "switch" /\ p = prev)
Exited == \A p \in Pids : status[p] = "exit" => Gone(p)
Ran ==
    /\ pc \in {"fork", "schedule"} => Tried(current)
    /\ pc = "release" => age[current] > 0
    /\ pc = "switch" => Tried(prev)
NoPrev ==
    /\ pc # "switch" => prev = NoProcess
    /\ pc = "end" => current = NoProcess /\ forkqueue = <<>> /\ readyqueue = <<>>
(* The first sjf drops whoever has more than one tick.                     *)
Remembers == policy = "try_sjf" => \A p \in Pids : script[p].lifespan = 1
Somewhere ==
    Remembers =>
        \A p \in Pids : \/ Linked(p) \/ p = current \/ status[p] = "exit"
                        \/ (p = prev /\ Finished) \/ Lost(p)
StandInv == pc \notin Faults => Running /\ Exited /\ Ran /\ NoPrev /\ Somewhere

(* A fork and a release move processes from one list to another one.       *)
LEMMA ForkLinks ==
    ASSUME TypeOK, Fork
    PROVE  \A p : Linked(p)' <=> Linked(p)
<1>1. \A p : Linked(p)' <=> p \in F' \/ p \in R' \/ \E r \in Resources : p \in W(r)'
  BY DEF Linked, F, R, W
<1>2. \A r : W(r)' = W(r)
  BY DEF Fork, W
<1>3. F' \cup R' = F \cup R
  <2>1. CASE ForkRound
    <3>1. PICK p \in ToSet(forkqueue) :
             /\ ToSet(readyqueue') = ToSet(readyqueue) \cup {p}
             /\ ToSet(forkqueue') \subseteq ToSet(forkqueue)
             /\ ToSet(forkqueue) \subseteq ToSet(forkqueue') \cup {p}
      BY <2>1, ForkEffects
    <3> QED
      BY <3>1 DEF F, R
  <2>2. CASE UNCHANGED <<forkqueue, readyqueue>>
    BY <2>2 DEF F, R
  <2> QED
    BY <2>1, <2>2, ForkCases
<1> QED
  BY <1>1, <1>2, <1>3, LinkedMeans

LEMMA ReleaseLinks ==
    ASSUME TypeOK, Runs, AnyRelease
    PROVE  \A p : Linked(p)' <=> Linked(p)
<1>1. \A p : Linked(p)' <=> p \in F' \/ p \in R' \/ \E r \in Resources : p \in W(r)'
  BY DEF Linked, F, R, W
<1>2. F' = F
  BY DEF AnyRelease, F
<1>3. PICK o \in Resources : o = Released
  BY ReleaseEffects
<1>4. CASE UNCHANGED <<waitqueue, status, readyqueue>>
  BY <1>4 DEF AnyRelease, Linked
<1>5. CASE \E w : WakesProcess(w)
  <2>1. PICK w : WakesProcess(w)
    BY <1>5
  <2>2. /\ w \in W(o) /\ R' = R \cup {w}
        /\ \A r \in Resources : W(r)' \subseteq W(r)
        /\ \A r \in Resources : W(r) \subseteq W(r)' \cup {w}
    BY <1>3, <2>1 DEF WakesProcess, W, R
  <2> QED
    BY <1>1, <1>2, <2>2, LinkedMeans
<1> QED
  BY <1>4, <1>5, WakeEffects

LEMMA RefusalLinks ==
    ASSUME TypeOK, Runs, AnyRefusal
    PROVE  \A p : Linked(p)' <=> Linked(p) \/ p = current
<1>1. \A p : Linked(p)' <=> p \in F' \/ p \in R' \/ \E r \in Resources : p \in W(r)'
  BY DEF Linked, F, R, W
<1>2. F' = F /\ R' = R
  BY DEF AnyRefusal, F, R
<1>3. PICK o \in Resources : o = Asked
  BY RefusalEffects
<1>4. W(o)' = W(o) \cup {current} /\ \A r \in Resources \ {o} : W(r)' = W(r)
  BY <1>3, RefusalEffects DEF W
<1> QED
  BY <1>1, <1>2, <1>4, LinkedMeans

(* Who waits is in a list.                                                 *)
LEMMA WaitersAreLinked ==
    ASSUME PlaceInv, pc \notin Faults, NEW p \in Pids, status[p] = "wait"
    PROVE  (\E r \in Resources : p \in W(r)) /\ Linked(p)
BY LinkedMeans DEF PlaceInv, WaitersWait, Faults

LEMMA StandInit ==
    ASSUME DraftInit
    PROVE  StandInv
<1>1. PICK c \in Cases : Load(c)
  BY DEF DraftInit
<1>2. /\ pc = "fork" /\ current = NoProcess /\ prev = NoProcess
      /\ forkqueue = [p \in Pids |-> p] /\ status = [p \in Pids |-> "ready"]
  BY <1>1 DEF Load
<1>3. \A p \in Pids : Linked(p)
  BY <1>2, LinkedMeans DEF F, ToSet
<1> QED
  BY <1>2, <1>3 DEF StandInv, Running, Exited, Ran, NoPrev, Somewhere, Tried

LEMMA ForkStands ==
    ASSUME TypeOK, StandInv, Fork
    PROVE  StandInv'
<1>1. /\ pc = "fork" /\ pc' \in {"fork", "schedule"}
      /\ UNCHANGED <<policy, script, current, prev, status, age, toAcquire, holding>>
  BY ForkCases DEF ForkRound
<1>2. \A p : Linked(p)' <=> Linked(p)
  BY ForkLinks
<1>3. Running /\ Exited /\ Ran /\ NoPrev /\ Somewhere
  BY <1>1 DEF StandInv, Faults
<1> QED
  BY <1>1, <1>2, <1>3
     DEF StandInv, Running, Exited, Gone, Ran, Tried, NoPrev, Somewhere, Remembers,
         Finished, Lost, Lifeless

LEMMA ScheduleStands ==
    ASSUME TypeOK, PlaceInv, LifeInv, StandInv, ScheduleStep, Choice
    PROVE  StandInv'
<1>1. /\ pc = "schedule" /\ prev' = current
      /\ UNCHANGED <<policy, script, forkqueue, waitqueue, status, age, toAcquire, holding>>
  BY DEF ScheduleStep
<1>2. SUFFICES ASSUME pc' \notin Faults
               PROVE  (Running /\ Exited /\ Ran /\ NoPrev /\ Somewhere)'
  BY DEF StandInv
<1>3. pc' = "switch" /\ (Keeps \/ Picks \/ Idles \/ GoesBack)
  BY <1>2, ScheduleEffects DEF Ends, Faults
<1>4. Running /\ Exited /\ Ran /\ NoPrev /\ Somewhere /\ prev = NoProcess
  BY <1>1 DEF StandInv, Faults, NoPrev
<1>5. \A p : Linked(p)' <=> p \in F \/ p \in R' \/ \E r \in Resources : p \in W(r)
  BY <1>1 DEF Linked, F, R, W
<1>6. /\ R' \subseteq R \cup {current} /\ R \subseteq R' \cup {current'}
      /\ current' = NoProcess \/ current' = current \/ current' \in R
  <2>1. CASE Keeps
    BY <2>1 DEF Keeps, R
  <2>2. CASE Picks
    BY <2>2 DEF Picks, R
  <2>3. CASE Idles
    BY <2>3 DEF Idles, R, ToSet
  <2>4. CASE GoesBack
    BY <2>4 DEF GoesBack, R
  <2> QED
    BY <1>3, <2>1, <2>2, <2>3, <2>4
<1>7. Running'
  BY <1>1, <1>3, <1>4 DEF Running
<1>8. Exited'
  <2>1. SUFFICES ASSUME NEW p \in Pids, status[p] = "exit"
                 PROVE  Gone(p)'
    BY <1>1 DEF Exited
  <2>2. Gone(p) /\ p # NoProcess
    BY <1>4, <2>1 DEF Exited, NoProcess, Pids
  <2>3. p \notin F /\ p \notin R /\ p # current /\ \A r \in Resources : p \notin W(r)
    BY <2>2, LinkedMeans DEF Gone
  <2>4. ~Linked(p)' /\ p # current' /\ p # prev'
    BY <1>1, <1>5, <1>6, <2>2, <2>3
  <2> QED
    BY <1>1, <2>2, <2>4 DEF Gone
<1>9. Ran' /\ NoPrev'
  BY <1>1, <1>3, <1>4 DEF Ran, NoPrev, Tried
<1>10. Somewhere'
  <2>1. SUFFICES ASSUME Remembers, NEW p \in Pids
                 PROVE  \/ Linked(p)' \/ p = current' \/ status[p] = "exit"
                        \/ (p = prev' /\ Finished') \/ Lost(p)
    BY <1>1 DEF Somewhere, Remembers, Lost, Lifeless
  <2>2. p # NoProcess
    BY DEF NoProcess, Pids
  <2>3. Linked(p) \/ p = current \/ status[p] = "exit" \/ Lost(p)
    BY <1>4, <2>1, <2>2 DEF Somewhere
  <2>6. script[p].lifespan \in Nat /\ age[p] \in Nat
    BY ScriptFacts, HeldFacts
  <2>4. CASE Linked(p)
    BY <1>5, <1>6, <2>4, LinkedMeans
  <2>5. CASE p = current
    <3>1. CASE Keeps
      BY <2>5, <3>1 DEF Keeps
    <3>2. CASE GoesBack
      BY <1>5, <2>5, <3>2 DEF GoesBack, R
    <3>3. CASE Gives
      <4>1. CASE status[p] = "wait"
        BY <1>1, <1>5, <4>1, WaitersAreLinked DEF Faults
      <4>2. CASE status[p] # "wait"
        <5>1. age[p] > 0
          BY <1>1, <1>4, <2>2, <2>5, <4>2 DEF Ran, Tried
        <5>2. ~Unfinished(p)
          <6>1. CASE policy = "try_sjf"
            BY <2>1, <2>6, <5>1, <6>1 DEF Remembers, Unfinished
          <6>2. CASE policy # "try_sjf"
            BY <2>2, <2>5, <3>3, <4>2, <6>2 DEF Gives, HasTime, Blocked
          <6> QED
            BY <6>1, <6>2
        <5>3. Lifeless(p) \/ age[p] = script[p].lifespan
          BY <2>6, <5>1, <5>2 DEF LifeInv, Aging, Unfinished
        <5>4. age[p] = script[p].lifespan => p = prev' /\ Finished'
          BY <1>1, <2>2, <2>5 DEF Finished
        <5> QED
          BY <5>1, <5>3, <5>4 DEF Lost
      <4> QED
        BY <4>1, <4>2
    <3> QED
      BY <1>3, <3>1, <3>2, <3>3 DEF Picks, Idles
  <2> QED
    BY <2>3, <2>4, <2>5
<1> QED
  BY <1>7, <1>8, <1>9, <1>10

LEMMA SwitchStands ==
    ASSUME TypeOK, PlaceInv, StandInv, Switch
    PROVE  StandInv'
<1>1. /\ pc = "switch" /\ prev' = NoProcess
      /\ UNCHANGED <<policy, script, current, forkqueue, readyqueue, waitqueue, age, toAcquire,
                     holding>>
  BY SwitchCases
<1>2. SUFFICES ASSUME pc' \notin Faults
               PROVE  (Running /\ Exited /\ Ran /\ NoPrev /\ Somewhere)'
  BY DEF StandInv
<1>3. /\ Finished => ExitAsserts
      /\ \/ /\ current \in Pids /\ pc' = "run"
            /\ status' = [Retired EXCEPT ![current] = "running"]
         \/ current = NoProcess /\ status' = Retired /\ pc' = "fork"
         \/ current = NoProcess /\ status' = Retired /\ pc' = "end" /\ NonePending
  BY <1>2, SwitchCases DEF EndTick, Faults
<1>4. Running /\ Exited /\ Ran /\ NoPrev /\ Somewhere
  BY <1>1 DEF StandInv, Faults
<1>5. \A p : Linked(p)' <=> Linked(p)
  BY <1>1 DEF Linked
<1>6. /\ Retired \in [Pids -> Statuses]
      /\ \A p \in Pids \ {prev} : Retired[p] = status[p]
      /\ prev \in Pids => Retired[prev] # "running"
      /\ prev \in Pids /\ Finished => Retired[prev] = "exit"
      /\ prev \in Pids /\ ~Finished /\ Retired[prev] = "exit" => status[prev] = "exit"
  BY RetiredFacts
<1>7. /\ \A p \in Pids \ {current} : status'[p] = Retired[p]
      /\ current \in Pids => status'[current] = "running"
  <2>1. DOMAIN Retired = Pids /\ NoProcess \notin Pids
    BY <1>6 DEF NoProcess, Pids
  <2>2. CASE current \in Pids /\ status' = [Retired EXCEPT ![current] = "running"]
    BY <2>1, <2>2
  <2>3. CASE current = NoProcess /\ status' = Retired
    BY <2>1, <2>3
  <2> QED
    BY <1>3, <2>2, <2>3
<1>8. Running'
  BY <1>1, <1>4, <1>6, <1>7 DEF Running
<1>9. Exited'
  <2>1. SUFFICES ASSUME NEW p \in Pids, status'[p] = "exit"
                 PROVE  Gone(p)'
    BY DEF Exited
  <2>2. p # current /\ Retired[p] = "exit" /\ p # prev'
    BY <1>1, <1>7, <2>1 DEF NoProcess, Pids
  <2>3. CASE status[p] = "exit"
    BY <1>1, <1>4, <1>5, <2>2, <2>3 DEF Exited, Gone
  <2>4. CASE p = prev /\ Finished
    <3>1. /\ ~Linked(p) /\ holding[p] = <<>> /\ toAcquire[p] = <<>>
          /\ age[p] = script[p].lifespan
      BY <1>3, <2>4 DEF ExitAsserts, Finished
    <3>2. status[p] # "wait"
      BY <1>1, <3>1, WaitersAreLinked DEF Faults
    <3>3. age[p] > 0
      BY <1>1, <1>4, <2>4, <3>2 DEF Ran, Tried, Finished
    <3> QED
      BY <1>1, <1>5, <2>2, <3>1, <3>3 DEF Gone
  <2> QED
    BY <1>6, <2>2, <2>3, <2>4
<1>10. Ran'
  BY <1>1, <1>3 DEF Ran, Tried
<1>11. NoPrev'
  BY <1>1, <1>3 DEF NoPrev, NonePending
<1>12. Somewhere'
  <2>1. SUFFICES ASSUME Remembers, NEW p \in Pids
                 PROVE  \/ Linked(p) \/ p = current \/ status'[p] = "exit" \/ Lost(p)
    BY <1>1, <1>5 DEF Somewhere, Remembers, Lost, Lifeless
  <2>2. \/ Linked(p) \/ p = current \/ status[p] = "exit" \/ (p = prev /\ Finished)
        \/ Lost(p)
    BY <1>4, <2>1 DEF Somewhere
  <2>3. status[p] = "exit" => p # prev
    BY <1>4 DEF Exited, Gone
  <2> QED
    BY <1>6, <1>7, <2>2, <2>3
<1> QED
  BY <1>8, <1>9, <1>10, <1>11, <1>12

LEMMA GrantStands ==
    ASSUME TypeOK, Runs, StandInv, AnyGrant
    PROVE  StandInv'
<1>1. /\ pc = "run" /\ pc' = "run"
      /\ UNCHANGED <<policy, script, current, prev, forkqueue, readyqueue, waitqueue, status, age>>
  BY DEF AnyGrant
<1>2. \A o \in Pids \ {current} : toAcquire'[o] = toAcquire[o] /\ holding'[o] = holding[o]
  BY GrantEffects
<1>3. Running /\ Exited /\ Ran /\ NoPrev /\ Somewhere
  BY <1>1 DEF StandInv, Faults
<1>4. \A p : Linked(p)' <=> Linked(p)
  BY <1>1 DEF Linked
<1>5. Running' /\ Ran' /\ NoPrev'
  BY <1>1, <1>3 DEF Running, Ran, NoPrev
<1>6. Exited'
  BY <1>1, <1>2, <1>3, <1>4 DEF Exited, Gone
<1>7. Somewhere'
  BY <1>1, <1>3, <1>4 DEF Somewhere, Remembers, Finished, Lost, Lifeless
<1> QED
  BY <1>5, <1>6, <1>7 DEF StandInv

LEMMA RefusalStands ==
    ASSUME TypeOK, Runs, StandInv, AnyRefusal
    PROVE  StandInv'
<1>1. /\ pc = "run" /\ pc' = "fork"
      /\ UNCHANGED <<policy, script, current, prev, age, toAcquire, holding>>
  BY DEF AnyRefusal, EndTick
<1>2. current \in Pids /\ status'[current] = "wait"
      /\ \A o \in Pids \ {current} : status'[o] = status[o]
  BY RefusalEffects
<1>3. Running /\ Exited /\ Ran /\ NoPrev /\ Somewhere
  BY <1>1 DEF StandInv, Faults
<1>4. \A p : Linked(p)' <=> Linked(p) \/ p = current
  BY RefusalLinks
<1>5. Running' /\ Ran' /\ NoPrev'
  BY <1>1, <1>2, <1>3 DEF Running, Ran, Tried, NoPrev
<1>6. Exited'
  BY <1>1, <1>2, <1>3, <1>4 DEF Exited, Gone
<1>7. Somewhere'
  BY <1>1, <1>2, <1>3, <1>4 DEF Somewhere, Remembers, Finished, Lost, Lifeless
<1> QED
  BY <1>5, <1>6, <1>7 DEF StandInv

LEMMA WorkStands ==
    ASSUME BasicInv, StandInv, Work
    PROVE  StandInv'
<1>1. /\ pc = "run" /\ pc' = "release"
      /\ UNCHANGED <<policy, script, current, prev, forkqueue, readyqueue, waitqueue, status,
                     toAcquire>>
  BY DEF Work
<1>2. /\ current \in Pids
      /\ age'[current] = age[current] + 1 /\ age[current] \in Nat
      /\ \A o \in Pids \ {current} : age'[o] = age[o] /\ holding'[o] = holding[o]
  BY <1>1, WorkEffects, HeldFacts DEF BasicInv, Runs, Counting
<1>3. Running /\ Exited /\ Ran /\ NoPrev /\ Somewhere
  BY <1>1 DEF StandInv, Faults
<1>4. \A p : Linked(p)' <=> Linked(p)
  BY <1>1 DEF Linked
<1>5. Running' /\ Ran' /\ NoPrev'
  BY <1>1, <1>2, <1>3 DEF Running, Ran, NoPrev
<1>6. Exited'
  BY <1>1, <1>2, <1>3, <1>4 DEF Exited, Gone
<1>7. Somewhere'
  <2>1. \A p \in Pids : p # prev
    BY <1>1, <1>3 DEF NoPrev, NoProcess, Pids
  <2> QED
    BY <1>1, <1>2, <1>3, <1>4, <2>1 DEF Somewhere, Remembers, Lost, Lifeless
<1> QED
  BY <1>5, <1>6, <1>7 DEF StandInv

LEMMA ReleaseStands ==
    ASSUME TypeOK, Runs, PlaceInv, StandInv, AnyRelease
    PROVE  StandInv'
<1>1. /\ pc = "release" /\ pc' \in {"release", "assert"}
      /\ UNCHANGED <<policy, script, current, prev, age, toAcquire>>
  BY DEF AnyRelease, Disowns
<1>2. /\ current \in Pids
      /\ \A o \in Pids \ {current} : holding'[o] = holding[o]
  BY ReleaseEffects
<1>3. Running /\ Exited /\ Ran /\ NoPrev /\ Somewhere
  BY <1>1 DEF StandInv, Faults
<1>4. \A p : Linked(p)' <=> Linked(p)
  BY ReleaseLinks
<1>5. \A p \in Pids : status'[p] = status[p] \/ (status[p] = "wait" /\ status'[p] = "ready")
  <2>1. CASE UNCHANGED <<waitqueue, status, readyqueue>>
    BY <2>1
  <2>2. ASSUME NEW w, WakesProcess(w)
        PROVE  \A p \in Pids : status'[p] = status[p] \/ (status[p] = "wait" /\ status'[p] = "ready")
    <3>1. Released \in Resources
      BY ReleaseEffects
    <3>2. status[w] = "wait"
      BY <1>1, <2>2, <3>1 DEF WakesProcess, PlaceInv, WaitersWait, W
    <3> QED
      BY <2>2, <3>2 DEF WakesProcess
  <2> QED
    BY <2>1, <2>2, WakeEffects
<1>6. pc' = "release" => Running' /\ Ran' /\ NoPrev'
  BY <1>1, <1>3, <1>5 DEF Running, Ran, NoPrev
<1>7. Exited'
  BY <1>1, <1>2, <1>3, <1>4, <1>5 DEF Exited, Gone
<1>8. Somewhere'
  BY <1>1, <1>3, <1>4, <1>5 DEF Somewhere, Remembers, Finished, Lost, Lifeless
<1> QED
  BY <1>1, <1>6, <1>7, <1>8 DEF StandInv, Faults

LEMMA OtherStands ==
    ASSUME StandInv, NextTick \/ UNCHANGED draftVars
    PROVE  StandInv'
<1>1. /\ UNCHANGED <<policy, script, current, prev, forkqueue, readyqueue, waitqueue, status, age,
                     toAcquire, holding>>
      /\ pc' = pc \/ (pc = "release" /\ pc' = "fork")
  BY DEF NextTick, EndTick, draftVars, schedVars
<1>2. SUFFICES ASSUME pc' \notin Faults
               PROVE  (Running /\ Exited /\ Ran /\ NoPrev /\ Somewhere)'
  BY DEF StandInv
<1>3. Running /\ Exited /\ Ran /\ NoPrev /\ Somewhere
  BY <1>1, <1>2 DEF StandInv, Faults
<1>4. \A p : Linked(p)' <=> Linked(p)
  BY <1>1 DEF Linked
<1>5. Running' /\ Ran' /\ NoPrev'
  BY <1>1, <1>3 DEF Running, Ran, Tried, NoPrev
<1>6. Exited' /\ Somewhere'
  BY <1>1, <1>3, <1>4 DEF Exited, Gone, Somewhere, Remembers, Finished, Lost, Lifeless
<1> QED
  BY <1>5, <1>6

LEMMA StandStep ==
    ASSUME BasicInv, PlaceInv, LifeInv, StandInv, [DraftNext]_draftVars
    PROVE  StandInv'
<1>1. TypeOK /\ Runs
  BY DEF BasicInv
<1>2. AnyNext \/ UNCHANGED draftVars
  BY <1>1, StepsAreAny
<1> QED
  BY <1>1, <1>2, ForkStands, ScheduleStands, SwitchStands, GrantStands, RefusalStands, WorkStands,
     ReleaseStands, OtherStands, Zenon DEF AnyNext

LEMMA StandAlways == DraftSpec => []StandInv
<1>1. DraftInit => StandInv
  BY StandInit
<1>2. BasicInv /\ PlaceInv /\ LifeInv /\ StandInv /\ [DraftNext]_draftVars => StandInv'
  BY StandStep
<1> QED
  BY <1>1, <1>2, BasicAlways, PlaceAlways, LifeAlways, PTL DEF DraftSpec

(* At the end of a simulation there is nobody left to wait for.            *)
LEMMA EndingMeans ==
    ASSUME BasicInv, PlaceInv, WaitInv, RequestInv, StandInv, NoneDiesHolding,
           policy # "try_sjf", pc = "end"
    PROVE  /\ \A p \in Pids : Lifeless(p) => status[p] = "ready" /\ ~Linked(p)
           /\ \A p \in Pids : ~Lifeless(p) => status[p] = "exit" \/ status[p] = "wait"
           /\ \A p \in Pids : status[p] = "wait" => Deadlocked(p) /\ ~Simple
<1>1. Running /\ Exited /\ NoPrev /\ Somewhere /\ TypeOK
  BY DEF StandInv, Faults, BasicInv
<1>2. F = {} /\ R = {} /\ current = NoProcess /\ prev = NoProcess
  BY <1>1 DEF NoPrev, F, R, ToSet
<1>3. \A p \in Pids : /\ Linked(p) <=> \E r \in Resources : p \in W(r)
                      /\ Linked(p) <=> status[p] = "wait"
  BY <1>2, LinkedMeans DEF PlaceInv, WaitersWait
<1>4. ASSUME NEW p \in Pids, Lifeless(p)
      PROVE  toAcquire[p] = <<>> /\ ToSet(holding[p]) = {}
  <2>1. Asks(p) = {}
    BY <1>4 DEF NoneDiesHolding
  <2>2. ToSet(toAcquire[p]) = {}
    BY <2>1 DEF BasicInv, ToDo
  <2>3. ToSet(holding[p]) = {}
    BY <2>1 DEF RequestInv, Granted
  <2>4. toAcquire[p] \in Seq(Request)
    BY HeldFacts DEF BasicInv
  <2>5. DOMAIN toAcquire[p] = 1 .. Len(toAcquire[p]) /\ Len(toAcquire[p]) \in Nat
    BY <2>4, LenProperties
  <2>6. 1 \notin DOMAIN toAcquire[p]
    BY <2>2 DEF ToSet
  <2>7. Len(toAcquire[p]) = 0
    BY <2>5, <2>6
  <2> QED
    BY <2>3, <2>4, <2>7, EmptySeq
<1>5. ASSUME NEW p \in Pids, NEW r \in Resources, AsksNext(p, r)
      PROVE  /\ NextRequest(p) \in ToSet(toAcquire[p]) /\ NextRequest(p) \in Asks(p)
             /\ NextRequest(p).at = age[p] /\ ~Lifeless(p)
  <2>1. Pending(p) # {}
    BY <1>5 DEF AsksNext
  <2>2. NextRequest(p) \in ToSet(toAcquire[p]) /\ NextRequest(p).at = age[p]
    BY <1>1, <2>1, NextIsAsked
  <2>3. ~Lifeless(p)
    BY <1>4, <2>2 DEF ToSet
  <2> QED
    BY <2>2, <2>3 DEF BasicInv, ToDo
<1>6. ASSUME NEW p \in Pids, ~Lifeless(p)
      PROVE  status[p] = "exit" \/ status[p] = "wait"
  BY <1>1, <1>2, <1>3, <1>6 DEF Somewhere, Remembers, Lost, NoProcess, Pids
<1>7. ASSUME NEW p \in Pids, Lifeless(p)
      PROVE  status[p] = "ready" /\ ~Linked(p)
  <2>1. status[p] # "wait"
    <3>1. SUFFICES ASSUME status[p] = "wait"
                   PROVE  FALSE
      OBVIOUS
    <3>2. PICK r \in Resources : p \in W(r)
      BY <1>3, <3>1
    <3> QED
      BY <1>5, <1>7, <3>2 DEF WaitInv, WaitersAsk
  <2>2. status[p] # "exit"
    BY <1>1, <1>7 DEF Exited, Gone, Lifeless
  <2>3. status[p] # "running"
    BY <1>1, <1>2 DEF Running, NoProcess, Pids
  <2>4. status[p] \in Statuses
    BY <1>1 DEF TypeOK
  <2> QED
    BY <1>3, <2>1, <2>2, <2>3, <2>4 DEF Statuses
<1>8. ASSUME NEW p \in Pids, status[p] = "wait"
      PROVE  Deadlocked(p) /\ ~Simple
  <2>1. PICK r \in Resources : p \in W(r)
    BY <1>3, <1>8
  <2>2. owner[r] # NoProcess
    <3>1. SUFFICES ASSUME owner[r] = NoProcess
                   PROVE  FALSE
      OBVIOUS
    <3>2. PICK o \in Pids : status[o] \notin {"wait", "exit"} /\ AsksNext(o, r)
      BY <2>1, <3>1 DEF WaitInv, Promised
    <3> QED
      BY <1>5, <1>6, <3>2
  <2>3. PICK o \in Pids : o = owner[r]
    BY <1>1, <2>2 DEF TypeOK
  <2>4. PICK h \in ToSet(holding[o]) : h.id = r
    BY <2>3 DEF RequestInv, OwnersHold
  <2>5. status[o] = "wait"
    <3>1. ~Lifeless(o)
      BY <1>4, <2>4
    <3>2. status[o] = "exit" => holding[o] = <<>>
      BY <1>1 DEF Exited, Gone
    <3> QED
      BY <1>6, <2>4, <3>1, <3>2 DEF ToSet
  <2>6. Deadlocked(p)
    BY <2>1, <2>2, <2>3, <2>5 DEF Deadlocked, W
  <2>7. PICK s \in Resources : o \in W(s)
    BY <1>3, <2>5
  <2>8. PICK q \in Asks(o) : q \in ToSet(toAcquire[o]) /\ q.at = age[o]
    BY <1>5, <2>7 DEF WaitInv, WaitersAsk
  <2>9. PICK g \in Asks(o) : g \notin ToSet(toAcquire[o]) /\ Matches(o, h, g) /\ h.at <= age[o]
    BY <2>4 DEF RequestInv, Granted
  <2>10. h.duration > 0
    BY <2>4 DEF BasicInv, Counting
  <2>11. Overlap(q, g)
    <3>1. /\ h.at \in Nat /\ h.duration \in Nat /\ q.at \in Nat /\ q.duration \in Nat
          /\ g.at \in Nat /\ g.duration \in Nat /\ age[o] \in Nat /\ q.duration > 0
      BY <2>4, <2>8, <2>9, HeldFacts, ScriptFacts DEF BasicInv
    <3> QED
      BY <2>8, <2>9, <2>10, <3>1 DEF Matches, Overlap
  <2> QED
    BY <2>6, <2>8, <2>9, <2>11 DEF Simple
<1> QED
  BY <1>6, <1>7, <1>8

(* No version but the first sjf ends with a process left that has time and *)
(* does not wait for another one.                                          *)
THEOREM OnlyTrySjfForgetsAlways == DraftSpec => []OnlyTrySjfForgets
<1>1. BasicInv /\ PlaceInv /\ WaitInv /\ RequestInv /\ StandInv => OnlyTrySjfForgets
  BY EndingMeans DEF OnlyTrySjfForgets, WhoIsLeftIsDeadlocked
<1> QED
  BY <1>1, BasicAlways, PlaceAlways, WaitAlways, RequestAlways, StandAlways, PTL

-----------------------------------------------------------------------------
(* Who asks for a resource, and who holds one.                             *)

(* Who is not forked yet has done nothing, and what is given back has been *)
(* used.                                                                   *)
Newborn == \A p \in F : age[p] = 0 /\ holding[p] = <<>>
Used == pc = "release" => \A h \in ToSet(holding[current]) : h.at < age[current]
FreshInv == Newborn /\ Used

LEMMA FreshInit ==
    ASSUME DraftInit
    PROVE  FreshInv
BY DEF DraftInit, Load, FreshInv, Newborn, Used, F, ToSet

LEMMA GrantIsFresh ==
    ASSUME TypeOK, Runs, PlaceInv, FreshInv, AnyGrant
    PROVE  FreshInv'
<1>1. pc = "run" /\ pc' = pc /\ UNCHANGED <<forkqueue, current, age>>
  BY DEF AnyGrant
<1>2. \A p \in Pids \ {current} : holding'[p] = holding[p]
  BY GrantEffects
<1>3. current \notin F /\ F \subseteq Pids
  BY <1>1, ListsHoldPids DEF PlaceInv, CurrentApart
<1> QED
  BY <1>1, <1>2, <1>3 DEF FreshInv, Newborn, Used, F

LEMMA WorkIsFresh ==
    ASSUME BasicInv, PlaceInv, RequestInv, FreshInv, Work
    PROVE  FreshInv'
<1>1. pc = "run" /\ pc' = "release" /\ UNCHANGED <<forkqueue, current>>
  BY DEF Work
<1>2. current \in Pids /\ current \notin F /\ F \subseteq Pids
  BY <1>1, ListsHoldPids DEF BasicInv, Runs, PlaceInv, CurrentApart
<1>3. \A h \in ToSet(holding[current]) : h.duration > 0
  BY <1>1, <1>2 DEF BasicInv, Counting
<1>4. /\ age'[current] = age[current] + 1
      /\ \A o \in Pids \ {current} : age'[o] = age[o] /\ holding'[o] = holding[o]
      /\ DOMAIN holding'[current] = DOMAIN holding[current]
      /\ \A i \in DOMAIN holding[current] : holding'[current][i].at = holding[current][i].at
  BY <1>3, WorkEffects DEF BasicInv
<1>5. Newborn'
  BY <1>1, <1>2, <1>4 DEF FreshInv, Newborn, F
<1>6. \A i \in DOMAIN holding[current] :
         holding[current][i].at \in Nat /\ holding[current][i].at <= age[current]
  BY <1>2, HeldFacts DEF BasicInv, RequestInv, Granted, ToSet
<1>7. age[current] \in Nat
  BY <1>2, HeldFacts DEF BasicInv
<1>8. Used'
  BY <1>1, <1>4, <1>6, <1>7 DEF Used, ToSet
<1> QED
  BY <1>5, <1>8 DEF FreshInv

LEMMA ReleaseIsFresh ==
    ASSUME TypeOK, Runs, PlaceInv, FreshInv, AnyRelease
    PROVE  FreshInv'
<1>1. pc = "release" /\ UNCHANGED <<forkqueue, current, age>>
  BY DEF AnyRelease
<1>2. /\ \A p \in Pids \ {current} : holding'[p] = holding[p]
      /\ ToSet(holding'[current]) \subseteq ToSet(holding[current])
  BY ReleaseEffects
<1>3. current \notin F /\ F \subseteq Pids
  BY <1>1, ListsHoldPids DEF PlaceInv, CurrentApart
<1> QED
  BY <1>1, <1>2, <1>3 DEF FreshInv, Newborn, Used, F

LEMMA OtherIsFresh ==
    ASSUME TypeOK, FreshInv,
           Fork \/ (ScheduleStep /\ Choice) \/ Switch \/ AnyRefusal \/ NextTick
           \/ UNCHANGED draftVars
    PROVE  FreshInv'
<1>1. UNCHANGED <<age, holding>> /\ F' \subseteq F
  <2>1. CASE Fork
    BY <2>1, ForkCases, ForkEffects DEF ForkRound, F
  <2>2. CASE ScheduleStep \/ Switch \/ AnyRefusal \/ NextTick \/ UNCHANGED draftVars
    BY <2>2, SwitchCases DEF ScheduleStep, AnyRefusal, NextTick, draftVars, schedVars, F
  <2> QED
    BY <2>1, <2>2
<1>2. Newborn'
  BY <1>1 DEF FreshInv, Newborn
<1>3. Used'
  <2>1. CASE UNCHANGED draftVars
    BY <2>1 DEF FreshInv, Used, draftVars, schedVars
  <2>2. pc' # "release" \/ UNCHANGED draftVars
    BY ForkCases, ScheduleEffects, SwitchCases
       DEF ForkRound, Ends, AnyRefusal, NextTick, EndTick
  <2> QED
    BY <2>1, <2>2 DEF Used
<1> QED
  BY <1>2, <1>3 DEF FreshInv

LEMMA FreshStep ==
    ASSUME BasicInv, PlaceInv, RequestInv, FreshInv, [DraftNext]_draftVars
    PROVE  FreshInv'
<1>1. AnyNext \/ UNCHANGED draftVars
  BY StepsAreAny DEF BasicInv
<1> QED
  BY <1>1, GrantIsFresh, WorkIsFresh, ReleaseIsFresh, OtherIsFresh DEF AnyNext, BasicInv

LEMMA FreshAlways == DraftSpec => []FreshInv
<1>1. DraftInit => FreshInv
  BY FreshInit
<1>2. BasicInv /\ PlaceInv /\ RequestInv /\ FreshInv /\ [DraftNext]_draftVars => FreshInv'
  BY FreshStep
<1> QED
  BY <1>1, <1>2, BasicAlways, PlaceAlways, RequestAlways, PTL DEF DraftSpec

(* Who asks for a resource and holds one has two requests that overlap.    *)
LEMMA AskersOverlap ==
    ASSUME BasicInv, RequestInv, NEW p \in Pids, Pending(p) # {},
           p = current => pc \notin {"release", "assert"},
           NEW h \in ToSet(holding[p])
    PROVE  \E g \in Asks(p) : /\ NextRequest(p) \in Asks(p)
                              /\ NextRequest(p) # g /\ g.id = h.id
                              /\ Overlap(NextRequest(p), g)
<1> DEFINE q == NextRequest(p)
<1>1. q \in ToSet(toAcquire[p]) /\ q.at = age[p]
  BY NextIsAsked DEF BasicInv
<1>2. q \in Asks(p)
  BY <1>1 DEF BasicInv, ToDo
<1>3. q.at \in Nat /\ q.duration \in Nat /\ q.duration > 0
  BY <1>2, ScriptFacts, HeldFacts DEF BasicInv
<1>4. PICK g \in Asks(p) : g \notin ToSet(toAcquire[p]) /\ Matches(p, h, g) /\ h.at <= age[p]
  BY DEF RequestInv, Granted
<1>5. g.at \in Nat /\ g.duration \in Nat /\ h.duration \in Nat /\ age[p] \in Nat
  BY HeldFacts DEF BasicInv
<1>6. h.duration > 0
  BY DEF BasicInv, Counting
<1> HIDE DEF q
<1>7. Overlap(q, g)
  BY <1>1, <1>3, <1>4, <1>5, <1>6 DEF Overlap, Matches
<1>8. q # g
  BY <1>1, <1>4
<1> QED
  BY <1>2, <1>4, <1>7, <1>8 DEF Matches, q

(* Two requests a process is served at the same time overlap.              *)
LEMMA HeldOverlap ==
    ASSUME BasicInv, RequestInv, FreshInv, pc = "release",
           NEW h \in ToSet(holding[current]), NEW k \in ToSet(holding[current]), Simple
    PROVE  h = k
<1>1. current \in Pids
  BY DEF BasicInv, Runs
<1>2. PICK q \in Asks(current) : Matches(current, h, q)
  BY <1>1 DEF RequestInv, Granted
<1>3. PICK g \in Asks(current) : Matches(current, k, g)
  BY <1>1 DEF RequestInv, Granted
<1>4. h.at < age[current] /\ k.at < age[current]
  BY DEF FreshInv, Used
<1>5. /\ q.at \in Nat /\ q.duration \in Nat /\ g.at \in Nat /\ g.duration \in Nat
      /\ h.duration \in Nat /\ k.duration \in Nat /\ age[current] \in Nat
  BY <1>1, HeldFacts DEF BasicInv
<1>6. Overlap(q, g)
  BY <1>2, <1>3, <1>4, <1>5 DEF Overlap, Matches
<1>7. q = g
  BY <1>1, <1>6 DEF Simple
<1> QED
  BY <1>1, <1>2, <1>3, <1>7 DEF RequestInv, Owned, Matches

LEMMA SimpleMeans ==
    ASSUME Simple
    PROVE  NoneBlocksItself
BY DEF Simple, NoneBlocksItself

(* What an owner holds is one of its requests: it has time.                *)
LEMMA OwnersAsked ==
    ASSUME BasicInv, RequestInv, NEW r \in Resources, NEW p \in Pids, owner[r] = p
    PROVE  /\ \E h \in ToSet(holding[p]) : h.id = r
           /\ \E q \in Asks(p) : q.id = r
           /\ NoneDiesHolding => ~Lifeless(p)
<1>1. PICK h \in ToSet(holding[p]) : h.id = r
  BY DEF RequestInv, OwnersHold
<1>2. PICK q \in Asks(p) : Matches(p, h, q)
  BY DEF RequestInv, Granted
<1> QED
  BY <1>1, <1>2 DEF Matches, NoneDiesHolding

(* Who asks for one resource at a time has none when it asks, and gives    *)
(* back all it has when it gives back something.                           *)
LEMMA AskersOwnNothing ==
    ASSUME BasicInv, RequestInv, Simple, NEW p \in Pids, Pending(p) # {},
           p = current => pc \notin {"release", "assert"}
    PROVE  \A r \in Resources : owner[r] # p
<1>1. SUFFICES ASSUME NEW r \in Resources, owner[r] = p
               PROVE  FALSE
  OBVIOUS
<1>2. PICK h \in ToSet(holding[p]) : h.id = r
  BY <1>1, OwnersAsked
<1>3. \E g \in Asks(p) : /\ NextRequest(p) \in Asks(p) /\ NextRequest(p) # g
                         /\ Overlap(NextRequest(p), g)
  BY AskersOverlap
<1> QED
  BY <1>3 DEF Simple

LEMMA NothingIsKept ==
    ASSUME BasicInv, RequestInv, FreshInv, Simple, AnyRelease
    PROVE  \A r \in Resources : owner'[r] # current
<1>1. pc = "release" /\ RequestInv'
  BY ReleaseRequests DEF AnyRelease
<1>2. PICK h \in ToSet(holding[current]) :
          /\ current \in Pids
          /\ IsInjective(holding[current]) =>
                ToSet(holding'[current]) = ToSet(holding[current]) \ {h}
  BY ReleaseEffects DEF BasicInv
<1>3. \A k \in ToSet(holding[current]) : k = h
  BY <1>1, HeldOverlap
<1>4. ToSet(holding'[current]) = {}
  BY <1>2, <1>3 DEF RequestInv, Owned
<1>5. PICK p \in Pids : p = current
  BY <1>2
<1>6. \A r \in Resources : owner'[r] = p => \E k \in ToSet(holding'[p]) : k.id = r
  BY <1>1 DEF RequestInv, OwnersHold
<1> QED
  BY <1>4, <1>5, <1>6

(* A refusal takes two processes that want the resource, unless somebody   *)
(* blocks itself.                                                          *)
LEMMA RefusalMeans ==
    ASSUME BasicInv, RequestInv, NoneBlocksItself, AnyRefusal
    PROVE  /\ owner[Asked] \in Pids \ {current}
           /\ Asked \in Wants(current) \cap Wants(owner[Asked])
<1>1. /\ pc = "run" /\ Pending(current) # {} /\ current \in Pids /\ Asked \in Resources
      /\ owner[Asked] \in Pids /\ NextRequest(current).id = Asked
      /\ NextRequest(current) \in ToSet(toAcquire[current])
  BY RefusalEffects DEF AnyRefusal, BasicInv
<1>2. NextRequest(current) \in Asks(current)
  BY <1>1 DEF BasicInv, ToDo
<1>3. owner[Asked] # current
  <2>1. SUFFICES ASSUME owner[Asked] = current
                 PROVE  FALSE
    OBVIOUS
  <2>2. PICK h \in ToSet(holding[current]) : h.id = Asked
    BY <1>1, <2>1 DEF RequestInv, OwnersHold
  <2>3. PICK g \in Asks(current) : /\ NextRequest(current) # g /\ g.id = Asked
                                   /\ Overlap(NextRequest(current), g)
    BY <1>1, <2>2, AskersOverlap
  <2> QED
    BY <1>1, <1>2, <2>3 DEF NoneBlocksItself
<1>4. \E q \in Asks(owner[Asked]) : q.id = Asked
  BY <1>1, OwnersAsked
<1> QED
  BY <1>1, <1>2, <1>3, <1>4 DEF Wants

-----------------------------------------------------------------------------
(* Scripts and policies with which nobody ever has to wait. fifo and sjf   *)
(* keep an owner running until it exits, pcp until it gives back what it   *)
(* has, as its priority is above all others; and where no resource is      *)
(* wanted by two processes nobody is in anybody's way.                     *)

Serial == policy \in {"fifo", "sjf"} \/ (policy = "try_sjf" /\ Remembers)
Ceiled == policy \in {"pcp", "pcp_pcp"} /\ Simple
Undisturbed == NoneDiesHolding /\ NoneBlocksItself /\ (Serial \/ (Ceiled /\ BelowCeiling))

NobodyWaits ==
    /\ \A r \in Resources : W(r) = {}
    /\ \A p \in Pids : status[p] # "wait"
OwnersRun ==
    \A r \in Resources : \/ owner[r] \in {NoProcess, current}
                         \/ pc = "switch" /\ owner[r] = prev /\ Finished
OneHalfDone == \A p \in Pids : age[p] > 0 /\ Unfinished(p) => p = current
Owns(p) == \E r \in Resources : owner[r] = p
Boosted == \A p \in Pids : prio[p] = IF Owns(p) THEN MaxPrio ELSE script[p].prio

QuietInv ==
    /\ Undisturbed \/ Uncontended => NobodyWaits
    /\ Undisturbed /\ pc \notin Faults => OwnersRun
    /\ Undisturbed /\ Serial => OneHalfDone
    /\ Ceiled => Boosted

(* What a run assumes of its policy and its script stays as it is.         *)
LEMMA CasesStay ==
    ASSUME UNCHANGED <<policy, script>>
    PROVE  /\ Undisturbed' = Undisturbed /\ Uncontended' = Uncontended
           /\ Serial' = Serial /\ Ceiled' = Ceiled
BY DEF Undisturbed, Uncontended, Serial, Ceiled, Remembers, Simple, NoneDiesHolding,
       NoneBlocksItself, BelowCeiling, Lifeless, Wants, Asks

LEMMA QuietInit ==
    ASSUME DraftInit
    PROVE  QuietInv
<1>1. /\ pc = "fork" /\ current = NoProcess
      /\ waitqueue = [r \in Resources |-> <<>>] /\ owner = [r \in Resources |-> NoProcess]
      /\ status = [p \in Pids |-> "ready"] /\ age = [p \in Pids |-> 0]
      /\ prio = [p \in Pids |-> script[p].prio]
  BY DEF DraftInit, Load
<1>2. NobodyWaits
  BY <1>1 DEF NobodyWaits, W, ToSet
<1>3. OwnersRun /\ OneHalfDone
  BY <1>1 DEF OwnersRun, OneHalfDone
<1>4. Boosted
  BY <1>1 DEF Boosted, Owns, NoProcess, Pids
<1> QED
  BY <1>2, <1>3, <1>4 DEF QuietInv

(* Nobody is refused a resource.                                           *)
LEMMA NobodyIsRefused ==
    ASSUME BasicInv, RequestInv, QuietInv, Undisturbed \/ Uncontended
    PROVE  ~AnyRefusal
<1>1. SUFFICES ASSUME AnyRefusal
               PROVE  FALSE
  OBVIOUS
<1>2. pc = "run" /\ current \in Pids /\ Asked \in Resources
  BY <1>1, RefusalEffects DEF AnyRefusal, BasicInv
<1>3. /\ owner[Asked] \in Pids \ {current}
      /\ Asked \in Wants(current) \cap Wants(owner[Asked])
  BY <1>1, RefusalMeans DEF Undisturbed, Uncontended
<1>4. CASE Undisturbed
  BY <1>2, <1>3, <1>4 DEF QuietInv, OwnersRun, Faults, NoProcess, Pids
<1>5. CASE Uncontended
  BY <1>2, <1>3, <1>5 DEF Uncontended
<1> QED
  BY <1>4, <1>5

(* Only a process that is done gives way, and one with the priority of the *)
(* ceiling is chosen again.                                                *)
LEMMA OwnersGoOn ==
    ASSUME BasicInv, RequestInv, PlaceInv, LifeInv, StandInv, QuietInv, Undisturbed,
           ScheduleStep, pc' = "switch", Keeps \/ Picks \/ Idles \/ GoesBack,
           NEW r \in Resources, owner[r] = current, current \in Pids
    PROVE  current' = current \/ (prev' = current /\ Finished')
<1>1. /\ pc = "schedule" /\ prev' = current
      /\ UNCHANGED <<script, age>>
  BY DEF ScheduleStep
<1>2. /\ current # NoProcess /\ ~Blocked /\ ~Lifeless(current)
      /\ script[current].lifespan \in Nat /\ age[current] \in Nat
  BY OwnersAsked, ScriptFacts, HeldFacts
     DEF BasicInv, QuietInv, NobodyWaits, Blocked, Undisturbed, NoProcess, Pids
<1>3. CASE Gives
  <2>1. ~Unfinished(current)
    <3>1. CASE policy = "try_sjf"
      <4>1. Remembers
        BY <3>1 DEF Undisturbed, Serial, Ceiled
      <4>2. script[current].lifespan = 1
        BY <3>1, <4>1 DEF Remembers
      <4>3. age[current] > 0
        BY <1>1, <1>2 DEF StandInv, Ran, Tried, Blocked, Faults
      <4> QED
        BY <1>2, <4>2, <4>3 DEF Unfinished
    <3>2. CASE policy # "try_sjf"
      BY <1>2, <1>3, <3>2 DEF Gives, HasTime
    <3> QED
      BY <3>1, <3>2
  <2>2. age[current] = script[current].lifespan
    BY <1>2, <2>1 DEF LifeInv, Aging, Unfinished
  <2> QED
    BY <1>1, <1>2, <2>2 DEF Finished
<1>4. CASE GoesBack
  <2> DEFINE q == Append(readyqueue, current)
  <2>1. policy \in {"pcp", "pcp_pcp"} /\ Ceiled /\ BelowCeiling
    BY <1>4 DEF GoesBack, Yields, PutsBack, Undisturbed, Serial, Ceiled
  <2>2. current' = Highest(q) /\ current' \in R \cup {current}
    BY <1>4, <2>1 DEF GoesBack, InTurn, First, R
  <2>3. q \in Seq(Pids) /\ q # <<>> /\ ToSet(q) = R \cup {current}
    BY QueuesWithCurrent DEF BasicInv, R
  <2> HIDE DEF q
  <2>4. prio[current] <= prio[current']
    BY <2>2, <2>3, SearchesFind DEF BasicInv
  <2>5. Boosted /\ prio[current] = MaxPrio
    BY <2>1 DEF QuietInv, Boosted, Owns
  <2>6. SUFFICES ASSUME current' # current
                 PROVE  FALSE
    OBVIOUS
  <2>7. current' \in R /\ current' \in Pids
    BY <2>2, <2>6, ListsHoldPids DEF BasicInv
  <2>8. PICK p \in Pids : p = current'
    BY <2>7
  <2>9. ~Owns(p)
    <3>1. OwnersRun
      BY <1>1 DEF QuietInv, Faults
    <3> QED
      BY <1>1, <2>6, <2>8, <3>1 DEF OwnersRun, Owns, NoProcess, Pids
  <2>10. prio[p] = script[p].prio /\ script[p].prio < MaxPrio /\ script[p].prio \in Nat
    BY <2>1, <2>5, <2>9, ScriptFacts DEF Boosted, BelowCeiling, BasicInv
  <2> QED
    BY <2>4, <2>5, <2>8, <2>10 DEF MaxPrio
<1> QED
  BY <1>3, <1>4 DEF Keeps, Picks, Idles

LEMMA ScheduleIsQuiet ==
    ASSUME BasicInv, RequestInv, PlaceInv, LifeInv, StandInv, QuietInv, ScheduleStep, Choice
    PROVE  QuietInv'
<1>1. /\ pc = "schedule"
      /\ UNCHANGED <<policy, script, waitqueue, owner, status, age, prio>>
  BY DEF ScheduleStep
<1>2. /\ Undisturbed' = Undisturbed /\ Uncontended' = Uncontended
      /\ Serial' = Serial /\ Ceiled' = Ceiled
  BY <1>1, CasesStay
<1>3. /\ Undisturbed \/ Uncontended => NobodyWaits'
      /\ Ceiled => Boosted'
  BY <1>1 DEF QuietInv, NobodyWaits, Boosted, Owns, W
<1>4. Ends
  BY ScheduleEffects DEF BasicInv
<1>5. ASSUME Undisturbed, pc' \notin Faults
      PROVE  OwnersRun'
  <2>1. pc' = "switch" /\ (Keeps \/ Picks \/ Idles \/ GoesBack)
    BY <1>4, <1>5 DEF Ends, Faults
  <2>2. OwnersRun
    BY <1>1, <1>5 DEF QuietInv, Faults
  <2>3. SUFFICES ASSUME NEW r \in Resources, owner[r] # NoProcess
                 PROVE  owner[r] = current' \/ (owner[r] = prev' /\ Finished')
    BY <1>1, <2>1 DEF OwnersRun
  <2>4. owner[r] = current /\ current \in Pids
    BY <1>1, <2>2, <2>3 DEF OwnersRun, BasicInv, TypeOK
  <2> QED
    BY <1>5, <2>1, <2>4, OwnersGoOn
<1>6. ASSUME Undisturbed, Serial
      PROVE  OneHalfDone'
  <2>1. SUFFICES ASSUME NEW p \in Pids, age[p] > 0, Unfinished(p)
                 PROVE  p = current'
    BY <1>1 DEF OneHalfDone, Unfinished
  <2>2. p = current /\ current # NoProcess /\ ~Blocked
    BY <1>6, <2>1 DEF QuietInv, OneHalfDone, NobodyWaits, Blocked, NoProcess, Pids
  <2>3. ~Gives
    <3>1. CASE policy = "try_sjf"
      <4>1. script[p].lifespan = 1 /\ age[p] \in Nat
        BY <1>6, <3>1, HeldFacts DEF Undisturbed, Serial, Remembers, BasicInv
      <4> QED
        BY <2>1, <4>1 DEF Unfinished
    <3>2. CASE policy # "try_sjf"
      BY <2>1, <2>2, <3>2 DEF Gives, HasTime
    <3> QED
      BY <3>1, <3>2
  <2>4. ~GoesBack
    BY <1>6 DEF GoesBack, Yields, PutsBack, Serial
  <2> QED
    BY <1>4, <2>2, <2>3, <2>4 DEF Ends, Keeps, Picks, Idles
<1> QED
  BY <1>2, <1>3, <1>5, <1>6 DEF QuietInv

LEMMA SwitchIsQuiet ==
    ASSUME BasicInv, RequestInv, QuietInv, Switch
    PROVE  QuietInv'
<1>1. /\ pc = "switch" /\ prev' = NoProcess
      /\ UNCHANGED <<policy, script, current, waitqueue, owner, age, prio, holding>>
      /\ pc' \in Faults \/ (Finished => ExitAsserts)
      /\ \/ UNCHANGED status
         \/ status' = Retired
         \/ current \in Pids /\ status' = [Retired EXCEPT ![current] = "running"]
  BY SwitchCases DEF BasicInv, Faults
<1>2. /\ Undisturbed' = Undisturbed /\ Uncontended' = Uncontended
      /\ Serial' = Serial /\ Ceiled' = Ceiled
  BY <1>1, CasesStay
<1>3. ASSUME NobodyWaits
      PROVE  NobodyWaits'
  <2>1. \A p \in Pids : status[p] # "wait" => Retired[p] # "wait"
    BY DEF Retired
  <2>2. \A p \in Pids : status'[p] # "wait"
    <3>1. Retired \in [Pids -> Statuses]
      BY RetiredFacts DEF BasicInv
    <3>2. \A p \in Pids : \/ status'[p] = status[p] \/ status'[p] = Retired[p]
                          \/ status'[p] = "running"
      BY <1>1, <3>1
    <3> QED
      BY <1>3, <2>1, <3>2 DEF NobodyWaits
  <2> QED
    BY <1>1, <1>3, <2>2 DEF NobodyWaits, W
<1>4. /\ Ceiled => Boosted'
      /\ Undisturbed /\ Serial => OneHalfDone'
  BY <1>1 DEF QuietInv, Boosted, Owns, OneHalfDone, Unfinished
<1>5. ASSUME Undisturbed, pc' \notin Faults
      PROVE  OwnersRun'
  <2>1. OwnersRun /\ (Finished => ExitAsserts)
    BY <1>1, <1>5 DEF QuietInv, Faults
  <2>2. SUFFICES ASSUME NEW r \in Resources, owner[r] = prev, Finished
                 PROVE  FALSE
    BY <1>1, <2>1 DEF OwnersRun
  <2>3. prev \in Pids /\ holding[prev] = <<>>
    BY <2>1, <2>2 DEF Finished, ExitAsserts, BasicInv, TypeOK
  <2> QED
    BY <2>2, <2>3, OwnersAsked DEF ToSet
<1> QED
  BY <1>2, <1>3, <1>4, <1>5 DEF QuietInv

LEMMA GrantIsQuiet ==
    ASSUME BasicInv, QuietInv, AnyGrant
    PROVE  QuietInv'
<1>1. /\ pc = "run" /\ pc' = pc /\ prio' = Granting
      /\ owner' = [owner EXCEPT ![Asked] = current]
      /\ UNCHANGED <<policy, script, current, waitqueue, status, age>>
  BY DEF AnyGrant
<1>2. /\ Undisturbed' = Undisturbed /\ Uncontended' = Uncontended
      /\ Serial' = Serial /\ Ceiled' = Ceiled
  BY <1>1, CasesStay
<1>3. current \in Pids /\ Asked \in Resources /\ owner[Asked] = NoProcess
  BY GrantEffects DEF BasicInv
<1>4. /\ owner \in [Resources -> Pids \cup {NoProcess}] /\ prio \in [Pids -> Nat]
  BY DEF BasicInv, TypeOK
<1>5. owner'[Asked] = current /\ \A r \in Resources \ {Asked} : owner'[r] = owner[r]
  BY <1>1, <1>3, <1>4
<1>6. /\ Undisturbed \/ Uncontended => NobodyWaits'
      /\ Undisturbed /\ Serial => OneHalfDone'
  BY <1>1 DEF QuietInv, NobodyWaits, OneHalfDone, W, Unfinished
<1>7. Undisturbed => OwnersRun'
  BY <1>1, <1>5 DEF QuietInv, OwnersRun, Faults
<1>8. Ceiled => Boosted'
  <2>1. Owns(current)' /\ \A p \in Pids \ {current} : Owns(p)' <=> Owns(p)
    BY <1>1, <1>3, <1>5 DEF Owns, NoProcess, Pids
  <2>2. SUFFICES ASSUME Ceiled
                 PROVE  Boosted'
    OBVIOUS
  <2>3. prio' = [prio EXCEPT ![current] = MaxPrio] /\ Boosted
    BY <1>1, <2>2 DEF Granting, Ceiled, QuietInv
  <2>4. prio'[current] = MaxPrio /\ \A p \in Pids \ {current} : prio'[p] = prio[p]
    BY <1>3, <1>4, <2>3
  <2> QED
    BY <1>1, <2>1, <2>3, <2>4 DEF Boosted
<1> QED
  BY <1>1, <1>2, <1>6, <1>7, <1>8 DEF QuietInv

LEMMA RefusalIsQuiet ==
    ASSUME BasicInv, RequestInv, QuietInv, AnyRefusal
    PROVE  QuietInv'
<1>1. prio' = Lending /\ UNCHANGED <<policy, script, owner>>
  BY DEF AnyRefusal
<1>2. ~Undisturbed' /\ ~Uncontended' /\ Ceiled' = Ceiled
  BY <1>1, CasesStay, NobodyIsRefused
<1>3. Ceiled => Boosted'
  BY <1>1 DEF Lending, Ceiled, QuietInv, Boosted, Owns
<1> QED
  BY <1>2, <1>3 DEF QuietInv

LEMMA WorkIsQuiet ==
    ASSUME BasicInv, QuietInv, Work
    PROVE  QuietInv'
<1>1. /\ pc = "run" /\ pc' = "release"
      /\ UNCHANGED <<policy, script, current, waitqueue, owner, status, prio>>
      /\ age' = [age EXCEPT ![current] = @ + 1]
  BY DEF Work
<1>2. /\ Undisturbed' = Undisturbed /\ Uncontended' = Uncontended
      /\ Serial' = Serial /\ Ceiled' = Ceiled
  BY <1>1, CasesStay
<1>3. /\ Undisturbed \/ Uncontended => NobodyWaits'
      /\ Undisturbed => OwnersRun'
      /\ Ceiled => Boosted'
  BY <1>1 DEF QuietInv, NobodyWaits, OwnersRun, Boosted, Owns, W, Faults
<1>4. \A p \in Pids \ {current} : age'[p] = age[p]
  BY <1>1 DEF BasicInv, TypeOK
<1>5. Undisturbed /\ Serial => OneHalfDone'
  BY <1>1, <1>4 DEF QuietInv, OneHalfDone, Unfinished
<1> QED
  BY <1>2, <1>3, <1>5 DEF QuietInv

LEMMA ReleaseIsQuiet ==
    ASSUME BasicInv, PlaceInv, RequestInv, FreshInv, QuietInv, AnyRelease
    PROVE  QuietInv'
<1>1. /\ pc = "release" /\ prio' = Restoring
      /\ UNCHANGED <<policy, script, current, age>>
  BY DEF AnyRelease
<1>2. /\ Undisturbed' = Undisturbed /\ Uncontended' = Uncontended
      /\ Serial' = Serial /\ Ceiled' = Ceiled
  BY <1>1, CasesStay
<1>3. pc' = "release" /\ RequestInv' /\ BasicInv'
  BY ReleaseRequests, ReleaseGoes, ReleaseBasic
<1>4. PICK h \in ToSet(holding[current]) :
          /\ current \in Pids /\ Released \in Resources
          /\ ToSet(holding'[current]) \subseteq ToSet(holding[current])
          /\ IsInjective(holding[current]) =>
                ToSet(holding'[current]) = ToSet(holding[current]) \ {h}
          /\ owner'[Released] = NoProcess
          /\ \A r \in Resources \ {Released} : owner'[r] = owner[r]
  BY ReleaseEffects DEF BasicInv
<1>5. ASSUME NobodyWaits
      PROVE  NobodyWaits'
  <2>1. UNCHANGED <<waitqueue, status>>
    BY <1>4, <1>5, WakeEffects DEF BasicInv, WakesProcess, NobodyWaits, W
  <2> QED
    BY <1>5, <2>1 DEF NobodyWaits, W
<1>6. /\ Undisturbed => OwnersRun'
      /\ Undisturbed /\ Serial => OneHalfDone'
  BY <1>1, <1>3, <1>4 DEF QuietInv, OwnersRun, OneHalfDone, Unfinished, Faults
<1>7. Ceiled => Boosted'
  <2>1. SUFFICES ASSUME Ceiled
                 PROVE  Boosted'
    OBVIOUS
  <2>3. ~Owns(current)'
    BY <1>1, <2>1, NothingIsKept DEF Ceiled, Owns
  <2>4. \A p \in Pids \ {current} : Owns(p)' <=> Owns(p)
    <3>1. owner[Released] = current
      BY <1>3, <1>4, ReleaseEffects DEF BasicInv
    <3> QED
      BY <1>4, <3>1 DEF Owns, NoProcess, Pids
  <2>5. prio' = [prio EXCEPT ![current] = script[current].prio]
    BY <1>1, <2>1 DEF Restoring, Fcfs, Ceiled
  <2>6. prio'[current] = script[current].prio /\ \A p \in Pids \ {current} : prio'[p] = prio[p]
    BY <1>4, <2>5 DEF BasicInv, TypeOK
  <2>7. Boosted
    BY <2>1 DEF QuietInv
  <2>8. SUFFICES ASSUME NEW p \in Pids
                 PROVE  prio'[p] = IF Owns(p)' THEN MaxPrio ELSE script[p].prio
    BY <1>1 DEF Boosted
  <2> QED
    BY <1>1, <2>3, <2>4, <2>6, <2>7 DEF Boosted
<1> QED
  BY <1>2, <1>5, <1>6, <1>7 DEF QuietInv

LEMMA OtherIsQuiet ==
    ASSUME TypeOK, QuietInv, Fork \/ NextTick \/ UNCHANGED draftVars
    PROVE  QuietInv'
<1>1. /\ UNCHANGED <<policy, script, current, waitqueue, owner, status, age, prio>>
      /\ UNCHANGED <<pc, prev>> \/ (pc \in {"fork", "release"} /\ pc' # "switch")
  BY ForkCases DEF ForkRound, NextTick, EndTick, draftVars, schedVars
<1>2. /\ Undisturbed' = Undisturbed /\ Uncontended' = Uncontended
      /\ Serial' = Serial /\ Ceiled' = Ceiled
  BY <1>1, CasesStay
<1>3. /\ NobodyWaits' = NobodyWaits /\ OneHalfDone' = OneHalfDone /\ Boosted' = Boosted
  BY <1>1 DEF NobodyWaits, OneHalfDone, Boosted, Owns, W, Unfinished
<1>4. pc' \notin Faults /\ OwnersRun => OwnersRun'
  BY <1>1 DEF OwnersRun, Finished, Faults
<1>5. pc' \notin Faults => pc \notin Faults
  BY <1>1 DEF Faults
<1> QED
  BY <1>2, <1>3, <1>4, <1>5 DEF QuietInv

LEMMA QuietStep ==
    ASSUME BasicInv, PlaceInv, RequestInv, LifeInv, StandInv, FreshInv, QuietInv,
           [DraftNext]_draftVars
    PROVE  QuietInv'
<1>1. AnyNext \/ UNCHANGED draftVars
  BY StepsAreAny DEF BasicInv
<1> QED
  BY <1>1, ScheduleIsQuiet, SwitchIsQuiet, GrantIsQuiet, RefusalIsQuiet, WorkIsQuiet,
     ReleaseIsQuiet, OtherIsQuiet DEF AnyNext, BasicInv

LEMMA QuietAlways == DraftSpec => []QuietInv
<1>1. DraftInit => QuietInv
  BY QuietInit
<1>2. /\ BasicInv /\ PlaceInv /\ RequestInv /\ LifeInv /\ StandInv /\ FreshInv /\ QuietInv
      /\ [DraftNext]_draftVars
      => QuietInv'
  BY QuietStep
<1> QED
  BY <1>1, <1>2, BasicAlways, PlaceAlways, RequestAlways, LifeAlways, StandAlways, FreshAlways,
     PTL DEF DraftSpec

(* fifo and sjf never leave two processes half done: whatever they hold    *)
(* and however long they live, they run one after the other.               *)
THEOREM RunsToCompletionAlways == DraftSpec => []RunsToCompletion
<1>1. QuietInv => RunsToCompletion
  <2>1. SUFFICES ASSUME QuietInv, policy \in {"fifo", "sjf"}, NoneDiesHolding, NoneBlocksItself,
                        NEW p \in Pids, NEW q \in Pids,
                        age[p] > 0, Unfinished(p), age[q] > 0, Unfinished(q)
                 PROVE  p = q
    BY DEF RunsToCompletion
  <2>2. Undisturbed /\ Serial
    BY <2>1 DEF Undisturbed, Serial
  <2> QED
    BY <2>1, <2>2 DEF QuietInv, OneHalfDone
<1> QED
  BY <1>1, QuietAlways, PTL

(* fifo and sjf never take the processor from an owner, and the ceiling    *)
(* of pcp keeps it running: nobody ever waits.                             *)
THEOREM OnlyPreemptionBlocksAlways == DraftSpec => []OnlyPreemptionBlocks
<1>1. QuietInv => OnlyPreemptionBlocks
  BY DEF OnlyPreemptionBlocks, QuietInv, Undisturbed, Serial, Ceiled, NobodyWaits
<1> QED
  BY <1>1, QuietAlways, PTL

-----------------------------------------------------------------------------
(* Priority inheritance. While nobody asks for a resource with another one *)
(* in its hands, an owner has the priorities of all that wait for it, the  *)
(* process a release has woken has that of all behind it, and who runs has *)
(* that of all that could.                                                 *)

Runnable(p) == p \in R \/ (pc \in {"switch", "run"} /\ p = current)
Lent == \A r \in Resources : \A p \in W(r) : owner[r] # NoProcess => prio[p] <= prio[owner[r]]
Heirs ==
    \A r \in Resources :
        owner[r] = NoProcess /\ W(r) # {} =>
            \E w \in Pids : Runnable(w) /\ AsksNext(w, r) /\ \A p \in W(r) : prio[p] <= prio[w]
RunsFirst ==
    pc \in {"switch", "run"} /\ current # NoProcess => \A p \in R : prio[p] <= prio[current]
Inherits == policy = "pip" /\ Simple /\ NoneDiesHolding
LendInv == Inherits /\ pc \notin Faults => Lent /\ Heirs /\ RunsFirst

LEMMA InheritsStays ==
    ASSUME UNCHANGED <<policy, script>>
    PROVE  Inherits' = Inherits
BY DEF Inherits, Simple, NoneDiesHolding, Lifeless, Asks

LEMMA LendInit ==
    ASSUME DraftInit
    PROVE  LendInv
BY DEF DraftInit, Load, LendInv, Lent, Heirs, RunsFirst, W, ToSet

(* A step that moves no resource and changes no priority or request: those *)
(* that may run are still there.                                           *)
LEMMA QuietLends ==
    ASSUME LendInv, UNCHANGED <<policy, script, waitqueue, owner, age, prio, toAcquire>>,
           pc \notin Faults,
           \A p \in Pids : Inherits /\ Runnable(p) => Runnable(p)',
           Inherits => RunsFirst'
    PROVE  LendInv'
<1>1. SUFFICES ASSUME Inherits
               PROVE  Lent' /\ Heirs' /\ RunsFirst'
  BY InheritsStays DEF LendInv
<1>2. Lent /\ Heirs
  BY <1>1 DEF LendInv
<1>3. \A r : W(r)' = W(r)
  BY DEF W
<1>4. Lent'
  BY <1>2, <1>3 DEF Lent
<1>5. \A p, r : AsksNext(p, r)' <=> AsksNext(p, r)
  BY AsksTheSame
<1>6. Heirs'
  BY <1>1, <1>2, <1>3, <1>5 DEF Heirs
<1> QED
  BY <1>1, <1>4, <1>6

LEMMA ForkLends ==
    ASSUME TypeOK, LendInv, Fork
    PROVE  LendInv'
<1>1. /\ pc = "fork" /\ pc' \in {"fork", "schedule"}
      /\ UNCHANGED <<policy, script, waitqueue, owner, age, prio, toAcquire>>
  BY ForkCases DEF ForkRound
<1>2. R \subseteq R'
  BY ForkCases, ForkEffects DEF R
<1> QED
  BY <1>1, <1>2, QuietLends DEF Runnable, RunsFirst, Faults

LEMMA ScheduleLends ==
    ASSUME TypeOK, LendInv, ScheduleStep, Choice
    PROVE  LendInv'
<1>1. /\ pc = "schedule"
      /\ UNCHANGED <<policy, script, waitqueue, owner, age, prio, toAcquire>>
  BY DEF ScheduleStep
<1>2. SUFFICES ASSUME pc' \notin Faults
               PROVE  LendInv'
  BY DEF LendInv
<1>3. pc' = "switch" /\ (Keeps \/ Picks \/ Idles \/ GoesBack)
  BY <1>2, ScheduleEffects DEF Ends, Faults
<1>4. R \subseteq R' \cup {current'}
  BY <1>3 DEF Keeps, Picks, Idles, GoesBack, R, ToSet
<1>5. \A p \in Pids : Runnable(p) => Runnable(p)'
  BY <1>1, <1>3, <1>4 DEF Runnable
<1>6. Inherits => RunsFirst'
  <2>1. SUFFICES ASSUME policy = "pip", NEW p \in R'
                 PROVE  prio[p] <= prio[current']
    BY <1>1 DEF Inherits, RunsFirst
  <2>2. InTurn /\ \A q : First(q) = Highest(q)
    BY <2>1 DEF InTurn, First
  <2>3. CASE Keeps \/ Idles
    BY <2>1, <2>2, <2>3 DEF Keeps, Idles, R, ToSet
  <2>4. CASE Picks
    <3>1. readyqueue \in Seq(Pids) /\ current' = Highest(readyqueue) /\ R' \subseteq R
      <4>1. Finds(current') => current' = First(readyqueue)
        BY <2>2 DEF Finds
      <4> QED
        BY <2>2, <2>4, <4>1 DEF Picks, R, TypeOK
    <3>2. readyqueue # <<>>
      BY <2>4 DEF Picks, ToSet
    <3> QED
      BY <2>1, <3>1, <3>2, SearchesFind DEF R
  <2>5. CASE GoesBack
    <3> DEFINE q == Append(readyqueue, current)
    <3>1. current \in Pids /\ current' = Highest(q) /\ R' \subseteq R \cup {current}
      BY <2>2, <2>5 DEF GoesBack, R
    <3>2. q \in Seq(Pids) /\ q # <<>> /\ ToSet(q) = R \cup {current}
      BY <3>1, QueuesWithCurrent DEF R
    <3> HIDE DEF q
    <3> QED
      BY <2>1, <3>1, <3>2, SearchesFind
  <2> QED
    BY <1>3, <2>3, <2>4, <2>5
<1> QED
  BY <1>1, <1>5, <1>6, QuietLends DEF Faults

LEMMA SwitchLends ==
    ASSUME TypeOK, LendInv, Switch
    PROVE  LendInv'
<1>1. /\ pc = "switch"
      /\ UNCHANGED <<policy, script, current, readyqueue, waitqueue, owner, age, prio, toAcquire>>
      /\ pc' \in Faults \/ pc' = "run" \/ (pc' # "switch" /\ current = NoProcess)
  BY SwitchCases DEF EndTick, Faults
<1>2. SUFFICES ASSUME pc' \notin Faults
               PROVE  LendInv'
  BY DEF LendInv
<1>3. \A p \in Pids : Runnable(p) => Runnable(p)'
  BY <1>1, <1>2 DEF Runnable, R, NoProcess, Pids
<1>4. Inherits => RunsFirst'
  BY <1>1 DEF LendInv, RunsFirst, R, Faults
<1> QED
  BY <1>1, <1>3, <1>4, QuietLends DEF Faults

(* A waiter owns nothing.                                                  *)
LEMMA WaitersOwnNothing ==
    ASSUME BasicInv, WaitInv, RequestInv, Simple, pc = "run",
           NEW r \in Resources, NEW p \in W(r)
    PROVE  p \in Pids /\ \A s \in Resources : owner[s] # p
<1>1. p \in Pids /\ Pending(p) # {}
  BY ListsHoldPids DEF BasicInv, WaitInv, WaitersAsk, AsksNext
<1> QED
  BY <1>1, AskersOwnNothing

LEMMA GrantLends ==
    ASSUME BasicInv, PlaceInv, LendInv, AnyGrant
    PROVE  LendInv'
<1>1. /\ pc = "run" /\ Pending(current) # {} /\ prio' = Granting
      /\ owner' = [owner EXCEPT ![Asked] = current]
      /\ UNCHANGED <<policy, script, pc, current, readyqueue, waitqueue, age>>
  BY DEF AnyGrant
<1>2. SUFFICES ASSUME Inherits
               PROVE  Lent' /\ Heirs' /\ RunsFirst'
  BY <1>1, InheritsStays DEF LendInv
<1>3. prio' = prio /\ Lent /\ Heirs /\ RunsFirst
  BY <1>1, <1>2 DEF Granting, Inherits, LendInv, Faults
<1>4. /\ current \in Pids /\ Asked \in Resources /\ owner[Asked] = NoProcess
      /\ NextRequest(current).id = Asked
      /\ \A p \in Pids \ {current} : toAcquire'[p] = toAcquire[p]
  BY GrantEffects DEF BasicInv
<1>5. owner'[Asked] = current /\ \A r \in Resources \ {Asked} : owner'[r] = owner[r]
  BY <1>1, <1>4 DEF BasicInv, TypeOK
<1>6. R' = R /\ \A r : W(r)' = W(r)
  BY <1>1 DEF R, W
<1>7. \A p \in R \cup {current} : prio[p] <= prio[current]
  <2>1. prio[current] \in Nat /\ current # NoProcess
    <3>1. prio \in [Pids -> Nat]
      BY DEF BasicInv, TypeOK
    <3> QED
      BY <1>4, <3>1 DEF NoProcess, Pids
  <2> QED
    BY <1>1, <1>3, <2>1 DEF RunsFirst
<1>8. \A p \in W(Asked) : prio[p] <= prio[current]
  <2>1. SUFFICES ASSUME NEW p \in W(Asked)
                 PROVE  prio[p] <= prio[current]
    OBVIOUS
  <2>2. PICK w \in Pids : Runnable(w) /\ prio[p] <= prio[w]
    BY <1>3, <1>4, <2>1 DEF Heirs
  <2>3. prio[w] <= prio[current]
    BY <1>7, <2>2 DEF Runnable
  <2>4. prio[p] \in Nat /\ prio[w] \in Nat /\ prio[current] \in Nat
    BY <1>4, <2>1, ListsHoldPids DEF BasicInv, TypeOK
  <2> QED
    BY <2>2, <2>3, <2>4
<1>9. Lent'
  BY <1>1, <1>3, <1>5, <1>6, <1>8 DEF Lent
<1>10. Heirs'
  <2>1. SUFFICES ASSUME NEW r \in Resources \ {Asked}, owner[r] = NoProcess, W(r) # {}
                 PROVE  \E w \in Pids : /\ Runnable(w)' /\ AsksNext(w, r)'
                                        /\ \A p \in W(r) : prio[p] <= prio[w]
    BY <1>3, <1>4, <1>5, <1>6 DEF Heirs, NoProcess, Pids
  <2>2. PICK w \in Pids : /\ Runnable(w) /\ AsksNext(w, r)
                          /\ \A p \in W(r) : prio[p] <= prio[w]
    BY <1>3, <2>1 DEF Heirs
  <2>3. w # current
    BY <1>4, <2>2 DEF AsksNext
  <2>4. AsksNext(w, r)'
    <3>1. toAcquire'[w] = toAcquire[w] /\ age'[w] = age[w]
      BY <1>1, <1>4, <2>3
    <3> QED
      BY <2>2, <3>1, AsksTheSame
  <2>5. Runnable(w)'
    BY <1>1, <1>6, <2>2 DEF Runnable
  <2> QED
    BY <2>2, <2>4, <2>5
<1>11. RunsFirst'
  BY <1>1, <1>3, <1>6 DEF RunsFirst
<1> QED
  BY <1>9, <1>10, <1>11

(* Current lends its priority to the owner it will wait for.               *)
LEMMA RefusalLends ==
    ASSUME BasicInv, PlaceInv, WaitInv, RequestInv, LendInv, AnyRefusal
    PROVE  LendInv'
<1>1. /\ pc = "run" /\ pc' = "fork" /\ Pending(current) # {} /\ prio' = Lending
      /\ UNCHANGED <<policy, script, current, readyqueue, owner, age, toAcquire>>
  BY DEF AnyRefusal, EndTick
<1>2. SUFFICES ASSUME Inherits
               PROVE  Lent' /\ Heirs' /\ RunsFirst'
  BY <1>1, InheritsStays DEF LendInv
<1>3. Lent /\ Heirs /\ Simple /\ policy = "pip"
  BY <1>1, <1>2 DEF Inherits, LendInv, Faults
<1>4. /\ current \in Pids /\ Asked \in Resources /\ NextRequest(current).id = Asked
      /\ \A r \in Resources \ {Asked} : waitqueue'[r] = waitqueue[r]
      /\ ToSet(waitqueue'[Asked]) = ToSet(waitqueue[Asked]) \cup {current}
  BY RefusalEffects DEF BasicInv
<1>5. PICK o \in Pids : o = owner[Asked] /\ o # current
  BY <1>3, RefusalMeans, SimpleMeans
<1>6. prio \in [Pids -> Nat]
  BY DEF BasicInv, TypeOK
<1>7. /\ \A p \in Pids \ {o} : prio'[p] = prio[p]
      /\ prio'[o] >= prio[o] /\ prio'[o] >= prio[current]
      /\ \A p \in Pids : prio'[p] \in Nat /\ prio'[p] >= prio[p]
  BY <1>1, <1>3, <1>4, <1>5, <1>6 DEF Lending
<1>8. \A r \in Resources : \A p \in W(r) : p \in Pids /\ p # o
  BY <1>1, <1>3, <1>4, <1>5, WaitersOwnNothing
<1>9. \A r \in Resources \ {Asked} : W(r)' = W(r)
  BY <1>4 DEF W
<1>10. W(Asked)' = W(Asked) \cup {current}
  <2>1. PICK a \in Resources : a = Asked
    BY <1>4
  <2>2. ToSet(waitqueue'[a]) = ToSet(waitqueue[a]) \cup {current}
    BY <1>4, <2>1
  <2>3. Asked' = Asked
    BY <1>1 DEF Asked, NextRequest, Pending
  <2> QED
    BY <2>1, <2>2, <2>3 DEF W
<1>11. Lent'
  <2>1. SUFFICES ASSUME NEW r \in Resources, NEW p \in W(r)', owner[r] # NoProcess
                 PROVE  prio'[p] <= prio'[owner[r]]
    BY <1>1 DEF Lent
  <2>2. owner[r] \in Pids
    BY <2>1 DEF BasicInv, TypeOK
  <2>3. CASE p \in W(r)
    <3>1. prio[p] <= prio[owner[r]] /\ p \in Pids /\ p # o
      BY <1>3, <1>8, <2>1, <2>3 DEF Lent
    <3> QED
      BY <1>6, <1>7, <2>2, <3>1
  <2>4. CASE p \notin W(r)
    <3>1. r = Asked
      BY <1>9, <2>1, <2>4
    <3>2. p = current
      <4>1. Asked' = Asked
        BY <1>1 DEF Asked, NextRequest, Pending
      <4> QED
        BY <1>10, <2>1, <2>4, <3>1, <4>1
    <3> QED
      BY <1>4, <1>5, <1>6, <1>7, <3>1, <3>2
  <2> QED
    BY <2>3, <2>4
<1>12. Heirs'
  <2>1. SUFFICES ASSUME NEW r \in Resources \ {Asked}, owner[r] = NoProcess, W(r) # {}
                 PROVE  \E w \in Pids : /\ Runnable(w)' /\ AsksNext(w, r)'
                                        /\ \A p \in W(r) : prio'[p] <= prio'[w]
    BY <1>1, <1>5, <1>9 DEF Heirs, NoProcess, Pids
  <2>2. PICK w \in Pids : /\ Runnable(w) /\ AsksNext(w, r)
                          /\ \A p \in W(r) : prio[p] <= prio[w]
    BY <1>3, <2>1 DEF Heirs
  <2>3. w # current
    BY <1>4, <2>2 DEF AsksNext
  <2>4. AsksNext(w, r)' /\ Runnable(w)'
    BY <1>1, <2>2, <2>3, AsksTheSame DEF Runnable, R
  <2>5. \A p \in W(r) : prio'[p] <= prio'[w]
    BY <1>6, <1>7, <1>8, <2>1, <2>2
  <2> QED
    BY <2>4, <2>5
<1>13. RunsFirst'
  BY <1>1 DEF RunsFirst
<1> QED
  BY <1>11, <1>12, <1>13

LEMMA WorkLends ==
    ASSUME BasicInv, PlaceInv, LendInv, Work
    PROVE  LendInv'
<1>1. /\ pc = "run" /\ pc' = "release" /\ Pending(current) = {}
      /\ UNCHANGED <<policy, script, current, readyqueue, waitqueue, owner, prio, toAcquire>>
      /\ age' = [age EXCEPT ![current] = @ + 1]
  BY DEF Work
<1>2. SUFFICES ASSUME Inherits
               PROVE  Lent' /\ Heirs' /\ RunsFirst'
  BY <1>1, InheritsStays DEF LendInv
<1>3. Lent /\ Heirs
  BY <1>1, <1>2 DEF LendInv, Faults
<1>4. R' = R /\ \A r : W(r)' = W(r)
  BY <1>1 DEF R, W
<1>5. Lent'
  BY <1>1, <1>3, <1>4 DEF Lent
<1>6. Heirs'
  <2>1. SUFFICES ASSUME NEW r \in Resources, owner[r] = NoProcess, W(r) # {}
                 PROVE  \E w \in Pids : /\ Runnable(w)' /\ AsksNext(w, r)'
                                        /\ \A p \in W(r) : prio[p] <= prio[w]
    BY <1>1, <1>4 DEF Heirs
  <2>2. PICK w \in Pids : /\ Runnable(w) /\ AsksNext(w, r)
                          /\ \A p \in W(r) : prio[p] <= prio[w]
    BY <1>3, <2>1 DEF Heirs
  <2>3. w # current
    BY <1>1, <2>2 DEF AsksNext
  <2>4. age'[w] = age[w] /\ toAcquire'[w] = toAcquire[w]
    BY <1>1, <2>3 DEF BasicInv, TypeOK
  <2>5. AsksNext(w, r)' /\ Runnable(w)'
    BY <1>4, <2>2, <2>3, <2>4, AsksTheSame DEF Runnable
  <2> QED
    BY <2>2, <2>5
<1> QED
  BY <1>1, <1>5, <1>6 DEF RunsFirst

(* The process that is woken has the priority of those that still wait.    *)
LEMMA ReleaseLends ==
    ASSUME BasicInv, PlaceInv, WaitInv, RequestInv, FreshInv, LendInv, AnyRelease
    PROVE  LendInv'
<1>1. /\ pc = "release" /\ prio' = Restoring
      /\ UNCHANGED <<policy, script, current, age, toAcquire>>
  BY DEF AnyRelease
<1>2. SUFFICES ASSUME Inherits
               PROVE  Lent' /\ Heirs' /\ RunsFirst'
  BY <1>1, InheritsStays DEF LendInv
<1>3. Lent /\ Heirs /\ Simple /\ policy = "pip"
  BY <1>1, <1>2 DEF Inherits, LendInv, Faults
<1>4. pc' = "release"
  BY ReleaseGoes
<1>5. /\ current \in Pids /\ Released \in Resources
      /\ owner'[Released] = NoProcess
      /\ \A r \in Resources \ {Released} : owner'[r] = owner[r]
  BY ReleaseEffects DEF BasicInv
<1>6. \A r \in Resources : owner'[r] # current
  BY <1>3, NothingIsKept
<1>7. /\ NobodyTwice /\ ListsApart /\ CurrentApart
  BY <1>1 DEF PlaceInv
<1>8. \A p \in Pids \ {current} : prio'[p] = prio[p]
  BY <1>1 DEF Restoring, BasicInv, TypeOK
<1>9. \A r \in Resources : \A p \in W(r) : p \in Pids /\ p # current /\ prio'[p] = prio[p]
  BY <1>1, <1>7, <1>8, ListsHoldPids DEF CurrentApart, BasicInv
<1>10. /\ R \subseteq R'
       /\ \A r \in Resources : W(r)' \subseteq W(r)
       /\ \/ W(Released) = {}
          \/ \E w \in W(Released) : w \in R' /\ \A p \in W(Released) : prio[p] <= prio[w]
  <2>1. CASE waitqueue[Released] = <<>> /\ UNCHANGED <<waitqueue, readyqueue>>
    BY <1>5, <2>1 DEF R, W, ToSet
  <2>2. CASE \E w : WakesProcess(w)
    <3>1. PICK w : WakesProcess(w)
      BY <2>2
    <3>2. /\ w \in W(Released) /\ R' = R \cup {w}
          /\ \A p \in W(Released) : prio[p] <= prio[w]
      BY <1>3, <3>1 DEF WakesProcess, R, W
    <3>3. \A r \in Resources : ToSet(waitqueue'[r]) \subseteq ToSet(waitqueue[r])
      <4>1. SUFFICES ASSUME NEW r \in Resources
                     PROVE  ToSet(waitqueue'[r]) \subseteq ToSet(waitqueue[r])
        OBVIOUS
      <4>2. CASE r = Released
        BY <3>1, <4>2 DEF WakesProcess
      <4>3. CASE r # Released
        BY <3>1, <4>3 DEF WakesProcess
      <4> QED
        BY <4>2, <4>3
    <3> QED
      BY <3>2, <3>3 DEF W
  <2> QED
    BY <2>1, <2>2, WakeEffects DEF BasicInv
<1>11. Lent'
  <2>1. SUFFICES ASSUME NEW r \in Resources, NEW p \in W(r)', owner'[r] # NoProcess
                 PROVE  prio'[p] <= prio'[owner'[r]]
    BY DEF Lent
  <2>2. r # Released /\ owner'[r] = owner[r] /\ owner[r] # current
    BY <1>5, <1>6, <2>1
  <2>3. owner[r] \in Pids
    BY <2>1, <2>2 DEF BasicInv, TypeOK
  <2>4. prio'[owner[r]] = prio[owner[r]]
    BY <1>8, <2>2, <2>3
  <2>5. p \in W(r) /\ prio[p] <= prio[owner[r]]
    BY <1>3, <1>10, <2>1, <2>2 DEF Lent
  <2> QED
    BY <1>9, <2>2, <2>4, <2>5
<1>12. Heirs'
  <2>1. SUFFICES ASSUME NEW r \in Resources, owner'[r] = NoProcess, W(r)' # {}
                 PROVE  \E w \in Pids : /\ Runnable(w)' /\ AsksNext(w, r)'
                                        /\ \A p \in W(r)' : prio'[p] <= prio'[w]
    BY DEF Heirs
  <2>2. \E w \in Pids \ {current} : /\ w \in R' /\ AsksNext(w, r)
                                    /\ \A p \in W(r) : prio[p] <= prio[w]
    <3>1. CASE r = Released
      <4>1. PICK w \in W(r) : w \in R' /\ \A p \in W(r) : prio[p] <= prio[w]
        BY <1>10, <2>1, <3>1
      <4> QED
        BY <1>9, <4>1 DEF WaitInv, WaitersAsk
    <3>2. CASE r # Released
      <4>1. owner[r] = NoProcess /\ W(r) # {}
        BY <1>5, <1>10, <2>1, <3>2
      <4>2. PICK w \in Pids : /\ Runnable(w) /\ AsksNext(w, r)
                              /\ \A p \in W(r) : prio[p] <= prio[w]
        BY <1>3, <4>1 DEF Heirs
      <4>3. w \in R /\ w # current
        BY <1>1, <1>7, <4>2 DEF Runnable, CurrentApart
      <4> QED
        BY <1>10, <4>2, <4>3
    <3> QED
      BY <3>1, <3>2
  <2>3. PICK w \in Pids \ {current} : /\ w \in R' /\ AsksNext(w, r)
                                      /\ \A p \in W(r) : prio[p] <= prio[w]
    BY <2>2
  <2>4. AsksNext(w, r)'
    BY <1>1, <2>3, AsksTheSame
  <2>5. \A p \in W(r)' : prio'[p] <= prio'[w]
    BY <1>8, <1>9, <1>10, <2>3
  <2> QED
    BY <2>3, <2>4, <2>5 DEF Runnable
<1> QED
  BY <1>4, <1>11, <1>12 DEF RunsFirst

LEMMA OtherLends ==
    ASSUME LendInv, NextTick \/ UNCHANGED draftVars
    PROVE  LendInv'
<1>1. CASE NextTick
  <2>1. /\ pc = "release" /\ pc' = "fork"
        /\ UNCHANGED <<policy, script, readyqueue, waitqueue, owner, age, prio, toAcquire>>
    BY <1>1 DEF NextTick, EndTick
  <2> QED
    BY <2>1, QuietLends DEF Runnable, RunsFirst, R, Faults
<1>2. CASE UNCHANGED draftVars
  <2>1. UNCHANGED <<policy, script, pc, current, readyqueue, waitqueue, owner, age, prio, toAcquire>>
    BY <1>2 DEF draftVars, schedVars
  <2>2. pc \notin Faults => LendInv'
    BY <2>1, QuietLends DEF LendInv, Runnable, RunsFirst, R
  <2> QED
    BY <2>1, <2>2 DEF LendInv
<1> QED
  BY <1>1, <1>2

LEMMA LendStep ==
    ASSUME BasicInv, PlaceInv, WaitInv, RequestInv, FreshInv, LendInv, [DraftNext]_draftVars
    PROVE  LendInv'
<1>1. AnyNext \/ UNCHANGED draftVars
  BY StepsAreAny DEF BasicInv
<1> QED
  BY <1>1, ForkLends, ScheduleLends, SwitchLends, GrantLends, RefusalLends, WorkLends,
     ReleaseLends, OtherLends DEF AnyNext, BasicInv

LEMMA LendAlways == DraftSpec => []LendInv
<1>1. DraftInit => LendInv
  BY LendInit
<1>2. /\ BasicInv /\ PlaceInv /\ WaitInv /\ RequestInv /\ FreshInv /\ LendInv
      /\ [DraftNext]_draftVars
      => LendInv'
  BY LendStep
<1> QED
  BY <1>1, <1>2, BasicAlways, PlaceAlways, WaitAlways, RequestAlways, FreshAlways,
     PTL DEF DraftSpec

(* An owner that does not wait itself is ready to run.                     *)
LEMMA OwnersAreThere ==
    ASSUME BasicInv, PlaceInv, WaitInv, RequestInv, StandInv, FreshInv,
           Simple, NoneDiesHolding, policy # "try_sjf", pc = "run",
           NEW r \in Resources, NEW o \in Pids, owner[r] = o
    PROVE  o \in R \cup {current}
<1>1. PICK h \in ToSet(holding[o]) : h.id = r
  BY OwnersAsked
<1>2. holding[o] # <<>> /\ ~Lifeless(o)
  BY <1>1, OwnersAsked DEF ToSet
<1>3. o \notin F
  BY <1>2 DEF FreshInv, Newborn
<1>4. \A s \in Resources : o \notin W(s)
  BY WaitersOwnNothing
<1>5. Linked(o) \/ o = current
  <2>1. Exited /\ Somewhere /\ prev = NoProcess
    BY DEF StandInv, NoPrev, Faults
  <2>2. status[o] # "exit"
    BY <1>2, <2>1 DEF Exited, Gone
  <2> QED
    BY <1>2, <2>1, <2>2 DEF Somewhere, Remembers, Lost, NoProcess, Pids
<1> QED
  BY <1>3, <1>4, <1>5, LinkedMeans

(* With one resource at a time, pcp and pip keep their promise: nobody     *)
(* runs while one with a higher priority waits, unless it was lent that    *)
(* priority.                                                               *)
THEOREM NoSimpleInversionAlways == DraftSpec => []NoSimpleInversion
<1>1. /\ BasicInv /\ PlaceInv /\ WaitInv /\ RequestInv /\ StandInv /\ FreshInv
      /\ QuietInv /\ LendInv
      => NoSimpleInversion
  <2>1. SUFFICES ASSUME BasicInv, PlaceInv, WaitInv, RequestInv, StandInv, FreshInv,
                        QuietInv, LendInv,
                        Simple, NoneDiesHolding, policy = "pcp" => BelowCeiling,
                        pc = "run", policy \in {"pcp", "pip"},
                        NEW p \in Pids, status[p] = "wait"
                 PROVE  prio[p] <= prio[current]
    BY DEF NoSimpleInversion, NoInversion
  <2>2. CASE policy = "pcp"
    BY <2>1, <2>2, SimpleMeans DEF QuietInv, Undisturbed, Ceiled, NobodyWaits
  <2>3. CASE policy = "pip"
    <3>1. Lent /\ Heirs /\ RunsFirst
      BY <2>1, <2>3 DEF LendInv, Inherits, Faults
    <3>2. current \in Pids /\ prio \in [Pids -> Nat] /\ current # NoProcess
      BY <2>1 DEF BasicInv, Runs, TypeOK, NoProcess, Pids
    <3>3. \A w \in Pids : w \in R \cup {current} => prio[w] <= prio[current]
      BY <2>1, <3>1, <3>2 DEF RunsFirst
    <3>4. PICK r \in Resources : p \in W(r)
      BY <2>1, WaitersAreLinked DEF Faults
    <3>5. \E w \in Pids : w \in R \cup {current} /\ prio[p] <= prio[w]
      <4>1. CASE owner[r] = NoProcess
        BY <3>1, <3>4, <4>1 DEF Heirs, Runnable
      <4>2. CASE owner[r] # NoProcess
        <5>1. owner[r] \in Pids
          <6>1. owner \in [Resources -> Pids \cup {NoProcess}]
            BY <2>1 DEF BasicInv, TypeOK
          <6> QED
            BY <3>4, <4>2, <6>1
        <5>2. owner[r] \in R \cup {current}
          BY <2>1, <2>3, <5>1, OwnersAreThere
        <5> QED
          BY <3>1, <3>4, <4>2, <5>1, <5>2 DEF Lent
      <4> QED
        BY <4>1, <4>2
    <3> QED
      BY <3>2, <3>3, <3>5
  <2> QED
    BY <2>1, <2>2, <2>3
<1> QED
  BY <1>1, BasicAlways, PlaceAlways, WaitAlways, RequestAlways, StandAlways, FreshAlways,
     QuietAlways, LendAlways, PTL
-----------------------------------------------------------------------------
(* Scripts no policy can finish. sjf never takes a job of 100 ticks, and   *)
(* the prio of "Prio Scheduler.c" nobody whose priority is 0 while nobody  *)
(* runs; the later sjf takes one process of at least two.                  *)

PlainPrio == Fcfs => \A p \in Pids : prio[p] = script[p].prio
Untouchable(p) ==
    \/ policy = "sjf" /\ Lifespan(p) >= SjfLimit
    \/ policy = "prio_prio" /\ \A q \in Pids : script[q].prio = 0
StaysBehind == \A p \in Pids : Untouchable(p) => p \in F \cup R
SomebodyStays == policy = "pip_sjf" /\ Pids # {} => F \cup R # {}
StayInv == PlainPrio /\ (pc # "corrupt" => StaysBehind /\ SomebodyStays)

LEMMA StayInit ==
    ASSUME DraftInit
    PROVE  StayInv
<1>1. forkqueue = [p \in Pids |-> p] /\ prio = [p \in Pids |-> script[p].prio]
  BY DEF DraftInit, Load
<1>2. F = Pids
  BY <1>1 DEF F, ToSet
<1> QED
  BY <1>1, <1>2 DEF StayInv, PlainPrio, StaysBehind, SomebodyStays

(* The policies that use the default functions leave the priorities alone. *)
LEMMA PrioStaysPlain ==
    ASSUME PlainPrio, AnyNext \/ UNCHANGED draftVars
    PROVE  PlainPrio'
<1>1. UNCHANGED <<policy, script>>
  BY ForkCases DEF AnyNext, ForkRound, ScheduleStep, Switch, AnyGrant, AnyRefusal, Work, AnyRelease,
                   NextTick, draftVars, schedVars
<1>2. Fcfs => prio' = prio
  BY ForkCases DEF AnyNext, ForkRound, ScheduleStep, Switch, AnyGrant, AnyRefusal, Work, AnyRelease,
                   NextTick, draftVars, schedVars, Granting, Lending, Restoring, Fcfs
<1> QED
  BY <1>1, <1>2 DEF PlainPrio, Fcfs

(* A step that takes nobody out of the two queues.                         *)
LEMMA NobodyLeaves ==
    ASSUME StaysBehind, SomebodyStays, UNCHANGED <<policy, script>>, F \cup R \subseteq F' \cup R'
    PROVE  StaysBehind' /\ SomebodyStays'
<1>1. \A p \in Pids : Untouchable(p)' <=> Untouchable(p)
  BY DEF Untouchable, Lifespan
<1> QED
  BY <1>1 DEF StaysBehind, SomebodyStays

LEMMA ScheduleKeepsThem ==
    ASSUME TypeOK, PlaceInv, StayInv, ScheduleStep, Choice, pc' # "corrupt"
    PROVE  StaysBehind' /\ SomebodyStays'
<1>1. /\ pc = "schedule" /\ UNCHANGED <<policy, script, forkqueue, prio>>
      /\ current \in Pids \cup {NoProcess}
  BY DEF ScheduleStep, TypeOK
<1>2. F' = F /\ StaysBehind /\ SomebodyStays /\ PlainPrio
  BY <1>1 DEF F, StayInv
<1>3. current \notin F \cup R /\ IsInjective(readyqueue)
  BY <1>1 DEF PlaceInv, CurrentApart, NobodyTwice
<1>4. CASE pc' = "null" /\ UNCHANGED <<current, readyqueue>>
  BY <1>1, <1>2, <1>4, NobodyLeaves DEF R
<1>5. CASE Keeps
  BY <1>1, <1>2, <1>3, <1>5, NobodyLeaves DEF Keeps, R
<1>6. CASE Picks
  <2>1. current' \in Pids /\ current' \in R /\ R \subseteq R' \cup {current'} /\ Finds(current')
    BY <1>6 DEF Picks, R
  <2>2. PICK c \in Pids : c = current'
    BY <2>1
  <2>3. \A p \in Pids : Untouchable(p)' <=> Untouchable(p)
    BY <1>1 DEF Untouchable, Lifespan
  <2>4. ~Untouchable(c)
    <3>1. CASE policy = "sjf"
      BY <2>1, <2>2, <3>1, ScriptFacts DEF Finds, Untouchable, Lifespan, SjfLimit
    <3>2. CASE policy = "prio_prio"
      <4>1. SUFFICES ASSUME \A q \in Pids : script[q].prio = 0
                     PROVE  FALSE
        BY <3>2 DEF Untouchable
      <4>2. current = NoProcess
        BY <1>1, <1>2, <1>3, <3>2, <4>1 DEF StaysBehind, Untouchable
      <4>3. prio[c] > 0
        BY <2>1, <2>2, <3>2, <4>2 DEF Finds
      <4>4. prio[c] = 0
        BY <1>2, <3>2, <4>1 DEF PlainPrio, Fcfs
      <4> QED
        BY <4>3, <4>4
    <3> QED
      BY <3>1, <3>2 DEF Untouchable
  <2>5. StaysBehind'
    BY <1>2, <2>1, <2>2, <2>3, <2>4 DEF StaysBehind
  <2>6. SomebodyStays'
    <3>1. SUFFICES ASSUME policy = "pip_sjf"
                   PROVE  R' # {}
      BY <1>1 DEF SomebodyStays
    <3>2. PICK o \in R : o # c
      BY <2>1, <2>2, <3>1 DEF Finds, R
    <3> QED
      BY <2>1, <2>2, <3>2
  <2> QED
    BY <2>5, <2>6
<1>7. CASE Idles
  BY <1>1, <1>2, <1>7, NobodyLeaves DEF Idles, R
<1>8. CASE GoesBack
  <2>1. current \in Pids /\ policy \notin {"sjf", "pip_sjf"}
    BY <1>8 DEF GoesBack, Yields, PutsBack
  <2>2. ~Untouchable(current)
    BY <1>2, <1>3, <2>1 DEF StaysBehind
  <2>3. \A p \in Pids : ~Untouchable(p)'
    BY <1>1, <2>1, <2>2 DEF Untouchable, Lifespan
  <2> QED
    BY <1>1, <2>1, <2>3 DEF StaysBehind, SomebodyStays
<1> QED
  BY <1>4, <1>5, <1>6, <1>7, <1>8, ScheduleEffects DEF Ends

LEMMA OthersKeepThem ==
    ASSUME TypeOK, Runs, StaysBehind, SomebodyStays,
           Fork \/ Switch \/ AnyGrant \/ AnyRefusal \/ Work \/ AnyRelease \/ NextTick
           \/ UNCHANGED draftVars
    PROVE  StaysBehind' /\ SomebodyStays'
<1>1. CASE Fork
  <2>1. UNCHANGED <<policy, script>>
    BY <1>1, ForkCases DEF ForkRound
  <2>2. F \cup R \subseteq F' \cup R'
    BY <1>1, ForkCases, ForkEffects DEF F, R
  <2> QED
    BY <2>1, <2>2, NobodyLeaves
<1>2. CASE AnyRelease
  <2>1. UNCHANGED <<policy, script, forkqueue>>
    BY <1>2 DEF AnyRelease
  <2>2. R \subseteq R'
    BY <1>2, WakeEffects DEF WakesProcess, R
  <2> QED
    BY <2>1, <2>2, NobodyLeaves DEF F
<1>3. CASE Switch \/ AnyGrant \/ AnyRefusal \/ Work \/ NextTick \/ UNCHANGED draftVars
  <2>1. UNCHANGED <<policy, script, forkqueue, readyqueue>>
    BY <1>3 DEF Switch, AnyGrant, AnyRefusal, Work, NextTick, draftVars, schedVars
  <2> QED
    BY <2>1, NobodyLeaves DEF F, R
<1> QED
  BY <1>1, <1>2, <1>3

LEMMA StayStep ==
    ASSUME BasicInv, PlaceInv, StayInv, [DraftNext]_draftVars
    PROVE  StayInv'
<1>1. AnyNext \/ UNCHANGED draftVars
  BY StepsAreAny DEF BasicInv
<1>2. PlainPrio'
  BY <1>1, PrioStaysPlain DEF StayInv
<1>3. SUFFICES ASSUME pc' # "corrupt"
               PROVE  StaysBehind' /\ SomebodyStays'
  BY <1>2 DEF StayInv
<1>4. pc # "corrupt" \/ UNCHANGED draftVars
  BY <1>1, ForkCases DEF AnyNext, ForkRound, ScheduleStep, Switch, AnyGrant, AnyRefusal, Work,
                         AnyRelease, NextTick
<1>5. StaysBehind /\ SomebodyStays
  BY <1>3, <1>4 DEF StayInv, draftVars, schedVars
<1> QED
  BY <1>1, <1>3, <1>5, ScheduleKeepsThem, OthersKeepThem DEF AnyNext, BasicInv

LEMMA StayAlways == DraftSpec => []StayInv
<1>1. DraftInit => StayInv
  BY StayInit
<1>2. BasicInv /\ PlaceInv /\ StayInv /\ [DraftNext]_draftVars => StayInv'
  BY StayStep
<1> QED
  BY <1>1, <1>2, BasicAlways, PlaceAlways, PTL DEF DraftSpec

(* A process that has exited had the time for all its requests.            *)
LEMMA ExitsInTime ==
    ASSUME BasicInv, RequestInv, StandInv, pc \notin Faults, NEW p \in Pids, status[p] = "exit"
    PROVE  ~Overdue(p)
<1>1. age[p] = script[p].lifespan /\ holding[p] = <<>> /\ toAcquire[p] = <<>>
  BY DEF StandInv, Exited, Gone
<1>2. \A q \in Asks(p) : q.at + q.duration <= age[p]
  BY <1>1 DEF RequestInv, Served, ToSet
<1>3. SUFFICES ASSUME NEW q \in Asks(p), q.at + q.duration > Lifespan(p)
               PROVE  FALSE
  BY DEF Overdue
<1>4. q.at \in Nat /\ q.duration \in Nat /\ age[p] \in Nat
  BY HeldFacts DEF BasicInv
<1> QED
  BY <1>1, <1>2, <1>3, <1>4 DEF Lifespan

(* The policies but rr on the scripts they cannot take: at the end there   *)
(* is nobody left in the two queues, and who has exited was in time.       *)
LEMMA OthersNeverEnd ==
    ASSUME BasicInv, PlaceInv, WaitInv, RequestInv, StandInv, QuietInv, StayInv,
           policy # "rr", Doomed
    PROVE  pc # "end"
<1>1. SUFFICES ASSUME pc = "end"
               PROVE  FALSE
  OBVIOUS
<1>2. F \cup R = {}
  BY <1>1 DEF StandInv, NoPrev, Faults, F, R, ToSet
<1>3. StaysBehind /\ SomebodyStays
  BY <1>1 DEF StayInv
<1>4. CASE policy = "sjf" /\ ~AllShort
  <2>1. PICK p \in Pids : ~(Lifespan(p) < SjfLimit)
    BY <1>4 DEF AllShort
  <2>2. Lifespan(p) >= SjfLimit
    BY <1>1, <2>1, ScriptFacts DEF BasicInv, Lifespan, SjfLimit
  <2> QED
    BY <1>2, <1>3, <1>4, <2>2 DEF StaysBehind, Untouchable
<1>5. CASE policy = "pip_sjf" /\ Pids # {}
  BY <1>2, <1>3, <1>5 DEF SomebodyStays
<1>6. CASE policy = "prio_prio" /\ Pids # {} /\ \A p \in Pids : script[p].prio = 0
  BY <1>2, <1>3, <1>6 DEF StaysBehind, Untouchable
<1>7. CASE /\ policy = "fifo" /\ NoneDiesHolding /\ NoneBlocksItself
           /\ \E p \in Pids : Overdue(p)
  <2>1. PICK p \in Pids : Overdue(p)
    BY <1>7
  <2>2. ~Lifeless(p)
    BY <1>7, <2>1 DEF NoneDiesHolding, Overdue
  <2>3. status[p] # "wait"
    BY <1>1, <1>7 DEF QuietInv, Undisturbed, Serial, NobodyWaits
  <2>4. status[p] = "exit"
    BY <1>1, <1>7, <2>2, <2>3, EndingMeans
  <2> QED
    BY <1>1, <2>1, <2>4, ExitsInTime DEF Faults
<1> QED
  BY <1>1, <1>4, <1>5, <1>6, <1>7 DEF Doomed

-----------------------------------------------------------------------------
(* Scripts a policy survives.                                              *)

(* Who is due is forked before a tick is scheduled: while the forks go on, *)
(* who starts in this tick or later has not run yet.                       *)
DueInv ==
    /\ pc \in {"schedule", "switch", "run", "release"} => \A p \in F : script[p].start > ticks
    /\ pc = "fork" => \A p \in Pids : /\ p \in F => script[p].start >= ticks
                                      /\ script[p].start >= ticks => age[p] = 0

LEMMA DueInit ==
    ASSUME DraftInit
    PROVE  DueInv
<1>1. PICK c \in Cases : Load(c)
  BY DEF DraftInit
<1>2. pc = "fork" /\ ticks = 0 /\ age = [p \in Pids |-> 0] /\ script = c.script
  BY <1>1 DEF Load
<1>3. \A p \in Pids : script[p].start \in Nat
  BY <1>2, CasesAssumption
<1> QED
  BY <1>2, <1>3 DEF DueInv

LEMMA ForkIsDue ==
    ASSUME TypeOK, DueInv, Fork
    PROVE  DueInv'
<1>1. CASE ForkRound
  <2>1. pc = "fork" /\ UNCHANGED <<pc, script, ticks, age>> /\ F' \subseteq F
    BY <1>1, ForkEffects DEF ForkRound, F
  <2> QED
    BY <2>1 DEF DueInv
<1>2. CASE Due = {} /\ pc' = "schedule" /\ UNCHANGED <<forkqueue, script, ticks>>
  <2>1. SUFFICES ASSUME NEW i \in DOMAIN forkqueue
                 PROVE  script[forkqueue[i]].start > ticks
    BY <1>2 DEF DueInv, F, ToSet
  <2>2. ~(script[forkqueue[i]].start <= ticks)
    BY <1>2 DEF Due
  <2>3. forkqueue[i] \in Pids /\ ticks \in Nat
    BY LenProperties, ElementOfSeq DEF TypeOK
  <2>4. script[forkqueue[i]].start \in Nat
    BY <2>3, ScriptFacts
  <2> QED
    BY <2>2, <2>3, <2>4
<1> QED
  BY <1>1, <1>2, ForkCases

(* With the next tick those may come that it is the first one for.         *)
LEMMA TickIsDue ==
    ASSUME TypeOK, LifeInv, FreshInv, DueInv, pc \in {"switch", "run", "release"}, EndTick,
           UNCHANGED <<script, forkqueue, age>>
    PROVE  DueInv'
<1>1. ticks \in Nat /\ ticks' = ticks + 1 /\ pc' = "fork" /\ F' = F
  BY DEF TypeOK, EndTick, F
<1>2. \A p \in Pids : script[p].start \in Nat
  BY ScriptFacts
<1>3. \A p \in Pids : IF p \in F THEN script[p].start > ticks /\ age[p] = 0
                                 ELSE script[p].start <= ticks
  BY DEF DueInv, LifeInv, Started, FreshInv, Newborn
<1> QED
  BY <1>1, <1>2, <1>3 DEF DueInv

LEMMA OthersAreDue ==
    ASSUME DueInv, UNCHANGED <<script, ticks, forkqueue>>, pc' # "fork",
           pc \in {"schedule", "switch", "run", "release"}
    PROVE  DueInv'
BY DEF DueInv, F

LEMMA DueStep ==
    ASSUME BasicInv, LifeInv, FreshInv, DueInv, [DraftNext]_draftVars
    PROVE  DueInv'
<1>1. TypeOK /\ (AnyNext \/ UNCHANGED draftVars)
  BY StepsAreAny DEF BasicInv
<1>2. CASE UNCHANGED draftVars
  BY <1>2 DEF DueInv, draftVars, schedVars, F
<1>3. CASE ScheduleStep /\ Choice
  <2>1. pc' # "fork"
    BY <1>1, <1>3, ScheduleEffects DEF Ends
  <2> QED
    BY <1>3, <2>1, OthersAreDue DEF ScheduleStep
<1>4. CASE Switch
  <2>1. pc = "switch" /\ UNCHANGED <<script, forkqueue, age>>
        /\ (EndTick \/ (pc' # "fork" /\ UNCHANGED ticks))
    BY <1>1, <1>4, SwitchCases
  <2> QED
    BY <1>1, <2>1, TickIsDue, OthersAreDue
<1>5. CASE AnyRefusal \/ NextTick
  BY <1>1, <1>5, TickIsDue DEF AnyRefusal, NextTick
<1>6. CASE AnyGrant \/ Work \/ AnyRelease
  BY <1>6, OthersAreDue DEF AnyGrant, Work, AnyRelease, Disowns
<1> QED
  BY <1>1, <1>2, <1>3, <1>4, <1>5, <1>6, ForkIsDue DEF AnyNext

LEMMA DueAlways == DraftSpec => []DueInv
<1>1. DraftInit => DueInv
  BY DueInit
<1>2. BasicInv /\ LifeInv /\ FreshInv /\ DueInv /\ [DraftNext]_draftVars => DueInv'
  BY DueStep
<1> QED
  BY <1>1, <1>2, BasicAlways, LifeAlways, FreshAlways, PTL DEF DraftSpec

(* What the proofs need to know of a script its policy survives.           *)
Sturdy ==
    /\ WellFormed
    /\ policy # "pip_sjf"
    /\ \/ LooksAtStatus
       \/ policy = "sjf" /\ NoneBlocksItself
       \/ policy = "try_sjf"
       \/ policy = "pcp_pcp" /\ Simple /\ BelowCeiling
       \/ Uncontended
    /\ policy = "try_sjf" => \A p \in Pids : Lifespan(p) = 1
    /\ policy \in {"sjf", "prio_srtf"} => AllShort
    /\ policy = "prio_srtf" => AllTogether /\ Uncontended
    /\ policy = "prio_prio" => AllEqual /\ \A p \in Pids : script[p].prio > 0

LEMMA SoundIsSturdy ==
    ASSUME Sound
    PROVE  Sturdy
BY DEF Sound, Survives, Sturdy, LooksAtStatus

LEMMA SturdyStays ==
    ASSUME UNCHANGED <<policy, script>>
    PROVE  Sturdy' = Sturdy
<1>1. WellFormed' = WellFormed
  BY DEF WellFormed, Overdue, Asks, Lifespan
<1>2. Uncontended' = Uncontended
  BY CasesStay
<1>3. NoneBlocksItself' = NoneBlocksItself /\ Simple' = Simple /\ BelowCeiling' = BelowCeiling
  BY DEF NoneBlocksItself, Simple, BelowCeiling, Asks
<1>4. AllShort' = AllShort /\ AllTogether' = AllTogether /\ AllEqual' = AllEqual
  BY DEF AllShort, AllTogether, AllEqual, Lifespan
<1> QED
  BY <1>1, <1>2, <1>3, <1>4 DEF Sturdy, LooksAtStatus, Lifespan

(* Who does not look at the status of current has nobody that waits.       *)
LEMMA SturdyMeans ==
    ASSUME TypeOK, QuietInv, Sturdy
    PROVE  /\ \A p \in Pids : ~Lifeless(p)
           /\ LooksAtStatus \/ NobodyWaits
           /\ Remembers
<1>1. \A p \in Pids : ~Lifeless(p)
  BY ScriptFacts DEF Sturdy, WellFormed, Lifespan, Lifeless
<1>2. NoneDiesHolding
  BY <1>1 DEF NoneDiesHolding
<1>3. Remembers
  BY DEF Sturdy, Remembers, Lifespan
<1>4. ASSUME ~LooksAtStatus
      PROVE  NobodyWaits
  <2>1. CASE policy = "sjf" /\ NoneBlocksItself
    BY <1>2, <2>1 DEF QuietInv, Undisturbed, Serial
  <2>2. CASE policy = "try_sjf"
    <3>1. ASSUME NEW p \in Pids, NEW q \in Asks(p), NEW h \in Asks(p), q.id = h.id
          PROVE  q = h
      <4>1. /\ q \in Request /\ q.duration > 0 /\ h \in Request /\ h.duration > 0
            /\ script[p].lifespan = 1
        BY <1>3, <2>2, ScriptFacts DEF Remembers
      <4>2. q.at + q.duration <= 1 /\ h.at + h.duration <= 1
        BY <4>1 DEF Sturdy, WellFormed, Overdue, Lifespan, Request
      <4>3. q.at = h.at /\ q.duration = h.duration
        BY <4>1, <4>2 DEF Request
      <4> QED
        BY <3>1, <4>1, <4>3 DEF Request
    <3>2. NoneBlocksItself
      BY <3>1 DEF NoneBlocksItself
    <3> QED
      BY <1>2, <1>3, <2>2, <3>2 DEF QuietInv, Undisturbed, Serial
  <2>3. CASE policy = "pcp_pcp" /\ Simple /\ BelowCeiling
    BY <1>2, <2>3, SimpleMeans DEF QuietInv, Undisturbed, Ceiled
  <2>4. CASE Uncontended
    BY <2>4 DEF QuietInv
  <2> QED
    BY <1>4, <2>1, <2>2, <2>3, <2>4 DEF Sturdy
<1> QED
  BY <1>1, <1>3, <1>4

(* A process that has had its time holds nothing and asks for nothing.     *)
LEMMA DoneIsDone ==
    ASSUME BasicInv, RequestInv, WellFormed, NEW p \in Pids, age[p] = script[p].lifespan,
           p = current => pc \notin {"release", "assert"}
    PROVE  holding[p] = <<>> /\ toAcquire[p] = <<>>
<1>1. \A q \in Asks(p) : /\ q.at \in Nat /\ q.duration \in Nat /\ q.duration > 0
                         /\ q.at + q.duration <= age[p]
  <2>1. SUFFICES ASSUME NEW q \in Asks(p)
                 PROVE  /\ q.at \in Nat /\ q.duration \in Nat /\ q.duration > 0
                        /\ q.at + q.duration <= age[p]
    OBVIOUS
  <2>2. q.at \in Nat /\ q.duration \in Nat /\ q.duration > 0 /\ script[p].lifespan \in Nat
    BY ScriptFacts, HeldFacts DEF BasicInv
  <2> QED
    BY <2>2 DEF WellFormed, Overdue, Lifespan
<1>2. age[p] \in Nat /\ holding[p] \in Seq(Left) /\ toAcquire[p] \in Seq(Request)
  BY HeldFacts DEF BasicInv
<1>3. ToSet(holding[p]) = {}
  <2>1. SUFFICES ASSUME NEW h \in ToSet(holding[p])
                 PROVE  FALSE
    OBVIOUS
  <2>2. h.duration > 0 /\ h.duration \in Nat
    BY HeldFacts DEF BasicInv, Counting
  <2>3. PICK q \in Asks(p) : age[p] + h.duration = q.at + q.duration
    BY DEF RequestInv, Granted, Matches
  <2> QED
    BY <1>1, <1>2, <2>2, <2>3
<1>4. ToSet(toAcquire[p]) = {}
  <2>1. SUFFICES ASSUME NEW q \in ToSet(toAcquire[p])
                 PROVE  FALSE
    OBVIOUS
  <2>2. q \in Asks(p) /\ q.at >= age[p]
    BY DEF BasicInv, ToDo
  <2> QED
    BY <1>1, <1>2, <2>2
<1>5. \A s : s \in Seq(Left) \cup Seq(Request) /\ ToSet(s) = {} => s = <<>>
  <2>1. SUFFICES ASSUME NEW s \in Seq(Left) \cup Seq(Request), ToSet(s) = {}
                 PROVE  s = <<>>
    OBVIOUS
  <2>2. DOMAIN s = {}
    BY <2>1 DEF ToSet
  <2> QED
    BY <2>1, <2>2, LenProperties, EmptySeq
<1> QED
  BY <1>2, <1>3, <1>4, <1>5

(* The one fault that is left: round-robin looks for current where nobody  *)
(* is. Else who is switched to is in no list, nor is who leaves, and the   *)
(* srtf of "Prio Scheduler.c" runs the shortest of all.                    *)
RrIsIdle == policy = "rr" /\ pc = "null"
Apart ==
    pc = "switch" => /\ current # NoProcess => ~Linked(current)
                     /\ Finished => ~Linked(prev)
ShortestRuns ==
    policy = "prio_srtf" /\ current # NoProcess =>
        F = {} /\ \A p \in R : Lifespan(current) <= Lifespan(p)
Survived == RrIsIdle \/ (pc \notin Faults /\ Apart /\ ShortestRuns)
SurviveInv == Sturdy => Survived

(* Who has had its time waits for nobody.                                  *)
LEMMA DoneIsNotBlocked ==
    ASSUME BasicInv, PlaceInv, WaitInv, RequestInv, WellFormed, pc = "schedule",
           current \in Pids, age[current] = script[current].lifespan
    PROVE  ~Linked(current)
<1>1. toAcquire[current] = <<>>
  BY DoneIsDone
<1>2. \A r \in Resources : current \notin W(r)
  BY <1>1 DEF WaitInv, WaitersAsk, AsksNext, Pending
<1>3. current \notin F /\ current \notin R
  BY DEF PlaceInv, CurrentApart
<1> QED
  BY <1>2, <1>3, LinkedMeans

(* Nobody leaves the processor to a process that is not better.            *)
LEMMA BestGoesOn ==
    ASSUME BasicInv, QuietInv, StayInv, Sturdy, ShortestRuns, GoesBack
    PROVE  HasTime /\ policy \notin {"prio_srtf", "prio_prio"}
<1>1. TypeOK /\ current \in Pids /\ current # NoProcess /\ Yields(current')
  BY DEF GoesBack, BasicInv, NoProcess, Pids
<1>2. SUFFICES ASSUME current' \in R,
                      \/ /\ policy = "prio_srtf"
                         /\ script[current'].lifespan < script[current].lifespan
                      \/ policy = "prio_prio" /\ prio[current] < prio[current']
               PROVE  FALSE
  BY <1>1 DEF Yields, R
<1>3. PICK p \in Pids : p = current'
  BY <1>1, <1>2, ListsHoldPids
<1>4. CASE policy = "prio_srtf" /\ script[p].lifespan < script[current].lifespan
  <2>1. script[current].lifespan <= script[p].lifespan
    BY <1>1, <1>2, <1>3, <1>4 DEF ShortestRuns, Lifespan
  <2>2. script[current].lifespan \in Nat /\ script[p].lifespan \in Nat
    BY <1>1, ScriptFacts
  <2> QED
    BY <1>4, <2>1, <2>2
<1>5. CASE policy = "prio_prio" /\ prio[current] < prio[p]
  <2>1. prio[current] = prio[p] /\ prio[p] \in Nat
    <3>1. script[current].prio = script[p].prio
      BY <1>1, <1>5 DEF Sturdy, AllEqual
    <3>2. prio[current] = script[current].prio /\ prio[p] = script[p].prio
      BY <1>1, <1>5 DEF StayInv, PlainPrio, Fcfs
    <3> QED
      BY <1>1, <3>1, <3>2, ScriptFacts
  <2> QED
    BY <1>5, <2>1
<1> QED
  BY <1>2, <1>3, <1>4, <1>5

LEMMA ScheduleFinds ==
    ASSUME BasicInv, QuietInv, StayInv, Sturdy, ScheduleStep, Choice
    PROVE  \/ RrIsIdle'
           \/ pc' = "switch" /\ (Keeps \/ Picks \/ Idles \/ GoesBack)
<1>1. TypeOK /\ UNCHANGED policy
  BY DEF BasicInv, ScheduleStep
<1>2. CASE pc' = "null" /\ Crashes
  <2>1. CASE /\ policy \in {"sjf", "try_sjf", "prio_srtf"}
             /\ \E p \in ToSet(readyqueue) : script[p].lifespan >= SjfLimit
    <3>1. PICK p \in Pids : script[p].lifespan >= SjfLimit
      BY <1>1, <2>1, ListsHoldPids DEF R
    <3>2. script[p].lifespan < SjfLimit
      BY <2>1 DEF Sturdy, AllShort, Lifespan, SjfLimit
    <3>3. script[p].lifespan \in Nat
      BY <1>1, ScriptFacts
    <3> QED
      BY <3>1, <3>2, <3>3 DEF SjfLimit
  <2>2. CASE policy = "prio_prio" /\ \E p \in ToSet(readyqueue) : prio[p] = 0
    <3>1. PICK p \in Pids : prio[p] = 0
      BY <1>1, <2>2, ListsHoldPids DEF R
    <3>2. script[p].prio = 0
      BY <2>2, <3>1 DEF StayInv, PlainPrio, Fcfs
    <3>3. script[p].prio > 0
      BY <2>2 DEF Sturdy
    <3> QED
      BY <3>2, <3>3
  <2>3. CASE policy = "rr"
    BY <1>1, <1>2, <2>3 DEF RrIsIdle
  <2> QED
    BY <1>2, <2>1, <2>2, <2>3 DEF Crashes, Sturdy
<1>3. CASE pc' = "corrupt" /\ Blocked /\ ~LooksAtStatus
  <2>1. status[current] = "wait" /\ current \in Pids
    BY <1>1, <1>3 DEF Blocked, TypeOK
  <2> QED
    BY <1>1, <1>3, <2>1, SturdyMeans DEF NobodyWaits
<1> QED
  BY <1>1, <1>2, <1>3, ScheduleEffects DEF Ends

LEMMA ScheduleKeepsApart ==
    ASSUME BasicInv, PlaceInv, WaitInv, RequestInv, LifeInv, QuietInv, StayInv, Sturdy, Survived,
           ScheduleStep, Choice, pc' = "switch"
    PROVE  Apart'
<1>1. /\ pc = "schedule" /\ prev' = current /\ UNCHANGED <<script, forkqueue, waitqueue, age>>
      /\ TypeOK /\ ShortestRuns /\ WellFormed
  BY DEF ScheduleStep, BasicInv, Survived, RrIsIdle, Sturdy
<1>2. /\ IsInjective(readyqueue) /\ F \cap R = {} /\ current \notin F /\ current \notin R
      /\ \A r \in Resources : W(r) \cap R = {}
      /\ \A p \in Pids : status[p] = "wait" <=> \E r \in Resources : p \in W(r)
  BY <1>1 DEF PlaceInv, NobodyTwice, ListsApart, CurrentApart, WaitersWait
<1>3. Keeps \/ Picks \/ Idles \/ GoesBack
  BY <1>1, ScheduleFinds DEF RrIsIdle
<1>4. \A p : Linked(p)' <=> p \in F \/ p \in R' \/ \E r \in Resources : p \in W(r)
  BY <1>1 DEF Linked, F, R, W
<1>5. current' # NoProcess => ~Linked(current)'
  <2>1. CASE Keeps
    <3>1. current \in Pids /\ current' = current /\ readyqueue' = readyqueue
      BY <1>1, <1>2, <2>1 DEF Keeps, HasTime, TypeOK, R
    <3>2. status[current] # "wait"
      BY <1>1, <2>1, <3>1, SturdyMeans DEF Keeps, Blocked, NobodyWaits, NoProcess, Pids
    <3>3. ~(current \in F \/ current \in R' \/ \E r \in Resources : current \in W(r))
      BY <1>2, <3>1, <3>2 DEF R
    <3> QED
      BY <1>4, <3>1, <3>3 DEF Linked
  <2>2. CASE Picks
    <3>1. current' \in R /\ R' = R \ {current'}
      BY <1>2, <2>2 DEF Picks, R
    <3>2. ~(current' \in F \/ current' \in R' \/ \E r \in Resources : current' \in W(r))
      BY <1>2, <3>1
    <3> QED
      BY <1>4, <3>2 DEF Linked
  <2>3. CASE GoesBack
    <3>1. /\ current' \in R \cup {current} /\ R' = (R \cup {current}) \ {current'}
          /\ current \in Pids /\ status[current] # "wait"
      BY <1>2, <2>3 DEF GoesBack, R, Blocked, NoProcess, Pids
    <3>2. ~(current' \in F \/ current' \in R' \/ \E r \in Resources : current' \in W(r))
      BY <1>2, <3>1
    <3> QED
      BY <1>4, <3>2 DEF Linked
  <2> QED
    BY <1>3, <2>1, <2>2, <2>3 DEF Idles
<1>6. Finished' => ~Linked(prev)'
  <2>1. SUFFICES ASSUME current \in Pids, age[current] = script[current].lifespan
                 PROVE  current \notin R'
    <3>1. SUFFICES ASSUME Finished'
                   PROVE  ~Linked(prev)'
      OBVIOUS
    <3>2. current \in Pids /\ age[current] = script[current].lifespan
      BY <1>1, <3>1 DEF Finished, TypeOK
    <3>3. ~Linked(current) /\ current \notin R'
      BY <1>1, <2>1, <3>2, DoneIsNotBlocked
    <3>4. ~(current \in F \/ current \in R' \/ \E r \in Resources : current \in W(r))
      BY <3>3, LinkedMeans
    <3> QED
      BY <1>1, <1>4, <3>4 DEF Linked
  <2>2. ~HasTime
    <3>1. age[current] \in Nat
      BY <1>1, <2>1, HeldFacts
    <3> QED
      BY <2>1, <3>1 DEF HasTime, Unfinished
  <2>3. ~Keeps /\ ~GoesBack
    BY <1>1, <2>2, BestGoesOn DEF Keeps
  <2> QED
    BY <1>2, <1>3, <2>3 DEF Picks, Idles, R
<1> QED
  BY <1>5, <1>6 DEF Apart

(* Where all come together, the first switch comes after the last fork.    *)
LEMMA ScheduleKeepsShortest ==
    ASSUME BasicInv, PlaceInv, LifeInv, QuietInv, StayInv, DueInv, Sturdy, Survived,
           ScheduleStep, Choice, pc' = "switch"
    PROVE  ShortestRuns'
<1>1. /\ pc = "schedule" /\ TypeOK /\ ShortestRuns
      /\ UNCHANGED <<policy, script, ticks, forkqueue>>
  BY DEF ScheduleStep, BasicInv, Survived, RrIsIdle
<1>2. SUFFICES ASSUME policy = "prio_srtf", current' # NoProcess
               PROVE  F = {} /\ \A p \in R' : script[current'].lifespan <= script[p].lifespan
  BY <1>1 DEF ShortestRuns, Lifespan, F
<1>3. Keeps \/ Picks
  BY <1>1, <1>2, ScheduleFinds, BestGoesOn DEF RrIsIdle, Idles
<1>4. CASE Keeps
  BY <1>1, <1>2, <1>4 DEF Keeps, HasTime, ShortestRuns, Lifespan, R
<1>5. CASE Picks
  <2>1. current' \in R /\ current' \in Pids /\ R' \subseteq R
    BY <1>5 DEF Picks, R
  <2>2. PICK c \in Pids : c = current'
    BY <2>1
  <2>3. \A p \in R : script[c].lifespan <= script[p].lifespan
    BY <1>2, <1>5, <2>2 DEF Picks, Finds, R
  <2>4. c \notin F
    BY <1>1, <2>1, <2>2 DEF PlaceInv, ListsApart
  <2>5. F = {}
    <3>1. SUFFICES ASSUME NEW p \in F
                   PROVE  FALSE
      OBVIOUS
    <3>2. p \in Pids /\ script[p].start > ticks
      BY <1>1, ListsHoldPids DEF DueInv
    <3>3. script[c].start <= ticks
      BY <2>4 DEF LifeInv, Started
    <3>4. script[c].start = script[p].start
      BY <1>2, <3>2 DEF Sturdy, AllTogether
    <3>5. ticks \in Nat /\ script[p].start \in Nat
      BY <1>1, <3>2, ScriptFacts DEF TypeOK
    <3> QED
      BY <3>2, <3>3, <3>4, <3>5
  <2> QED
    BY <2>1, <2>2, <2>3, <2>5
<1> QED
  BY <1>3, <1>4, <1>5

LEMMA ForkSurvives ==
    ASSUME BasicInv, Survived, Fork
    PROVE  Survived'
<1>1. /\ pc = "fork" /\ pc' \in {"fork", "schedule"} /\ ShortestRuns
      /\ UNCHANGED <<policy, script, current>>
  BY ForkCases DEF ForkRound, Survived, RrIsIdle
<1>2. ShortestRuns'
  <2>1. SUFFICES ASSUME policy = "prio_srtf", current # NoProcess
                 PROVE  ShortestRuns'
    BY <1>1 DEF ShortestRuns
  <2>2. F = {}
    BY <1>1, <2>1 DEF ShortestRuns
  <2>3. UNCHANGED <<forkqueue, readyqueue>>
    BY <2>2, ForkCases, ForkEffects DEF BasicInv, F
  <2> QED
    BY <1>1, <2>3 DEF ShortestRuns, F, R, Lifespan
<1> QED
  BY <1>1, <1>2 DEF Survived, Apart, Faults

LEMMA SwitchSurvives ==
    ASSUME BasicInv, RequestInv, Sturdy, Survived, Switch
    PROVE  Survived'
<1>1. /\ pc = "switch" /\ Apart /\ ShortestRuns
      /\ UNCHANGED <<policy, script, current, forkqueue, readyqueue>>
  BY DEF Switch, Survived, RrIsIdle
<1>2. Finished => ExitAsserts
  <2>1. SUFFICES ASSUME Finished
                 PROVE  ExitAsserts
    OBVIOUS
  <2>2. prev \in Pids /\ age[prev] = script[prev].lifespan
    BY <2>1 DEF Finished, BasicInv, TypeOK
  <2>3. holding[prev] = <<>> /\ toAcquire[prev] = <<>>
    BY <1>1, <2>2, DoneIsDone DEF Sturdy
  <2> QED
    BY <1>1, <2>1, <2>3 DEF Apart, ExitAsserts
<1>3. pc' \in {"run", "end", "fork"}
  BY <1>1, <1>2, SwitchCases DEF BasicInv, Apart, EndTick, NoProcess, Pids
<1>4. ShortestRuns'
  BY <1>1 DEF ShortestRuns, F, R, Lifespan
<1> QED
  BY <1>3, <1>4 DEF Survived, Apart, Faults

LEMMA ReleaseSurvives ==
    ASSUME BasicInv, PlaceInv, RequestInv, QuietInv, Sturdy, Survived, AnyRelease
    PROVE  Survived'
<1>1. /\ pc = "release" /\ ShortestRuns /\ pc' = "release"
      /\ UNCHANGED <<policy, script, current, forkqueue>>
  BY ReleaseGoes DEF AnyRelease, Survived, RrIsIdle
<1>2. ShortestRuns'
  <2>1. SUFFICES ASSUME policy = "prio_srtf"
                 PROVE  ShortestRuns'
    BY <1>1 DEF ShortestRuns
  <2>2. NobodyWaits
    BY <2>1, SturdyMeans DEF LooksAtStatus, BasicInv
  <2>3. Released \in Resources
    BY ReleaseEffects DEF BasicInv
  <2>4. UNCHANGED readyqueue
    BY <2>2, <2>3, WakeEffects DEF NobodyWaits, W, WakesProcess, BasicInv
  <2> QED
    BY <1>1, <2>4 DEF ShortestRuns, F, R, Lifespan
<1> QED
  BY <1>1, <1>2 DEF Survived, Apart, Faults

LEMMA OthersSurvive ==
    ASSUME Survived, AnyGrant \/ AnyRefusal \/ Work \/ NextTick \/ UNCHANGED draftVars
    PROVE  Survived'
<1>1. CASE AnyGrant \/ AnyRefusal \/ Work \/ NextTick
  <2>1. /\ pc \in {"run", "release"} /\ pc' \in {"run", "release", "fork"}
        /\ UNCHANGED <<policy, script, current, forkqueue, readyqueue>>
    BY <1>1 DEF AnyGrant, AnyRefusal, Work, NextTick, EndTick
  <2>2. ShortestRuns'
    BY <2>1 DEF Survived, RrIsIdle, ShortestRuns, F, R, Lifespan
  <2> QED
    BY <2>1, <2>2 DEF Survived, Apart, Faults
<1>2. CASE UNCHANGED draftVars
  <2>1. UNCHANGED <<policy, script, pc, current, prev, age, forkqueue, readyqueue, waitqueue>>
    BY <1>2 DEF draftVars, schedVars
  <2>2. Apart' = Apart /\ ShortestRuns' = ShortestRuns /\ RrIsIdle' = RrIsIdle
    BY <2>1 DEF Apart, ShortestRuns, RrIsIdle, Linked, Finished, F, R, Lifespan
  <2> QED
    BY <2>1, <2>2 DEF Survived
<1> QED
  BY <1>1, <1>2

LEMMA SurviveStep ==
    ASSUME BasicInv, PlaceInv, WaitInv, RequestInv, LifeInv, QuietInv, StayInv, DueInv,
           SurviveInv, [DraftNext]_draftVars
    PROVE  SurviveInv'
<1>1. SUFFICES ASSUME Sturdy
               PROVE  Survived'
  BY ScriptsStay, SturdyStays DEF SurviveInv
<1>2. Survived /\ (AnyNext \/ UNCHANGED draftVars)
  BY <1>1, StepsAreAny DEF SurviveInv, BasicInv
<1>3. CASE ScheduleStep /\ Choice
  <2>1. RrIsIdle' \/ pc' = "switch"
    BY <1>1, <1>3, ScheduleFinds
  <2>2. pc' = "switch" => Apart' /\ ShortestRuns'
    BY <1>1, <1>2, <1>3, ScheduleKeepsApart, ScheduleKeepsShortest
  <2> QED
    BY <2>1, <2>2 DEF Survived, Faults
<1> QED
  BY <1>1, <1>2, <1>3, ForkSurvives, SwitchSurvives, ReleaseSurvives, OthersSurvive DEF AnyNext

LEMMA SurviveAlways == DraftSpec => []SurviveInv
<1>1. DraftInit => SurviveInv
  BY DEF DraftInit, Load, SurviveInv, Survived, Apart, ShortestRuns, Faults
<1>2. /\ BasicInv /\ PlaceInv /\ WaitInv /\ RequestInv /\ LifeInv /\ QuietInv /\ StayInv /\ DueInv
      /\ SurviveInv /\ [DraftNext]_draftVars
      => SurviveInv'
  BY SurviveStep
<1> QED
  BY <1>1, <1>2, BasicAlways, PlaceAlways, WaitAlways, RequestAlways, LifeAlways, QuietAlways,
     StayAlways, DueAlways, PTL DEF DraftSpec

(* A list without repetitions has a process once or not at all.            *)
LEMMA CountFacts ==
    ASSUME NEW s \in Seq(Pids), IsInjective(s), NEW p \in Pids
    PROVE  Count(s, p) = IF p \in ToSet(s) THEN 1 ELSE 0
<1> DEFINE At == {i \in DOMAIN s : s[i] = p}
<1>1. CASE p \in ToSet(s)
  <2>1. PICK i \in DOMAIN s : s[i] = p
    BY <1>1 DEF ToSet
  <2>2. At = {i}
    BY <2>1 DEF IsInjective
  <2> QED
    BY <1>1, <2>2, FS_Singleton DEF Count
<1>2. CASE p \notin ToSet(s)
  <2>1. At = {}
    BY <1>2 DEF ToSet
  <2> QED
    BY <1>2, <2>1, FS_EmptySet DEF Count
<1> QED
  BY <1>1, <1>2

LEMMA EverybodyIsInOnePlace ==
    ASSUME BasicInv, PlaceInv, StandInv, Apart, pc \notin Faults, Remembers,
           \A p \in Pids : ~Lifeless(p)
    PROVE  InOnePlace
<1> DEFINE Waits(p) == {r \in Resources : p \in ToSet(waitqueue[r])}
           Out(p) == Detached(p) \/ status[p] = "exit"
<1>1. /\ NobodyTwice /\ ListsApart /\ CurrentApart /\ WaitersWait /\ TypeOK
      /\ Exited /\ NoPrev /\ Somewhere
  BY DEF PlaceInv, Faults, BasicInv, StandInv
<1>2. SUFFICES ASSUME NEW p \in Pids
               PROVE  Cardinality(Waits(p)) + Count(forkqueue, p) + Count(readyqueue, p)
                      + (IF Out(p) THEN 1 ELSE 0) = 1
  BY DEF InOnePlace
<1>3. /\ Count(forkqueue, p) = IF p \in F THEN 1 ELSE 0
      /\ Count(readyqueue, p) = IF p \in R THEN 1 ELSE 0
  BY <1>1, CountFacts DEF NobodyTwice, TypeOK, F, R
<1>4. Cardinality(Waits(p)) = IF \E r \in Resources : p \in W(r) THEN 1 ELSE 0
  <2>1. CASE \E r \in Resources : p \in W(r)
    <3>1. PICK r \in Resources : p \in W(r)
      BY <2>1
    <3>2. Waits(p) = {r}
      BY <1>1, <3>1 DEF ListsApart, W
    <3> QED
      BY <2>1, <3>2, FS_Singleton
  <2>2. CASE ~\E r \in Resources : p \in W(r)
    <3>1. Waits(p) = {}
      BY <2>2 DEF W
    <3> QED
      BY <2>2, <3>1, FS_EmptySet
  <2> QED
    BY <2>1, <2>2
<1>5. Out(p) <=> ~Linked(p)
  <2>1. p # NoProcess /\ (status[p] = "wait" <=> \E r \in Resources : p \in W(r))
    BY <1>1 DEF WaitersWait, Faults, NoProcess, Pids
  <2>2. ASSUME Linked(p)
        PROVE  ~Out(p)
    <3>1. status[p] # "exit"
      BY <1>1, <2>2 DEF Exited, Gone
    <3>2. p = current => status[p] = "wait"
      BY <1>1, <2>1, <2>2, LinkedMeans DEF CurrentApart
    <3>3. ~(p = prev /\ Finished)
      BY <1>1, <2>1, <2>2 DEF NoPrev, Apart
    <3> QED
      BY <3>1, <3>2, <3>3 DEF Detached
  <2>3. ASSUME ~Linked(p)
        PROVE  Out(p)
    <3>1. p = current \/ status[p] = "exit" \/ (p = prev /\ Finished)
      BY <1>1, <2>3 DEF Somewhere, Lost
    <3>2. status[p] # "wait"
      BY <2>1, <2>3, LinkedMeans
    <3> QED
      BY <3>1, <3>2 DEF Detached
  <2> QED
    BY <2>2, <2>3
<1>6. /\ Linked(p) <=> p \in F \/ p \in R \/ \E r \in Resources : p \in W(r)
      /\ ~(p \in F /\ p \in R)
      /\ \A r \in Resources : ~(p \in W(r) /\ (p \in F \/ p \in R))
  BY <1>1, LinkedMeans DEF ListsApart
<1> HIDE DEF Waits, Out
<1> QED
  BY <1>3, <1>4, <1>5, <1>6

-----------------------------------------------------------------------------
(* Who comes together and is equal takes turns. The ready queue, with      *)
(* current at its head while it is its turn and at its tail once it has    *)
(* had it, holds equals in the order of their ages, one tick apart.        *)

Sharing == policy \in {"rr", "prio", "pcp", "pip"} /\ \A p \in Pids : script[p].acquire = <<>>
Equals(p, q) ==
    /\ Unfinished(p) /\ Unfinished(q)
    /\ script[p].start = script[q].start
    /\ policy # "rr" => script[p].prio = script[q].prio
Leads(p, q) == age[p] <= age[q] /\ age[q] <= age[p] + 1
Precedes(s, p, q) == \E i, j \in DOMAIN s : i < j /\ s[i] = p /\ s[j] = q
InOrder(s) == \A p, q \in Pids : Equals(p, q) /\ Precedes(s, p, q) => Leads(p, q)
Turns ==
    /\ InOrder(readyqueue)
    /\ current # NoProcess =>
          \A p \in R : Equals(p, current) =>
              IF pc \in {"switch", "run"} THEN Leads(current, p) ELSE Leads(p, current)
OwnPrios == \A p \in Pids : prio[p] = script[p].prio
TicksApart == \A p, q \in Pids : Equals(p, q) => age[p] <= age[q] + 1
ShareInv == Sharing => OwnPrios /\ TicksApart /\ (pc \notin Faults => Turns)

(* What is taken out of a queue leaves the others in their order.          *)
LEMMA RemovalsKeepOrder ==
    ASSUME NEW s \in Seq(Pids), NEW x, NEW p, NEW q, Precedes(RemoveFirst(s, x), p, q)
    PROVE  Precedes(s, p, q)
<1> DEFINE I == {i \in 1 .. Len(s) : s[i] = x}
<1>1. Len(s) \in Nat /\ DOMAIN s = 1 .. Len(s)
  BY LenProperties
<1>2. CASE I = {}
  <2>1. RemoveFirst(s, x) = s
    BY <1>2, Zenon DEF RemoveFirst
  <2> QED
    BY <2>1
<1>3. CASE I # {}
  <2>1. \E i \in 1 .. Len(s) : s[i] = x
    BY <1>3, Zenon
  <2>2. RemoveFirst(s, x) = RemoveAt(s, Min(I))
    BY <1>3, <2>1, Zenon DEF RemoveFirst, SelectInSeq
  <2>3. I \in SUBSET Nat
    BY <1>1
  <2>4. PICK k \in 1 .. Len(s) : k = Min(I)
    BY <1>3, <2>3, MinIsLeast
  <2> HIDE DEF I
  <2>5. PICK r : r = RemoveFirst(s, x)
    OBVIOUS
  <2>6. DOMAIN r = 1 .. Len(s) - 1
        /\ \A j \in 1 .. Len(s) - 1 : r[j] = IF j < k THEN s[j] ELSE s[j + 1]
    BY <2>2, <2>4, <2>5, RemoveAtFacts
  <2>7. PICK i, j \in DOMAIN r : i < j /\ r[i] = p /\ r[j] = q
    BY <2>5 DEF Precedes
  <2>8. PICK a \in DOMAIN s : a = IF i < k THEN i ELSE i + 1
    BY <1>1, <2>6, <2>7
  <2>9. PICK b \in DOMAIN s : b = IF j < k THEN j ELSE j + 1
    BY <1>1, <2>6, <2>7
  <2>10. a < b /\ s[a] = p /\ s[b] = q
    BY <1>1, <2>6, <2>7, <2>8, <2>9
  <2> QED
    BY <2>10 DEF Precedes
<1> QED
  BY <1>2, <1>3

LEMMA AppendsComeLast ==
    ASSUME NEW s \in Seq(Pids), NEW x \in Pids, NEW p, NEW q, Precedes(Append(s, x), p, q)
    PROVE  Precedes(s, p, q) \/ (p \in ToSet(s) /\ q = x)
<1>1. /\ Len(s) \in Nat /\ DOMAIN s = 1 .. Len(s)
      /\ DOMAIN Append(s, x) = 1 .. Len(s) + 1
      /\ Append(s, x)[Len(s) + 1] = x
      /\ \A i \in 1 .. Len(s) : Append(s, x)[i] = s[i]
  BY LenProperties, AppendProperties
<1>2. PICK t : t = Append(s, x)
  OBVIOUS
<1>3. PICK i, j \in DOMAIN t : i < j /\ t[i] = p /\ t[j] = q
  BY <1>2 DEF Precedes
<1>4. i \in DOMAIN s /\ s[i] = p
  BY <1>1, <1>2, <1>3
<1>5. CASE j \in DOMAIN s
  BY <1>1, <1>2, <1>3, <1>4, <1>5 DEF Precedes
<1>6. CASE j \notin DOMAIN s
  BY <1>1, <1>2, <1>3, <1>4, <1>6 DEF ToSet
<1> QED
  BY <1>5, <1>6

(* The policies that give everybody a turn take the first of equals.       *)
LEMMA FirstIsAhead ==
    ASSUME TypeOK, NEW s \in Seq(Pids), NEW p \in ToSet(s), p # First(s),
           policy # "rr" => prio[p] = prio[First(s)]
    PROVE  Precedes(s, First(s), p)
<1>1. Len(s) \in Nat /\ DOMAIN s = 1 .. Len(s) /\ \A i \in DOMAIN s : s[i] \in Pids
  BY LenProperties, ElementOfSeq
<1>2. PICK j \in DOMAIN s : s[j] = p
  BY DEF ToSet
<1>3. CASE policy = "rr"
  <2>1. 1 \in DOMAIN s /\ First(s) = s[1]
    BY <1>1, <1>2, <1>3 DEF First
  <2>2. 1 < j
    BY <1>1, <1>2, <2>1
  <2> QED
    BY <1>2, <2>1, <2>2 DEF Precedes
<1>4. CASE policy # "rr"
  <2>1. s # <<>> /\ prio \in [Pids -> Nat] /\ prio \in [Pids -> Int]
    <3>1. prio \in [Pids -> Nat]
      BY DEF TypeOK
    <3> QED
      BY <1>2, <3>1, RanksAreNumbers
  <2>2. PICK i \in DOMAIN s : /\ FirstBest(s, prio) = s[i]
                              /\ \A k \in 1 .. (i - 1) : prio[s[k]] < prio[s[i]]
    BY <2>1, FirstBestIsBest
  <2>3. First(s) = s[i]
    BY <1>4, <2>2 DEF First, Highest
  <2>4. i # j /\ prio[s[j]] = prio[s[i]] /\ prio[s[i]] \in Nat
    BY <1>1, <1>2, <1>4, <2>1, <2>3
  <2>5. ~(j < i)
    BY <1>1, <2>2, <2>4
  <2>6. i < j
    BY <1>1, <2>4, <2>5
  <2> QED
    BY <1>2, <2>3, <2>6 DEF Precedes
<1> QED
  BY <1>3, <1>4

(* Nothing is asked for, given back or lent.                               *)
LEMMA SharersOnlyWork ==
    ASSUME BasicInv, RequestInv, QuietInv, Sharing
    PROVE  NobodyWaits /\ ~AnyGrant /\ ~AnyRefusal /\ ~AnyRelease
<1>1. \A p \in Pids : Asks(p) = {}
  BY DEF Sharing, Asks, ToSet
<1>2. NobodyWaits
  <2>1. Uncontended
    BY <1>1 DEF Uncontended, NoneBlocksItself, Wants
  <2> QED
    BY <2>1 DEF QuietInv
<1>3. ~AnyGrant
  <2>1. SUFFICES ASSUME AnyGrant
                 PROVE  FALSE
    OBVIOUS
  <2>2. current \in Pids /\ NextRequest(current) \in ToSet(toAcquire[current])
    BY <2>1, GrantEffects DEF BasicInv
  <2> QED
    BY <1>1, <2>2 DEF BasicInv, ToDo
<1>4. ~AnyRefusal
  <2>1. SUFFICES ASSUME AnyRefusal
                 PROVE  FALSE
    OBVIOUS
  <2>2. current \in Pids /\ NextRequest(current) \in ToSet(toAcquire[current])
    BY <2>1, RefusalEffects DEF BasicInv
  <2> QED
    BY <1>1, <2>2 DEF BasicInv, ToDo
<1>5. ~AnyRelease
  <2>1. SUFFICES ASSUME AnyRelease
                 PROVE  FALSE
    OBVIOUS
  <2>2. PICK h \in ToSet(holding[current]) : current \in Pids
    BY <2>1, ReleaseEffects DEF BasicInv
  <2> QED
    BY <1>1, <2>2 DEF RequestInv, Granted
<1> QED
  BY <1>2, <1>3, <1>4, <1>5

(* Who is not done is to come, is ready or is current.                     *)
LEMMA SharersAreThere ==
    ASSUME BasicInv, RequestInv, QuietInv, StandInv, Sharing, pc \notin Faults,
           NEW p \in Pids, Unfinished(p)
    PROVE  p \in F \/ p \in R \/ p = current
<1>1. NobodyWaits /\ Exited /\ Somewhere
  BY SharersOnlyWork DEF StandInv
<1>2. age[p] \in Nat /\ script[p].lifespan \in Nat /\ age[p] < script[p].lifespan
  BY HeldFacts, ScriptFacts DEF BasicInv, Unfinished
<1>3. status[p] # "exit" /\ ~Lost(p) /\ ~(p = prev /\ Finished)
  BY <1>1, <1>2 DEF Exited, Gone, Lost, Lifeless, Finished
<1>4. Remembers
  BY DEF Sharing, Remembers
<1>5. Linked(p) \/ p = current
  BY <1>1, <1>3, <1>4 DEF Somewhere
<1> QED
  BY <1>1, <1>5, LinkedMeans DEF NobodyWaits

(* Equals that take turns are never two ticks apart.                       *)
LEMMA TurnsAreFair ==
    ASSUME BasicInv, PlaceInv, RequestInv, LifeInv, QuietInv, StandInv, FreshInv, DueInv,
           Sharing, pc \notin Faults, Turns
    PROVE  TicksApart
<1>1. SUFFICES ASSUME NEW p \in Pids, NEW q \in Pids, Equals(p, q), p # q
               PROVE  age[p] <= age[q] + 1
  <2>1. \A p \in Pids : age[p] <= age[p] + 1
    BY HeldFacts DEF BasicInv
  <2> QED
    BY <1>1, <2>1 DEF TicksApart
<1>2. /\ p \in F \/ p \in R \/ p = current
      /\ q \in F \/ q \in R \/ q = current
  BY <1>1, SharersAreThere DEF Equals
<1>3. /\ age[p] \in Nat /\ age[q] \in Nat /\ p # NoProcess /\ q # NoProcess
      /\ script[p].start \in Nat /\ script[q].start \in Nat /\ ticks \in Nat
  <2>1. TypeOK /\ ticks \in Nat
    BY DEF BasicInv, TypeOK
  <2>2. p # NoProcess /\ q # NoProcess
    BY DEF NoProcess, Pids
  <2> QED
    BY <2>1, <2>2, HeldFacts, ScriptFacts
<1>4. Equals(q, p)
  BY <1>1 DEF Equals
<1>5. CASE p \in F
  BY <1>3, <1>5 DEF FreshInv, Newborn
<1>6. CASE q \in F /\ p \notin F
  <2>1. script[p].start <= ticks /\ script[p].start = script[q].start
    BY <1>1, <1>6 DEF LifeInv, Started, Equals
  <2>2. pc # "end"
    BY <1>6 DEF StandInv, NoPrev, F, ToSet
  <2>3. pc = "fork"
    <3>1. pc \notin {"schedule", "switch", "run", "release"}
      BY <1>3, <1>6, <2>1 DEF DueInv
    <3>2. pc \in {"fork", "schedule", "switch", "run", "release", "end"} \cup Faults
      BY DEF BasicInv, TypeOK
    <3> QED
      BY <2>2, <3>1, <3>2
  <2>4. age[p] = 0
    BY <1>6, <2>1, <2>3 DEF DueInv
  <2> QED
    BY <1>3, <2>4
<1>7. CASE p \in R /\ q \in R
  <2>1. PICK i \in DOMAIN readyqueue : readyqueue[i] = p
    BY <1>7 DEF R, ToSet
  <2>2. PICK j \in DOMAIN readyqueue : readyqueue[j] = q
    BY <1>7 DEF R, ToSet
  <2>3. i < j \/ j < i
    BY <1>1, <2>1, <2>2, LenProperties DEF BasicInv, TypeOK
  <2>4. Precedes(readyqueue, p, q) \/ Precedes(readyqueue, q, p)
    BY <2>1, <2>2, <2>3 DEF Precedes
  <2>5. Leads(p, q) \/ Leads(q, p)
    BY <1>1, <1>4, <2>4 DEF Turns, InOrder
  <2> QED
    BY <1>3, <2>5 DEF Leads
<1>8. CASE p \in R /\ q = current
  BY <1>1, <1>3, <1>8 DEF Turns, Leads
<1>9. CASE p = current /\ q \in R
  BY <1>3, <1>4, <1>9 DEF Turns, Leads
<1> QED
  BY <1>1, <1>2, <1>5, <1>6, <1>7, <1>8, <1>9

LEMMA ShareInit ==
    ASSUME DraftInit
    PROVE  ShareInv
<1>1. /\ readyqueue = <<>> /\ current = NoProcess /\ age = [p \in Pids |-> 0]
      /\ prio = [p \in Pids |-> script[p].prio]
  BY DEF DraftInit, Load
<1> QED
  BY <1>1 DEF ShareInv, OwnPrios, TicksApart, Turns, InOrder, Precedes

LEMMA SharingStays ==
    ASSUME UNCHANGED <<policy, script>>
    PROVE  Sharing' = Sharing
BY DEF Sharing

(* A step in which nobody gets older leaves equals equal.                  *)
LEMMA AgesStay ==
    ASSUME UNCHANGED <<policy, script, age>>
    PROVE  /\ \A p, q : Equals(p, q)' = Equals(p, q) /\ Leads(p, q)' = Leads(p, q)
           /\ TicksApart' = TicksApart
BY DEF Equals, Leads, TicksApart, Unfinished

(* Who is forked joins equals that have not run either.                    *)
LEMMA ForkShares ==
    ASSUME BasicInv, FreshInv, DueInv, Turns, Fork
    PROVE  Turns'
<1>1. /\ pc = "fork" /\ pc' \in {"fork", "schedule"} /\ TypeOK
      /\ UNCHANGED <<policy, script, ticks, current, age>>
  BY ForkCases DEF ForkRound, BasicInv
<1>2. \A p, q : Equals(p, q)' = Equals(p, q) /\ Leads(p, q)' = Leads(p, q)
  BY <1>1, AgesStay
<1>3. CASE UNCHANGED readyqueue
  BY <1>1, <1>2, <1>3 DEF Turns, InOrder, R
<1>4. CASE ForkRound
  <2>1. PICK n \in F : /\ n \in Pids /\ script[n].start <= ticks
                       /\ readyqueue' = Append(readyqueue, n) /\ R' = R \cup {n}
    BY <1>1, <1>4, ForkEffects DEF F, R
  <2>2. age[n] = 0 /\ \A p \in Pids : Equals(p, n) => age[p] = 0
    BY <1>1, <2>1 DEF DueInv, Equals, FreshInv, Newborn
  <2>3. \A p \in Pids : Equals(p, n) => Leads(p, n) /\ Leads(n, p)
    BY <2>2 DEF Leads
  <2>4. InOrder(Append(readyqueue, n))
    <3>1. SUFFICES ASSUME NEW p \in Pids, NEW q \in Pids, Equals(p, q),
                          Precedes(Append(readyqueue, n), p, q)
                   PROVE  Leads(p, q)
      BY DEF InOrder
    <3>2. Precedes(readyqueue, p, q) \/ q = n
      BY <1>1, <2>1, <3>1, AppendsComeLast DEF TypeOK
    <3> QED
      BY <2>3, <3>1, <3>2 DEF Turns, InOrder
  <2>5. ASSUME current # NoProcess, NEW p \in R \cup {n}, Equals(p, current)
        PROVE  Leads(p, current)
    <3>1. current \in Pids /\ Equals(current, p)
      BY <1>1, <2>5 DEF TypeOK, Equals
    <3>2. CASE p = n
      BY <2>3, <3>1, <3>2
    <3>3. CASE p \in R
      BY <1>1, <2>5, <3>3 DEF Turns
    <3> QED
      BY <2>5, <3>2, <3>3
  <2> QED
    BY <1>1, <1>2, <2>1, <2>4, <2>5 DEF Turns, InOrder
<1> QED
  BY <1>3, <1>4, ForkCases

(* The first of a queue that is in order has its turn.                     *)
LEMMA FirstLeads ==
    ASSUME TypeOK, OwnPrios, NEW s \in Seq(Pids), IsInjective(s), InOrder(s),
           NEW c \in ToSet(s), c = First(s)
    PROVE  /\ InOrder(RemoveFirst(s, c))
           /\ \A p \in ToSet(RemoveFirst(s, c)) : Equals(p, c) => Leads(c, p)
<1>1. InOrder(RemoveFirst(s, c))
  BY RemovalsKeepOrder DEF InOrder
<1>2. SUFFICES ASSUME NEW p \in ToSet(RemoveFirst(s, c)), Equals(p, c)
               PROVE  Leads(c, p)
  BY <1>1
<1>3. p \in ToSet(s) /\ p # c /\ p \in Pids /\ c \in Pids
  BY <1>2, RemoveFirstKeeps, ElementsArePids
<1>4. policy # "rr" => prio[p] = prio[c]
  BY <1>2, <1>3 DEF OwnPrios, Equals
<1>5. Precedes(s, c, p)
  BY <1>3, <1>4, FirstIsAhead
<1> QED
  BY <1>2, <1>3, <1>5 DEF InOrder, Equals

LEMMA ScheduleShares ==
    ASSUME BasicInv, PlaceInv, Sharing, OwnPrios, Turns, ScheduleStep, Choice, pc' = "switch"
    PROVE  Turns'
<1>1. /\ pc = "schedule" /\ TypeOK /\ InTurn
      /\ UNCHANGED <<policy, script, age>> /\ readyqueue \in Seq(Pids)
  BY DEF ScheduleStep, BasicInv, TypeOK, Sharing, InTurn
<1>2. /\ \A p, q : Equals(p, q)' = Equals(p, q) /\ Leads(p, q)' = Leads(p, q)
      /\ InOrder(readyqueue)
  BY <1>1, AgesStay DEF Turns
<1>3. IsInjective(readyqueue) /\ current \notin R
  BY <1>1 DEF PlaceInv, NobodyTwice, CurrentApart
<1>4. SUFFICES /\ InOrder(readyqueue')
               /\ current' # NoProcess =>
                     \A p \in R' : Equals(p, current') => Leads(current', p)
  BY <1>2 DEF Turns, InOrder
<1>5. CASE Keeps \/ Idles
  <2>1. readyqueue' = <<>>
    BY <1>1, <1>3, <1>5 DEF Keeps, Idles, R
  <2> QED
    BY <2>1 DEF InOrder, Precedes, R, ToSet
<1>6. CASE Picks
  <2>1. /\ current' \in ToSet(readyqueue) /\ current' = First(readyqueue)
        /\ readyqueue' = RemoveFirst(readyqueue, current')
    BY <1>1, <1>6 DEF Picks, Finds
  <2> QED
    BY <1>1, <1>2, <1>3, <2>1, FirstLeads DEF R
<1>7. CASE GoesBack
  <2> DEFINE s == Append(readyqueue, current)
  <2>1. /\ current \in Pids /\ current # NoProcess /\ current' \in R \cup {current}
        /\ current' = First(s) /\ readyqueue' = RemoveFirst(s, current')
    BY <1>1, <1>7 DEF GoesBack, R, NoProcess, Pids
  <2>2. s \in Seq(Pids) /\ IsInjective(s) /\ ToSet(s) = R \cup {current}
    BY <1>1, <1>3, <2>1, AppendKeeps DEF R
  <2>3. InOrder(s)
    <3>1. SUFFICES ASSUME NEW p \in Pids, NEW q \in Pids, Equals(p, q), Precedes(s, p, q)
                   PROVE  Leads(p, q)
      BY DEF InOrder
    <3>2. Precedes(readyqueue, p, q) \/ (p \in R /\ q = current)
      BY <1>1, <2>1, <3>1, AppendsComeLast DEF R
    <3> QED
      BY <1>1, <1>2, <2>1, <3>1, <3>2 DEF Turns, InOrder
  <2> HIDE DEF s
  <2> QED
    BY <1>1, <2>1, <2>2, <2>3, FirstLeads DEF R
<1> QED
  BY <1>1, <1>5, <1>6, <1>7, ScheduleEffects DEF Ends

LEMMA WorkShares ==
    ASSUME BasicInv, PlaceInv, Turns, Work
    PROVE  Turns'
<1>1. /\ pc = "run" /\ pc' = "release" /\ UNCHANGED <<policy, script, current, readyqueue>>
      /\ current \in Pids /\ current # NoProcess /\ R' = R
  BY DEF Work, BasicInv, Runs, R, NoProcess, Pids
<1>2. /\ \A p \in Pids : age[p] \in Nat /\ (p # current => age'[p] = age[p])
      /\ age'[current] = age[current] + 1
  BY <1>1 DEF Work, BasicInv, TypeOK
<1>3. current \notin R /\ R \subseteq Pids
  BY <1>1, ListsHoldPids DEF PlaceInv, CurrentApart, BasicInv
<1>4. \A p, q : Equals(p, q)' => /\ age'[p] < script[p].lifespan /\ age'[q] < script[q].lifespan
                                 /\ script[p].start = script[q].start
                                 /\ policy # "rr" => script[p].prio = script[q].prio
  BY <1>1 DEF Equals, Unfinished
<1>5. \A p, q \in Pids : Equals(p, q)' => Equals(p, q)
  <2>1. \A p \in Pids : script[p].lifespan \in Nat
    BY ScriptFacts DEF BasicInv
  <2>2. \A p \in Pids : age'[p] < script[p].lifespan => age[p] < script[p].lifespan
    BY <1>2, <2>1
  <2> QED
    BY <1>4, <2>2 DEF Equals, Unfinished
<1>6. InOrder(readyqueue)'
  <2>1. SUFFICES ASSUME NEW p \in Pids, NEW q \in Pids, Equals(p, q)', Precedes(readyqueue, p, q)
                 PROVE  Leads(p, q)'
    BY <1>1 DEF InOrder, Precedes
  <2>2. p \in R /\ q \in R
    BY <2>1 DEF Precedes, R, ToSet
  <2>3. Leads(p, q)
    BY <1>5, <2>1 DEF Turns, InOrder
  <2> QED
    BY <1>2, <1>3, <2>2, <2>3 DEF Leads
<1>7. ASSUME NEW p \in R, Equals(p, current)'
      PROVE  Leads(p, current)'
  <2>1. Leads(current, p)
    BY <1>1, <1>3, <1>5, <1>7 DEF Turns
  <2> QED
    BY <1>1, <1>2, <1>3, <2>1 DEF Leads
<1> QED
  BY <1>1, <1>6, <1>7 DEF Turns

LEMMA OtherShares ==
    ASSUME TypeOK, Turns, pc' \notin Faults, Switch \/ NextTick \/ UNCHANGED draftVars
    PROVE  Turns'
<1>1. /\ UNCHANGED <<policy, script, current, readyqueue, age>>
      /\ \/ current = NoProcess
         \/ pc \in {"switch", "run"} <=> pc' \in {"switch", "run"}
  BY SwitchCases DEF Switch, NextTick, EndTick, Faults, draftVars, schedVars
<1>2. \A p, q : Equals(p, q)' = Equals(p, q) /\ Leads(p, q)' = Leads(p, q)
  BY <1>1, AgesStay
<1> QED
  BY <1>1, <1>2 DEF Turns, InOrder, R

LEMMA ShareStep ==
    ASSUME BasicInv, PlaceInv, RequestInv, LifeInv, QuietInv, StandInv, FreshInv, DueInv, ShareInv,
           [DraftNext]_draftVars
    PROVE  Sharing' => OwnPrios' /\ (pc' \notin Faults => Turns') /\ (pc' \in Faults => TicksApart')
<1>1. SUFFICES ASSUME Sharing
               PROVE  OwnPrios' /\ (pc' \notin Faults => Turns') /\ (pc' \in Faults => TicksApart')
  BY ScriptsStay, SharingStays
<1>2. /\ UNCHANGED <<policy, script>> /\ TypeOK
      /\ OwnPrios /\ TicksApart /\ (pc \notin Faults => Turns)
  BY <1>1, ScriptsStay DEF ShareInv, BasicInv
<1>3. Fork \/ (ScheduleStep /\ Choice) \/ Switch \/ Work \/ NextTick \/ UNCHANGED draftVars
  BY <1>1, StepsAreAny, SharersOnlyWork DEF AnyNext, BasicInv
<1>4. OwnPrios'
  <2>1. UNCHANGED prio
    BY <1>3, ForkCases DEF ForkRound, ScheduleStep, Switch, Work, NextTick, draftVars, schedVars
  <2> QED
    BY <1>2, <2>1 DEF OwnPrios
<1>5. ASSUME pc' \in Faults
      PROVE  TicksApart'
  <2>1. UNCHANGED age
    BY <1>3, <1>5, ForkCases DEF ForkRound, ScheduleStep, Switch, Work, NextTick, draftVars, schedVars,
                                 Faults
  <2> QED
    BY <1>2, <2>1, AgesStay
<1>6. ASSUME pc' \notin Faults
      PROVE  Turns'
  <2>1. pc \notin Faults
    BY <1>3, <1>6, ForkCases
       DEF ForkRound, ScheduleStep, Switch, Work, NextTick, draftVars, schedVars, Faults
  <2>2. ScheduleStep /\ Choice => pc' = "switch"
    BY <1>2, <1>6, ScheduleEffects DEF Ends, Faults
  <2> QED
    BY <1>1, <1>2, <1>3, <1>6, <2>1, <2>2, ForkShares, ScheduleShares, WorkShares, OtherShares
<1> QED
  BY <1>4, <1>5, <1>6

(* The turns equals take, which keep their ages together.                  *)
LEMMA ShareAlways == DraftSpec => []ShareInv
<1>1. DraftInit => ShareInv
  BY ShareInit
<1>2. /\ BasicInv /\ PlaceInv /\ RequestInv /\ LifeInv /\ QuietInv /\ StandInv /\ FreshInv /\ DueInv
      /\ ShareInv /\ [DraftNext]_draftVars
      => (Sharing => OwnPrios /\ (pc \notin Faults => Turns) /\ (pc \in Faults => TicksApart))'
  BY ShareStep
<1>3. /\ BasicInv /\ PlaceInv /\ RequestInv /\ LifeInv /\ QuietInv /\ StandInv /\ FreshInv /\ DueInv
      /\ (Sharing => OwnPrios /\ (pc \notin Faults => Turns) /\ (pc \in Faults => TicksApart))
      => ShareInv
  BY TurnsAreFair DEF ShareInv
<1> QED
  BY <1>1, <1>2, <1>3, BasicAlways, PlaceAlways, RequestAlways, LifeAlways, QuietAlways,
     StandAlways, FreshAlways, DueAlways, PTL DEF DraftSpec

(* In a script without resources, round-robin and the policies by priority *)
(* share the processor out among equals: two of them that came together    *)
(* and are not done are never two ticks apart.                             *)
THEOREM EqualsShareTicksAlways == DraftSpec => []EqualsShareTicks
<1>1. ShareInv => EqualsShareTicks
  <2>1. SUFFICES ASSUME ShareInv, policy \in {"rr", "prio", "pcp", "pip"},
                        NEW p \in Pids, NEW q \in Pids, Equals(p, q),
                        \A o \in Pids : script[o].acquire = <<>>
                 PROVE  age[p] <= age[q] + 1
    BY DEF EqualsShareTicks, Equals
  <2> QED
    BY <2>1 DEF ShareInv, Sharing, TicksApart
<1> QED
  BY <1>1, ShareAlways, PTL
-----------------------------------------------------------------------------
(* The idle ticks of round-robin. It works whenever there is work left, so *)
(* that what is left at a tick is the most that a span of ticks up to it   *)
(* has brought beyond its length.                                          *)

(* The ticks of work that have come and are not done; the one current has  *)
(* just done counts until its tick is over.                                *)
Undone ==
    UNION {{p} \X (age[p] + 1 .. Lifespan(p)) : p \in {q \in Pids : script[q].start <= ticks}}
Backlog == Cardinality(Undone) + (IF pc = "release" THEN 1 ELSE 0)
Conserving ==
    pc # "end" => /\ \A s \in 0 .. ticks : Brought(s, ticks) <= Backlog + (ticks - s)
                  /\ \E s \in 0 .. ticks : Brought(s, ticks) = Backlog + (ticks - s)
(* After an idle tick, and only then, there is no current process.         *)
Idling ==
    /\ pc = "switch" /\ current = NoProcess => readyqueue = <<>>
    /\ pc \in {"fork", "schedule"} =>
          /\ ticks = 0 => current = NoProcess
          /\ ticks > 0 => (current = NoProcess <=> IdleAt(ticks - 1))
          /\ ticks > 0 /\ current = NoProcess => F \cup R # {}
(* The tick that round-robin does not survive is still to come.            *)
Fatal(t) == IdleAt(t) /\ (t = 0 \/ (IdleAt(t - 1) /\ \E p \in Pids : t < script[p].start))
InTime == \A t \in Nat : Fatal(t) => ticks < t \/ (ticks = t /\ pc \in {"fork", "schedule"})
(* Who has to wait is taken for a process that is ready, before anybody    *)
(* else runs.                                                              *)
Stuck == pc \in {"fork", "schedule", "switch"} /\ HasTime /\ status[current] = "wait"

Balanced == NobodyWaits /\ Conserving /\ Idling /\ InTime
RrRuns == (pc = "null" => Starved) /\ (pc \notin Faults => Balanced \/ Stuck)
RrInv == policy = "rr" /\ WellFormed => RrRuns

(* Work is a finite set of ticks.                                          *)
LEMMA PairsAreFinite ==
    ASSUME NEW S, IsFiniteSet(S), NEW f, \A p \in S : IsFiniteSet(f[p])
    PROVE  IsFiniteSet(UNION {{p} \X f[p] : p \in S})
<1> DEFINE g == [p \in S |-> {p} \X f[p]]
           T == {{p} \X f[p] : p \in S}
<1>1. g \in Surjection(S, T)
  BY DEF Surjection
<1>2. IsFiniteSet(T)
  BY <1>1, FS_Surjection
<1>3. \A t \in T : IsFiniteSet(t)
  <2>1. SUFFICES ASSUME NEW p \in S
                 PROVE  IsFiniteSet({p} \X f[p])
    OBVIOUS
  <2>2. IsFiniteSet({p}) /\ IsFiniteSet(f[p])
    BY FS_Singleton
  <2> QED
    BY <2>2, FS_Product
<1> QED
  BY <1>2, <1>3, FS_UNION

LEMMA BurdenFacts ==
    ASSUME TypeOK, NEW from, NEW to
    PROVE  /\ Burden(from, to) =
                 {x \in Pids \X Nat : /\ script[x[1]].start \in from .. to
                                      /\ x[2] \in 1 .. Lifespan(x[1])}
           /\ IsFiniteSet(Burden(from, to))
           /\ Brought(from, to) \in Nat
<1> DEFINE S == {q \in Pids : script[q].start \in from .. to}
           f == [p \in Pids |-> 1 .. Lifespan(p)]
<1>1. \A p \in Pids : Lifespan(p) \in Nat
  BY ScriptFacts DEF Lifespan
<1>2. IsFiniteSet(S) /\ S \subseteq Pids
  <2>1. IsFiniteSet(Pids)
    BY FS_Interval, NrProcessesAssumption DEF Pids
  <2> QED
    BY <2>1, FS_Subset
<1>3. \A p \in S : IsFiniteSet(f[p])
  BY <1>1, <1>2, FS_Interval
<1>4. IsFiniteSet(UNION {{p} \X f[p] : p \in S})
  <2> HIDE DEF S, f
  <2> QED
    BY <1>2, <1>3, PairsAreFinite
<1>5. UNION {{p} \X f[p] : p \in S} = Burden(from, to)
  BY DEF Burden
<1>6. /\ IsFiniteSet(Burden(from, to)) /\ Brought(from, to) \in Nat
  BY <1>4, <1>5, FS_CardinalityType DEF Brought
<1>7. \A x : x \in Burden(from, to) <=>
                /\ x \in Pids \X Nat
                /\ script[x[1]].start \in from .. to
                /\ x[2] \in 1 .. Lifespan(x[1])
  BY <1>1 DEF Burden
<1> QED
  BY <1>6, <1>7

LEMMA UndoneFacts ==
    ASSUME TypeOK
    PROVE  /\ Undone = {x \in Pids \X Nat : /\ script[x[1]].start <= ticks
                                            /\ x[2] \in age[x[1]] + 1 .. Lifespan(x[1])}
           /\ IsFiniteSet(Undone)
           /\ Cardinality(Undone) \in Nat
           /\ Cardinality(Undone) = 0 <=> Undone = {}
<1> DEFINE S == {q \in Pids : script[q].start <= ticks}
           f == [p \in Pids |-> age[p] + 1 .. Lifespan(p)]
<1>1. \A p \in Pids : Lifespan(p) \in Nat /\ age[p] \in Nat
  BY ScriptFacts DEF Lifespan, TypeOK
<1>2. IsFiniteSet(S) /\ S \subseteq Pids
  <2>1. IsFiniteSet(Pids)
    BY FS_Interval, NrProcessesAssumption DEF Pids
  <2> QED
    BY <2>1, FS_Subset
<1>3. \A p \in S : IsFiniteSet(f[p])
  BY <1>1, <1>2, FS_Interval
<1>4. IsFiniteSet(UNION {{p} \X f[p] : p \in S})
  <2> HIDE DEF S, f
  <2> QED
    BY <1>2, <1>3, PairsAreFinite
<1>5. UNION {{p} \X f[p] : p \in S} = Undone
  BY DEF Undone
<1>6. \A x : x \in Undone <=> /\ x \in Pids \X Nat
                              /\ script[x[1]].start <= ticks
                              /\ x[2] \in age[x[1]] + 1 .. Lifespan(x[1])
  BY <1>1 DEF Undone
<1> QED
  BY <1>4, <1>5, <1>6, FS_CardinalityType, FS_EmptySet

(* The next tick adds what starts with it.                                 *)
LEMMA BroughtAdds ==
    ASSUME TypeOK, NEW s \in Nat, NEW t \in Nat, s <= t
    PROVE  Brought(s, t + 1) = Brought(s, t) + Brought(t + 1, t + 1)
<1> DEFINE A == Burden(s, t)
           B == Burden(t + 1, t + 1)
<1>1. \A p \in Pids : script[p].start \in Nat
  BY ScriptFacts
<1>2. IsFiniteSet(A) /\ IsFiniteSet(B) /\ Cardinality(A) \in Nat /\ Cardinality(B) \in Nat
  BY BurdenFacts DEF Brought
<1>3. Burden(s, t + 1) = A \cup B
  BY <1>1, BurdenFacts
<1>4. A \cap B = {}
  BY <1>1, BurdenFacts
<1> HIDE DEF A, B
<1>5. Cardinality(A \cup B) = Cardinality(A) + Cardinality(B)
  <2>1. Cardinality(A \cup B) = Cardinality(A) + Cardinality(B) - Cardinality(A \cap B)
    BY <1>2, FS_Union
  <2>2. Cardinality(A \cap B) = 0
    BY <1>4, FS_EmptySet, Zenon
  <2> QED
    BY <1>2, <2>1, <2>2
<1> QED
  BY <1>3, <1>5 DEF Brought, A, B

LEMMA TickBrings ==
    ASSUME TypeOK, LifeInv, FreshInv, ticks' = ticks + 1, UNCHANGED <<script, age>>
    PROVE  Cardinality(Undone') = Cardinality(Undone) + Brought(ticks + 1, ticks + 1)
<1> DEFINE B == Burden(ticks + 1, ticks + 1)
<1>1. /\ ticks \in Nat
      /\ \A p \in Pids : script[p].start \in Nat /\ Lifespan(p) \in Nat /\ age[p] \in Nat
      /\ \A p \in Pids : script[p].start = ticks + 1 => age[p] = 0
  <2>1. ticks \in Nat /\ \A p \in Pids : age[p] \in Nat
    BY DEF TypeOK
  <2>2. \A p \in Pids : script[p].start \in Nat /\ Lifespan(p) \in Nat
    BY ScriptFacts DEF Lifespan
  <2>3. \A p \in Pids : script[p].start = ticks + 1 => age[p] = 0
    BY <2>1, <2>2 DEF LifeInv, Started, FreshInv, Newborn
  <2> QED
    BY <2>1, <2>2, <2>3
<1>2. /\ IsFiniteSet(Undone) /\ IsFiniteSet(B)
      /\ Cardinality(Undone) \in Nat /\ Cardinality(B) \in Nat
  BY UndoneFacts, BurdenFacts DEF Brought
<1>3. \A x : x \in Undone' <=> /\ x \in Pids \X Nat
                               /\ script[x[1]].start <= ticks + 1
                               /\ x[2] \in age[x[1]] + 1 .. Lifespan(x[1])
  BY <1>1 DEF Undone, Lifespan
<1>4. Undone' = Undone \cup B
  BY <1>1, <1>3, UndoneFacts, BurdenFacts
<1>5. Undone \cap B = {}
  BY <1>1, UndoneFacts, BurdenFacts
<1> HIDE DEF B
<1>6. Cardinality(Undone \cup B) = Cardinality(Undone) + Cardinality(B)
  <2>1. Cardinality(Undone \cup B) =
            Cardinality(Undone) + Cardinality(B) - Cardinality(Undone \cap B)
    BY <1>2, FS_Union
  <2>2. Cardinality(Undone \cap B) = 0
    BY <1>5, FS_EmptySet, Zenon
  <2> QED
    BY <1>2, <2>1, <2>2
<1> QED
  BY <1>4, <1>6 DEF Brought, B

(* Who is not done leaves something undone.                                *)
LEMMA UnfinishedIsUndone ==
    ASSUME TypeOK, NEW p \in Pids, script[p].start <= ticks, Unfinished(p)
    PROVE  <<p, age[p] + 1>> \in Undone
<1>1. age[p] \in Nat /\ Lifespan(p) \in Nat /\ age[p] < Lifespan(p)
  BY ScriptFacts DEF TypeOK, Lifespan, Unfinished
<1> QED
  BY <1>1 DEF Undone

LEMMA WorkUndoes ==
    ASSUME BasicInv, Work, script[current].start <= ticks, Unfinished(current)
    PROVE  Cardinality(Undone') = Cardinality(Undone) - 1
<1> DEFINE x == <<current, age[current] + 1>>
<1>1. /\ current \in Pids /\ age'[current] = age[current] + 1 /\ age \in [Pids -> Nat]
      /\ \A o \in Pids \ {current} : age'[o] = age[o]
      /\ UNCHANGED <<script, ticks>> /\ pc = "run" /\ TypeOK
  <2>1. \A h \in ToSet(holding[current]) : h.duration > 0
    BY DEF BasicInv, Runs, Counting, Work
  <2>2. TypeOK /\ Runs /\ pc = "run" /\ UNCHANGED <<script, ticks>>
    BY DEF BasicInv, Work
  <2> QED
    BY <2>1, <2>2, WorkEffects DEF TypeOK
<1>2. x \in Undone /\ IsFiniteSet(Undone)
  BY <1>1, UnfinishedIsUndone, UndoneFacts
<1>3. \A p \in Pids : Lifespan(p) \in Nat
  BY <1>1, ScriptFacts DEF Lifespan
<1>4. \A y : y \in Undone' <=> /\ y \in Pids \X Nat
                               /\ script[y[1]].start <= ticks
                               /\ y[2] \in age'[y[1]] + 1 .. Lifespan(y[1])
  BY <1>1, <1>3 DEF Undone, Lifespan
<1>5. Undone' = Undone \ {x}
  BY <1>1, <1>3, <1>4, UndoneFacts
<1> QED
  BY <1>2, <1>5, FS_RemoveElement

(* The script stays, and so does the work it brings.                       *)
LEMMA ScriptsBringTheSame ==
    ASSUME UNCHANGED script
    PROVE  /\ \A s, t : Brought(s, t)' = Brought(s, t)
           /\ \A t : IdleAt(t)' = IdleAt(t)
           /\ \A t : Fatal(t)' = Fatal(t)
           /\ Starved' = Starved
<1>1. \A s, t : Brought(s, t)' = Brought(s, t)
  BY DEF Brought, Burden, Lifespan
<1>2. \A t : IdleAt(t)' = IdleAt(t)
  BY <1>1 DEF IdleAt
<1>3. \A t : Fatal(t)' = Fatal(t)
  BY <1>2 DEF Fatal
<1>4. Starved' = Starved
  BY <1>2 DEF Starved
<1> QED
  BY <1>1, <1>2, <1>3, <1>4

LEMMA StarvedMeans ==
    ASSUME TypeOK
    PROVE  Starved <=> \E t \in Nat : Fatal(t)
<1>1. \A p \in Pids : script[p].start \in Nat
  BY ScriptFacts
<1>2. ASSUME Starved
      PROVE  \E t \in Nat : Fatal(t)
  <2>1. CASE IdleAt(0)
    BY <2>1 DEF Fatal
  <2>2. CASE \E p \in Pids : \E t \in 1 .. script[p].start - 1 : IdleAt(t) /\ IdleAt(t - 1)
    <3>1. PICK p \in Pids : \E t \in 1 .. script[p].start - 1 : IdleAt(t) /\ IdleAt(t - 1)
      BY <2>2
    <3>2. PICK t \in 1 .. script[p].start - 1 : IdleAt(t) /\ IdleAt(t - 1)
      BY <3>1
    <3> QED
      BY <1>1, <3>2 DEF Fatal
  <2> QED
    BY <1>2, <2>1, <2>2 DEF Starved
<1>3. ASSUME NEW t \in Nat, Fatal(t)
      PROVE  Starved
  <2>1. CASE t = 0
    BY <1>3, <2>1 DEF Starved, Fatal
  <2>2. CASE t # 0
    <3>1. PICK p \in Pids : t < script[p].start
      BY <1>3, <2>2 DEF Fatal
    <3>2. t \in 1 .. script[p].start - 1 /\ IdleAt(t) /\ IdleAt(t - 1)
      BY <1>1, <1>3, <2>2, <3>1 DEF Fatal
    <3> QED
      BY <3>2 DEF Starved
  <2> QED
    BY <2>1, <2>2
<1> QED
  BY <1>2, <1>3

(* Nothing is left exactly in the ticks the script says are idle.          *)
LEMMA NothingIsLeft ==
    ASSUME TypeOK, Conserving, pc # "end"
    PROVE  /\ Backlog \in Nat
           /\ IdleAt(ticks) <=> Backlog = 0
           /\ Backlog = 0 <=> pc # "release" /\ Undone = {}
<1>1. Cardinality(Undone) \in Nat /\ (Cardinality(Undone) = 0 <=> Undone = {})
  BY UndoneFacts
<1>2. Backlog \in Nat /\ (Backlog = 0 <=> pc # "release" /\ Undone = {})
  BY <1>1 DEF Backlog
<1>3. ticks \in Nat /\ \A s \in 0 .. ticks : Brought(s, ticks) \in Nat
  BY BurdenFacts DEF TypeOK
<1>4. ASSUME IdleAt(ticks)
      PROVE  Backlog = 0
  <2>1. PICK s \in 0 .. ticks : Brought(s, ticks) = Backlog + (ticks - s)
    BY DEF Conserving
  <2>2. Brought(s, ticks) <= ticks - s
    BY <1>4 DEF IdleAt
  <2> QED
    BY <1>2, <1>3, <2>1, <2>2
<1>5. ASSUME Backlog = 0
      PROVE  IdleAt(ticks)
  <2>1. SUFFICES ASSUME NEW s \in 0 .. ticks
                 PROVE  Brought(s, ticks) <= ticks - s
    BY DEF IdleAt
  <2>2. Brought(s, ticks) <= 0 + (ticks - s)
    BY <1>5 DEF Conserving
  <2> QED
    BY <1>3, <2>2
<1> QED
  BY <1>2, <1>4, <1>5

(* The books are balanced from one tick to the next one.                   *)
LEMMA TickConserves ==
    ASSUME TypeOK, LifeInv, FreshInv, Conserving, EndTick, UNCHANGED <<script, age>>,
           pc \in {"switch", "release"}, pc = "switch" => Undone = {}
    PROVE  Conserving'
<1> DEFINE t == ticks + 1
           c == Cardinality(Undone)
           b == Brought(t, t)
<1>1. ticks \in Nat /\ ticks' = t /\ pc' = "fork"
  BY DEF TypeOK, EndTick
<1>2. c \in Nat /\ b \in Nat /\ (pc = "switch" => c = 0)
  BY UndoneFacts, BurdenFacts
<1>3. Backlog' = c + b
  BY <1>1, <1>2, TickBrings DEF Backlog
<1>4. \A s : Brought(s, ticks)' = Brought(s, t)
  BY <1>1 DEF Brought, Burden, Lifespan
<1>5. \A s \in 0 .. ticks : Brought(s, t) = Brought(s, ticks) + b /\ Brought(s, ticks) \in Nat
  BY <1>1, BroughtAdds, BurdenFacts
<1>6. /\ \A s \in 0 .. ticks : Brought(s, ticks) <= Backlog + (ticks - s)
      /\ \E s \in 0 .. ticks : Brought(s, ticks) = Backlog + (ticks - s)
  BY DEF Conserving
<1>7. Backlog = IF pc = "release" THEN c + 1 ELSE 0
  BY <1>2 DEF Backlog
<1> HIDE DEF c, b
<1>8. \A s \in 0 .. t : Brought(s, t) <= c + b + (t - s)
  <2>1. SUFFICES ASSUME NEW s \in 0 .. t
                 PROVE  Brought(s, t) <= c + b + (t - s)
    OBVIOUS
  <2>2. CASE s = t
    <3>1. Brought(s, t) = b
      BY <2>2 DEF b
    <3> QED
      BY <1>1, <1>2, <2>2, <3>1
  <2>3. CASE s # t
    <3>1. s \in 0 .. ticks
      BY <1>1, <2>3
    <3>2. Brought(s, ticks) <= Backlog + (ticks - s) /\ Brought(s, t) = Brought(s, ticks) + b
          /\ Brought(s, ticks) \in Nat
      BY <1>5, <1>6, <3>1
    <3> HIDE DEF t
    <3> QED
      BY <1>1, <1>2, <1>7, <3>1, <3>2 DEF t
  <2> QED
    BY <2>2, <2>3
<1>9. \E s \in 0 .. t : Brought(s, t) = c + b + (t - s)
  <2>1. CASE pc = "switch"
    <3>1. t \in 0 .. t /\ Brought(t, t) = c + b + (t - t)
      BY <1>1, <1>2, <2>1 DEF b
    <3> QED
      BY <3>1
  <2>2. CASE pc = "release"
    <3>1. PICK s \in 0 .. ticks : Brought(s, ticks) = Backlog + (ticks - s)
      BY <1>6
    <3>2. Brought(s, t) = Brought(s, ticks) + b
      BY <1>5
    <3>3. Brought(s, t) = c + b + (t - s) /\ s \in 0 .. t
      BY <1>1, <1>2, <1>7, <2>2, <3>1, <3>2
    <3> QED
      BY <3>3
  <2> QED
    BY <2>1, <2>2
<1>10. /\ \A s \in 0 .. ticks' : Brought(s, ticks)' <= Backlog' + (ticks' - s)
       /\ \E s \in 0 .. ticks' : Brought(s, ticks)' = Backlog' + (ticks' - s)
  BY <1>1, <1>3, <1>4, <1>8, <1>9
<1> QED
  BY <1>10 DEF Conserving

(* A step that only moves the control.                                     *)
LEMMA BooksStay ==
    ASSUME UNCHANGED <<script, ticks, age>>, pc # "end", pc = "release" <=> pc' = "release",
           Conserving
    PROVE  Conserving'
<1>1. Undone' = Undone
  BY DEF Undone, Lifespan
<1>2. Backlog' = Backlog
  BY <1>1 DEF Backlog
<1>3. \A s : Brought(s, ticks)' = Brought(s, ticks)
  BY DEF Brought, Burden, Lifespan
<1> QED
  BY <1>2, <1>3 DEF Conserving

LEMMA NobodyStartsToWait ==
    ASSUME NobodyWaits, \A r \in Resources : W(r)' \subseteq W(r),
           \A p \in Pids : status'[p] = "wait" => status[p] = "wait"
    PROVE  NobodyWaits'
BY DEF NobodyWaits

(* When there is nobody to run all the work that has come is done.         *)
LEMMA IdlersLeaveNothing ==
    ASSUME BasicInv, DueInv, StandInv, policy = "rr", NobodyWaits,
           pc \in {"schedule", "switch"}, current = NoProcess, readyqueue = <<>>
    PROVE  Undone = {}
<1>1. TypeOK /\ \A r \in Resources : W(r) = {}
  BY DEF BasicInv, NobodyWaits
<1>2. SUFFICES ASSUME NEW x \in Undone
               PROVE  FALSE
  OBVIOUS
<1> DEFINE p == x[1]
<1>3. p \in Pids /\ script[p].start <= ticks /\ x[2] \in age[p] + 1 .. Lifespan(p)
  BY <1>1, UndoneFacts
<1> HIDE DEF p
<1>4. /\ script[p].start \in Nat /\ ticks \in Nat /\ Lifespan(p) \in Nat /\ age[p] \in Nat
      /\ p # NoProcess
  BY <1>1, <1>3, ScriptFacts DEF TypeOK, Lifespan, Pids, NoProcess
<1>5. age[p] < script[p].lifespan
  BY <1>3, <1>4 DEF Lifespan
<1>6. p \notin F
  BY <1>3, <1>4 DEF DueInv
<1>7. ~Linked(p)
  BY <1>1, <1>6, LinkedMeans DEF R, ToSet
<1>8. Somewhere /\ Exited /\ Remembers
  BY DEF StandInv, Faults, Remembers
<1>9. status[p] # "exit" /\ ~(p = prev /\ Finished) /\ ~Lost(p)
  BY <1>3, <1>4, <1>5, <1>8 DEF Exited, Gone, Finished, Lost, Lifeless
<1> QED
  BY <1>3, <1>4, <1>7, <1>8, <1>9 DEF Somewhere

(* Who is ready, or runs, has work to do.                                  *)
LEMMA ReadyHaveWork ==
    ASSUME BasicInv, PlaceInv, LifeInv, policy = "rr", WellFormed, pc = "schedule", NEW p \in R
    PROVE  Undone # {}
<1>1. TypeOK /\ p \in Pids /\ p \notin F
  BY ListsHoldPids DEF BasicInv, PlaceInv, ListsApart
<1>2. MayRun(p) /\ script[p].start <= ticks
  BY <1>1, LinkedMeans DEF LifeInv, Lively, Started, Faults
<1>3. script[p].lifespan \in Nat /\ script[p].lifespan > 0
  BY <1>1, ScriptFacts DEF WellFormed, Lifespan
<1>4. Unfinished(p)
  BY <1>2, <1>3 DEF MayRun, Unfinished
<1> QED
  BY <1>1, <1>2, <1>4, UnfinishedIsUndone

LEMMA RunnersHaveWork ==
    ASSUME BasicInv, PlaceInv, LifeInv, policy = "rr", WellFormed, pc = "run"
    PROVE  current \in Pids /\ script[current].start <= ticks /\ Unfinished(current)
<1>1. TypeOK /\ current \in Pids /\ current \notin F
  BY DEF BasicInv, Runs, PlaceInv, CurrentApart
<1>2. MayRun(current) /\ script[current].start <= ticks
  BY <1>1 DEF LifeInv, Lively, Started, Faults
<1>3. script[current].lifespan \in Nat /\ script[current].lifespan > 0
  BY <1>1, ScriptFacts DEF WellFormed, Lifespan
<1> QED
  BY <1>1, <1>2, <1>3 DEF MayRun, Unfinished

LEMMA ForkBalances ==
    ASSUME TypeOK, Fork, Balanced \/ Stuck
    PROVE  RrRuns'
<1>1. /\ pc = "fork" /\ pc' \in {"fork", "schedule"}
      /\ UNCHANGED <<script, ticks, current, waitqueue, status, age>>
  BY DEF Fork
<1>2. F' \cup R' = F \cup R
  <2>1. CASE ForkRound
    <3>1. PICK p \in ToSet(forkqueue) :
             /\ ToSet(readyqueue') = ToSet(readyqueue) \cup {p}
             /\ ToSet(forkqueue') \subseteq ToSet(forkqueue)
             /\ ToSet(forkqueue) \subseteq ToSet(forkqueue') \cup {p}
      BY <2>1, ForkEffects
    <3> QED
      BY <3>1 DEF F, R
  <2>2. CASE UNCHANGED <<forkqueue, readyqueue>>
    BY <2>2 DEF F, R
  <2> QED
    BY <2>1, <2>2, ForkCases
<1>3. CASE Balanced
  <2>1. NobodyWaits'
    BY <1>1, <1>3, NobodyStartsToWait DEF Balanced, W
  <2>2. Conserving'
    BY <1>1, <1>3, BooksStay DEF Balanced
  <2>3. Idling'
    BY <1>1, <1>2, <1>3, ScriptsBringTheSame DEF Balanced, Idling
  <2>4. InTime'
    BY <1>1, <1>3, ScriptsBringTheSame DEF Balanced, InTime
  <2> QED
    BY <1>1, <2>1, <2>2, <2>3, <2>4 DEF RrRuns, Balanced
<1>4. CASE Stuck
  BY <1>1, <1>4 DEF Stuck, HasTime, Unfinished, RrRuns
<1> QED
  BY <1>3, <1>4

(* Round-robin fails in the second idle tick, and nowhere before the last  *)
(* process has come.                                                       *)
LEMMA ScheduleBalances ==
    ASSUME BasicInv, PlaceInv, LifeInv, DueInv, StandInv, policy = "rr", WellFormed, Balanced,
           ScheduleStep, Choice
    PROVE  RrRuns'
<1>1. /\ pc = "schedule" /\ TypeOK /\ ticks \in Nat
      /\ UNCHANGED <<script, ticks, forkqueue, waitqueue, status, age>>
      /\ Conserving /\ Idling /\ InTime /\ NobodyWaits
  BY DEF ScheduleStep, BasicInv, TypeOK, Balanced
<1>2. readyqueue' \in Seq(Pids) /\ Ends
  BY <1>1, ScheduleEffects
<1>3. /\ IdleAt(ticks) => Undone = {}
      /\ Undone = {} => IdleAt(ticks) /\ R = {}
  BY <1>1, NothingIsLeft, ReadyHaveWork
<1>4. ASSUME current = NoProcess, readyqueue = <<>>
      PROVE  Starved
  <2>1. IdleAt(ticks)
    BY <1>1, <1>3, <1>4, IdlersLeaveNothing
  <2>2. CASE ticks = 0
    BY <2>1, <2>2 DEF Starved
  <2>3. CASE ticks # 0
    <3>1. IdleAt(ticks - 1) /\ F \cup R # {}
      BY <1>1, <1>4, <2>3 DEF Idling
    <3>2. R = {}
      BY <1>4 DEF R, ToSet
    <3>3. PICK p \in F : script[p].start > ticks
      BY <1>1, <3>1, <3>2 DEF DueInv
    <3>4. p \in Pids /\ script[p].start \in Nat
      BY <1>1, ListsHoldPids, ScriptFacts
    <3>5. ticks \in 1 .. script[p].start - 1
      BY <1>1, <2>3, <3>3, <3>4
    <3> QED
      BY <2>1, <3>1, <3>4, <3>5 DEF Starved
  <2> QED
    BY <2>2, <2>3
<1>5. ASSUME Fatal(ticks)
      PROVE  current = NoProcess /\ R = {}
  BY <1>1, <1>3, <1>5 DEF Fatal, Idling
<1>6. CASE pc' = "null" /\ Crashes
  BY <1>1, <1>4, <1>6, ScriptsBringTheSame DEF Crashes, RrRuns, Faults
<1>7. CASE pc' = "switch" /\ (Keeps \/ Picks \/ Idles \/ GoesBack)
  <2>1. NobodyWaits'
    BY <1>1, NobodyStartsToWait DEF W
  <2>2. Conserving'
    BY <1>1, <1>7, BooksStay
  <2>3. Idling'
    BY <1>7 DEF Idling, Keeps, Picks, Idles, GoesBack, HasTime, Pids, NoProcess
  <2>4. ~Fatal(ticks)
    <3>1. ASSUME current = NoProcess, R = {}
          PROVE  FALSE
      <4>1. ~Keeps /\ ~Picks /\ ~GoesBack
        BY <3>1 DEF Keeps, HasTime, Picks, GoesBack, R, Pids, NoProcess
      <4>2. ~Idles
        BY <3>1 DEF Idles
      <4> QED
        BY <1>7, <4>1, <4>2
    <3> QED
      BY <1>5, <3>1
  <2>5. \A t \in Nat : Fatal(t) => ticks < t
    <3>1. \A t \in Nat : Fatal(t) => ticks < t \/ ticks = t
      BY <1>1 DEF InTime
    <3> QED
      BY <2>4, <3>1
  <2>6. InTime'
    BY <1>1, <2>5, ScriptsBringTheSame DEF InTime
  <2> QED
    BY <1>7, <2>1, <2>2, <2>3, <2>6 DEF RrRuns, Balanced
<1> QED
  BY <1>2, <1>6, <1>7 DEF Ends, RrRuns, Faults

LEMMA StuckSchedules ==
    ASSUME TypeOK, policy = "rr", Stuck, ScheduleStep, Choice
    PROVE  RrRuns'
<1>1. HasTime /\ Blocked /\ UNCHANGED <<script, status, age>> /\ current # NoProcess
  BY DEF Stuck, HasTime, Blocked, ScheduleStep
<1>2. Ends /\ ~LooksAtStatus
  BY ScheduleEffects DEF LooksAtStatus
<1>3. ~(Picks \/ Idles \/ GoesBack) /\ ~Crashes
  BY <1>1, <1>2 DEF Picks, Idles, GoesBack, Gives, Crashes
<1>4. CASE pc' = "switch" /\ Keeps
  BY <1>1, <1>4 DEF Keeps, Stuck, HasTime, Unfinished, RrRuns
<1> QED
  BY <1>2, <1>3, <1>4 DEF Ends, RrRuns, Faults

LEMMA SwitchBalances ==
    ASSUME BasicInv, PlaceInv, LifeInv, FreshInv, DueInv, StandInv, policy = "rr", Balanced, Switch
    PROVE  RrRuns'
<1>1. /\ pc = "switch" /\ TypeOK /\ ticks \in Nat
      /\ UNCHANGED <<script, current, forkqueue, readyqueue, waitqueue, age>>
      /\ Conserving /\ Idling /\ InTime /\ NobodyWaits
  BY DEF Switch, BasicInv, TypeOK, Balanced
<1>2. \A t \in Nat : Fatal(t) => ticks < t
  BY <1>1 DEF InTime
<1>3. \A p \in Pids : Retired[p] # "wait"
  BY <1>1 DEF Retired, NobodyWaits
<1>4. CASE pc' = "assert"
  BY <1>4 DEF RrRuns, Faults
<1>5. CASE /\ current \in Pids /\ status' = [Retired EXCEPT ![current] = "running"]
           /\ pc' = "run" /\ UNCHANGED ticks
  <2>1. \A p \in Pids : status'[p] # "wait"
    BY <1>1, <1>3, <1>5, RetiredFacts
  <2>2. NobodyWaits'
    BY <1>1, <2>1, NobodyStartsToWait DEF W
  <2>3. Conserving'
    BY <1>1, <1>5, BooksStay
  <2>4. Idling' /\ InTime'
    BY <1>1, <1>2, <1>5, ScriptsBringTheSame DEF Idling, InTime
  <2> QED
    BY <1>5, <2>2, <2>3, <2>4 DEF RrRuns, Balanced
<1>6. CASE current = NoProcess /\ status' = Retired
  <2>1. NobodyWaits'
    BY <1>1, <1>3, <1>6, NobodyStartsToWait DEF W
  <2>2. Undone = {} /\ readyqueue = <<>>
    BY <1>1, <1>6, IdlersLeaveNothing DEF Idling
  <2>3. CASE NonePending /\ pc' = "end" /\ UNCHANGED ticks
    <3>1. Conserving' /\ Idling' /\ InTime'
      BY <1>1, <1>2, <2>3, ScriptsBringTheSame DEF Conserving, Idling, InTime
    <3> QED
      BY <2>1, <2>3, <3>1 DEF RrRuns, Balanced
  <2>4. CASE ~NonePending /\ EndTick
    <3>1. ticks' = ticks + 1 /\ pc' = "fork" /\ current' = NoProcess
      BY <1>1, <1>6, <2>4 DEF EndTick
    <3>2. Conserving'
      BY <1>1, <2>2, <2>4, TickConserves
    <3>3. IdleAt(ticks)
      BY <1>1, <2>2, NothingIsLeft
    <3>4. (F \cup R)' # {}
      <4>1. forkqueue # <<>> /\ forkqueue \in Seq(Pids)
        BY <1>1, <2>2, <2>4 DEF NonePending, TypeOK
      <4>2. Head(forkqueue) \in F
        BY <4>1, HeadIsThere DEF F
      <4> QED
        BY <1>1, <4>2 DEF F, R
    <3>5. IdleAt(ticks - 1)'
      <4>1. ticks' - 1 = ticks /\ UNCHANGED script
        BY <1>1, <3>1
      <4>2. \A s : Brought(s, ticks - 1)' = Brought(s, ticks)
        BY <4>1 DEF Brought, Burden, Lifespan
      <4> QED
        BY <3>3, <4>1, <4>2 DEF IdleAt
    <3>6. Idling'
      BY <1>1, <3>1, <3>4, <3>5 DEF Idling
    <3>7. InTime'
      BY <1>1, <1>2, <3>1, ScriptsBringTheSame DEF InTime
    <3> QED
      BY <2>1, <3>1, <3>2, <3>6, <3>7 DEF RrRuns, Balanced
  <2> QED
    BY <1>1, <1>4, <1>6, <2>3, <2>4, SwitchCases DEF Pids, NoProcess
<1> QED
  BY <1>1, <1>4, <1>5, <1>6, SwitchCases

LEMMA StuckSwitches ==
    ASSUME TypeOK, PlaceInv, Stuck, Switch
    PROVE  RrRuns'
<1>1. pc = "switch" /\ current # NoProcess /\ status[current] = "wait"
  BY DEF Stuck, HasTime, Switch
<1>2. current \in Pids
  BY <1>1 DEF TypeOK
<1>3. Linked(current)
  BY <1>1, <1>2, WaitersAreLinked DEF Faults
<1>4. pc' = "assert"
  BY <1>1, <1>3, SwitchCases
<1> QED
  BY <1>4 DEF RrRuns, Faults

(* A request that is refused ends the tick of a process that has time left *)
(* to use what it asked for.                                               *)
LEMMA RefusalBalances ==
    ASSUME BasicInv, policy = "rr", WellFormed, AnyRefusal
    PROVE  RrRuns'
<1>1. /\ pc = "run" /\ pc' = "fork" /\ UNCHANGED <<script, current, age>>
      /\ status' = [status EXCEPT ![current] = "wait"]
      /\ TypeOK /\ current \in Pids /\ Pending(current) # {} /\ current # NoProcess
  BY DEF AnyRefusal, EndTick, BasicInv, Runs, Pids, NoProcess
<1> DEFINE q == NextRequest(current)
<1>2. q \in ToSet(toAcquire[current]) /\ q.at = age[current]
  BY <1>1, NextIsAsked
<1>3. q \in Asks(current)
  BY <1>1, <1>2 DEF BasicInv, ToDo
<1> HIDE DEF q
<1>4. q.at \in Nat /\ q.duration \in Nat /\ q.duration > 0 /\ script[current].lifespan \in Nat
  BY <1>1, <1>3, HeldFacts, ScriptFacts
<1>5. Unfinished(current)
  BY <1>1, <1>2, <1>3, <1>4 DEF WellFormed, Overdue, Lifespan, Unfinished
<1>6. status'[current] = "wait"
  BY <1>1 DEF TypeOK
<1> QED
  BY <1>1, <1>5, <1>6 DEF RrRuns, Stuck, HasTime, Unfinished

LEMMA WorkBalances ==
    ASSUME BasicInv, PlaceInv, LifeInv, policy = "rr", WellFormed, Balanced, Work
    PROVE  RrRuns'
<1>1. /\ pc = "run" /\ pc' = "release" /\ TypeOK
      /\ UNCHANGED <<script, ticks, current, waitqueue, status>>
      /\ Conserving /\ Idling /\ InTime /\ NobodyWaits
  BY DEF Work, BasicInv, Balanced
<1>2. Cardinality(Undone') = Cardinality(Undone) - 1 /\ Cardinality(Undone) \in Nat
  BY <1>1, RunnersHaveWork, WorkUndoes, UndoneFacts
<1>3. Backlog' = Backlog
  BY <1>1, <1>2 DEF Backlog
<1>4. \A s : Brought(s, ticks)' = Brought(s, ticks)
  BY <1>1 DEF Brought, Burden, Lifespan
<1>5. Conserving'
  BY <1>1, <1>3, <1>4 DEF Conserving
<1>6. NobodyWaits'
  BY <1>1, NobodyStartsToWait DEF W
<1>7. Idling' /\ InTime'
  BY <1>1, ScriptsBringTheSame DEF Idling, InTime
<1> QED
  BY <1>1, <1>5, <1>6, <1>7 DEF RrRuns, Balanced

LEMMA NextTickBalances ==
    ASSUME BasicInv, LifeInv, FreshInv, Balanced, NextTick
    PROVE  RrRuns'
<1>1. /\ pc = "release" /\ TypeOK /\ ticks \in Nat /\ current \in Pids /\ current # NoProcess
      /\ UNCHANGED <<script, current, waitqueue, status, age>>
      /\ Conserving /\ InTime /\ NobodyWaits
      /\ EndTick /\ ticks' = ticks + 1 /\ pc' = "fork"
  BY DEF NextTick, EndTick, BasicInv, Runs, TypeOK, Balanced, Pids, NoProcess
<1>2. Conserving'
  BY <1>1, TickConserves
<1>3. ~IdleAt(ticks)
  BY <1>1, NothingIsLeft
<1>4. ~IdleAt(ticks - 1)'
  <2>1. ticks' - 1 = ticks /\ UNCHANGED script
    BY <1>1
  <2>2. \A s : Brought(s, ticks - 1)' = Brought(s, ticks)
    BY <2>1 DEF Brought, Burden, Lifespan
  <2> QED
    BY <1>3, <2>1, <2>2 DEF IdleAt
<1>5. Idling'
  BY <1>1, <1>4 DEF Idling
<1>6. InTime'
  BY <1>1, ScriptsBringTheSame DEF InTime
<1>7. NobodyWaits'
  BY <1>1, NobodyStartsToWait DEF W
<1> QED
  BY <1>1, <1>2, <1>5, <1>6, <1>7 DEF RrRuns, Balanced

LEMMA OthersBalance ==
    ASSUME TypeOK, Runs, Balanced, AnyGrant \/ AnyRelease
    PROVE  RrRuns'
<1>1. /\ pc \in {"run", "release"} /\ pc' \in {pc, "assert"}
      /\ UNCHANGED <<script, ticks, age>>
      /\ Conserving /\ Idling /\ InTime /\ NobodyWaits
  BY DEF AnyGrant, AnyRelease, Disowns, Balanced
<1>2. CASE pc' = "assert"
  BY <1>2 DEF RrRuns, Faults
<1>3. CASE pc' = pc
  <2>1. UNCHANGED <<waitqueue, status>>
    <3>1. CASE AnyGrant
      BY <3>1 DEF AnyGrant
    <3>2. CASE AnyRelease
      <4>1. Released \in Resources
        BY <3>2, ReleaseEffects
      <4>2. \A w : ~WakesProcess(w)
        BY <1>1, <4>1 DEF WakesProcess, NobodyWaits, W
      <4> QED
        BY <3>2, <4>2, WakeEffects
    <3> QED
      BY <3>1, <3>2
  <2>2. NobodyWaits'
    BY <1>1, <2>1, NobodyStartsToWait DEF W
  <2>3. Conserving'
    BY <1>1, <1>3, BooksStay
  <2>4. Idling' /\ InTime'
    BY <1>1, <1>3, ScriptsBringTheSame DEF Idling, InTime
  <2> QED
    BY <1>1, <1>3, <2>2, <2>3, <2>4 DEF RrRuns, Balanced
<1> QED
  BY <1>1, <1>2, <1>3

LEMMA RrInit ==
    ASSUME DraftInit
    PROVE  RrInv
<1>1. PICK c \in Cases : Load(c)
  BY DEF DraftInit
<1>2. /\ pc = "fork" /\ ticks = 0 /\ current = NoProcess /\ age = [p \in Pids |-> 0]
      /\ waitqueue = [r \in Resources |-> <<>>] /\ status = [p \in Pids |-> "ready"]
  BY <1>1 DEF Load
<1>3. TypeOK
  BY BasicInit DEF BasicInv
<1>4. NobodyWaits
  BY <1>2 DEF NobodyWaits, W, ToSet
<1>5. Undone = Burden(0, 0)
  <2>1. \A p \in Pids : script[p].start \in Nat /\ Lifespan(p) \in Nat
    BY <1>3, ScriptFacts DEF Lifespan
  <2> QED
    BY <1>2, <1>3, <2>1, UndoneFacts, BurdenFacts
<1>6. Conserving
  <2>1. Backlog = Brought(0, 0) /\ Backlog \in Nat
    BY <1>2, <1>3, <1>5, UndoneFacts DEF Backlog, Brought
  <2>2. 0 \in 0 .. 0 /\ \A s \in 0 .. 0 : s = 0
    OBVIOUS
  <2>3. Brought(0, 0) = Backlog + (0 - 0)
    BY <2>1
  <2> QED
    BY <1>2, <2>1, <2>2, <2>3 DEF Conserving
<1>7. Idling /\ InTime
  BY <1>2 DEF Idling, InTime
<1> QED
  BY <1>2, <1>4, <1>6, <1>7 DEF RrInv, RrRuns, Balanced

LEMMA RrStep ==
    ASSUME BasicInv, PlaceInv, LifeInv, FreshInv, DueInv, StandInv, RrInv, [DraftNext]_draftVars
    PROVE  RrInv'
<1>1. UNCHANGED <<policy, script>> /\ TypeOK /\ Runs /\ (AnyNext \/ UNCHANGED draftVars)
  BY ScriptsStay, StepsAreAny DEF BasicInv
<1>2. WellFormed' = WellFormed
  BY <1>1 DEF WellFormed, Overdue, Asks, Lifespan
<1>3. SUFFICES ASSUME policy = "rr", WellFormed, RrRuns
               PROVE  RrRuns'
  BY <1>1, <1>2 DEF RrInv
<1>4. CASE UNCHANGED draftVars
  <2>1. UNCHANGED <<script, ticks, pc, current, forkqueue, readyqueue, waitqueue, status, age>>
    BY <1>4 DEF draftVars, schedVars
  <2>2. Starved' = Starved /\ \A t : Fatal(t)' = Fatal(t) /\ IdleAt(t)' = IdleAt(t)
    BY <1>1, ScriptsBringTheSame
  <2>3. Conserving' = Conserving
    BY <2>1 DEF Conserving, Backlog, Undone, Brought, Burden, Lifespan
  <2>4. Idling' = Idling
    BY <2>1, <2>2 DEF Idling, F, R
  <2>5. InTime' = InTime
    BY <2>1, <2>2 DEF InTime
  <2>6. NobodyWaits' = NobodyWaits /\ Stuck' = Stuck
    BY <2>1 DEF NobodyWaits, W, Stuck, HasTime, Unfinished
  <2> QED
    BY <1>3, <2>1, <2>2, <2>3, <2>4, <2>5, <2>6 DEF RrRuns, Balanced
<1>5. CASE AnyNext
  <2>1. pc \notin Faults
    BY <1>5 DEF AnyNext, Fork, ScheduleStep, Switch, AnyGrant, AnyRefusal, Work, AnyRelease,
                NextTick, Faults
  <2>2. CASE Balanced
    BY <1>1, <1>3, <1>5, <2>2, ForkBalances, ScheduleBalances, SwitchBalances, RefusalBalances,
       WorkBalances, NextTickBalances, OthersBalance DEF AnyNext
  <2>3. CASE Stuck
    <3>1. Fork \/ (ScheduleStep /\ Choice) \/ Switch
      BY <1>5, <2>3 DEF AnyNext, Stuck, AnyGrant, AnyRefusal, Work, AnyRelease, NextTick
    <3> QED
      BY <1>1, <1>3, <2>3, <3>1, ForkBalances, StuckSchedules, StuckSwitches
  <2> QED
    BY <1>3, <2>1, <2>2, <2>3 DEF RrRuns
<1> QED
  BY <1>1, <1>4, <1>5

LEMMA RrAlways == DraftSpec => []RrInv
<1>1. DraftInit => RrInv
  BY RrInit
<1>2. /\ BasicInv /\ PlaceInv /\ LifeInv /\ FreshInv /\ DueInv /\ StandInv /\ RrInv
      /\ [DraftNext]_draftVars
      => RrInv'
  BY RrStep
<1> QED
  BY <1>1, <1>2, BasicAlways, PlaceAlways, LifeAlways, FreshAlways, DueAlways, StandAlways,
     PTL DEF DraftSpec

(* A script with idle ticks is never finished by rr: before its last       *)
(* process comes it has looked for a current process in vain.              *)
LEMMA StarvedNeverEnds ==
    ASSUME BasicInv, LifeInv, StandInv, RrInv, policy = "rr", WellFormed, Starved
    PROVE  pc # "end"
<1>1. SUFFICES ASSUME pc = "end"
               PROVE  FALSE
  OBVIOUS
<1>2. InTime /\ TypeOK
  BY <1>1 DEF RrInv, RrRuns, Balanced, Stuck, Faults, BasicInv
<1>3. PICK t \in Nat : Fatal(t)
  BY <1>2, StarvedMeans
<1>4. ticks < t /\ ticks \in Nat
  BY <1>1, <1>2, <1>3 DEF InTime, TypeOK
<1>5. PICK p \in Pids : t < script[p].start
  BY <1>3, <1>4 DEF Fatal
<1>6. p \notin F
  BY <1>1 DEF StandInv, NoPrev, Faults, F, ToSet
<1>7. script[p].start <= ticks /\ script[p].start \in Nat
  BY <1>2, <1>6, ScriptFacts DEF LifeInv, Started
<1> QED
  BY <1>4, <1>5, <1>7

(* A script with a job of 100 ticks is never finished by sjf, one with     *)
(* idle ticks never by rr, one without priorities never by the first prio, *)
(* one with a process that holds a resource beyond its lifespan never by   *)
(* fifo, and none at all by the later sjf.                                 *)
THEOREM DoomedScriptsCrashAlways == DraftSpec => []DoomedScriptsCrash
<1>1. /\ BasicInv /\ PlaceInv /\ WaitInv /\ RequestInv /\ LifeInv /\ StandInv /\ QuietInv
      /\ StayInv /\ RrInv
      => DoomedScriptsCrash
  BY OthersNeverEnd, StarvedNeverEnds DEF DoomedScriptsCrash, Doomed
<1> QED
  BY <1>1, BasicAlways, PlaceAlways, WaitAlways, RequestAlways, LifeAlways, StandAlways,
     QuietAlways, StayAlways, RrAlways, PTL

(* On a script that its policy can take the simulator neither crashes nor  *)
(* asserts, and a process is always in exactly one place or has exited.    *)
THEOREM SoundScriptsSurviveAlways == DraftSpec => []SoundScriptsSurvive
<1>1. /\ BasicInv /\ PlaceInv /\ StandInv /\ QuietInv /\ SurviveInv /\ RrInv
      => SoundScriptsSurvive
  <2>1. SUFFICES ASSUME BasicInv, PlaceInv, StandInv, QuietInv, SurviveInv, RrInv, Sound
                 PROVE  pc \notin Faults /\ InOnePlace
    BY DEF SoundScriptsSurvive
  <2>2. Sturdy
    BY <2>1, SoundIsSturdy
  <2>3. ~RrIsIdle
    BY <2>1 DEF Sound, Survives, RrInv, RrRuns, RrIsIdle
  <2>4. pc \notin Faults /\ Apart
    BY <2>1, <2>2, <2>3 DEF SurviveInv, Survived
  <2>5. Remembers /\ \A p \in Pids : ~Lifeless(p)
    BY <2>1, <2>2, SturdyMeans DEF BasicInv
  <2> QED
    BY <2>1, <2>4, <2>5, EverybodyIsInOnePlace
<1> QED
  BY <1>1, BasicAlways, PlaceAlways, StandAlways, QuietAlways, SurviveAlways, RrAlways, PTL
=============================================================================
