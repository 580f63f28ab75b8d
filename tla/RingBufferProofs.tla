--------------------------- MODULE RingBufferProofs ---------------------------
(***************************************************************************)
(* The ring buffer of pa3.c with any number of generators, of requests and *)
(* of slots: its slots are conserved, its indices are used by one thread   *)
(* at a time, it is a bounded queue, and in the end every number was       *)
(* counted as often as it was generated.  The invariant of the semaphore   *)
(* (SemaphoreProofs) carries over; what is new is what S counts for each   *)
(* of the three semaphores, and where each number is.                      *)
(***************************************************************************)
EXTENDS RingBuffer, SemaphoreProofs, WellFoundedInduction

EnqueueLabels ==
    {"putWait", "putLock", "store", "advanceIn", "putUnlock", "putPost", "account"}
DequeueLabels ==
    {"getWait", "getLock", "load", "advanceOut", "getUnlock", "getPost", "count"}

Labels ==
    EnqueueLabels \cup DequeueLabels \cup
    {"unborn", "spawn", "loop", "exited", "barrier1", "barrier2", "barrier3",
     "collect", "joinGenerators", "joinCounter", "compare"}

ShapeOK ==
    /\ slots \in [0..N-1 -> Values \cup {NoValue}]
    /\ pc \in [Threads -> Labels]
    /\ i \in [Threads -> Nat]
    /\ value \in [Threads -> Values \cup {NoValue}]
    /\ \A g \in Generators :
          pc[g] \in EnqueueLabels \cup {"unborn", "loop", "exited",
                                        "barrier1", "barrier2", "barrier3"}
    /\ pc[Counter] \in DequeueLabels \cup {"loop", "exited"}
    /\ pc[Main] \in {"spawn", "barrier1", "barrier2", "barrier3", "collect",
                     "joinGenerators", "joinCounter", "compare", "exited"}

(* A thread is only in the library at the statement after a call.          *)
CallInv ==
    \A t \in Threads : lpc[t] # "out" =>
        \/ pc[t] = "putLock" /\ sem[t] = "sema" /\ lpc[t] \in AcqLabels
        \/ pc[t] = "getLock" /\ sem[t] = "empty" /\ lpc[t] \in AcqLabels
        \/ pc[t] \in {"store", "load"} /\ sem[t] = "mutex" /\ lpc[t] \in AcqLabels
        \/ pc[t] \in {"putPost", "getPost"} /\ sem[t] = "mutex" /\ lpc[t] \in RelLabels
        \/ pc[t] = "account" /\ sem[t] = "empty" /\ lpc[t] \in RelLabels
        \/ pc[t] = "count" /\ sem[t] = "sema" /\ lpc[t] \in RelLabels

(* How many rounds the threads have behind them.                           *)
RoundInv ==
    /\ \A g \in Generators :
          /\ i[g] <= NrGenerate
          /\ pc[g] \in EnqueueLabels => i[g] < NrGenerate /\ value[g] \in Values
          /\ pc[g] \in {"barrier2", "barrier3", "exited"} => i[g] = NrGenerate
    /\ pc[Counter] = "exited" => i[Counter] >= NrRequests
    /\ pc[Counter] \in DequeueLabels => i[Counter] < NrRequests

(* Main waits for the generators, then for the counter.                    *)
JoinInv ==
    /\ pc[Main] \in {"joinCounter", "compare", "exited"} =>
          \A g \in Generators : pc[g] = "exited"
    /\ pc[Main] \in {"compare", "exited"} => pc[Counter] = "exited"

(* The calls that have not changed S yet.                                  *)
Before == {"acqCas", "acqDec", "relCas", "relInc"}

(* The generators that have taken a free slot in this round, that have     *)
(* returned from the call that did it, that have stored their value in the *)
(* buffer, and that have announced it.                                     *)
Takers ==
    {g \in Generators :
        \/ pc[g] = "putLock" /\ lpc[g] \notin Before
        \/ pc[g] \in {"store", "advanceIn", "putUnlock", "putPost", "account"}}
Owners ==
    {g \in Generators :
        \/ pc[g] = "putLock" /\ lpc[g] = "out"
        \/ pc[g] \in {"store", "advanceIn", "putUnlock", "putPost", "account"}}
Putters == {g \in Generators : pc[g] \in {"putUnlock", "putPost", "account"}}
Posters == {g \in Generators : pc[g] = "account" /\ lpc[g] \notin Before}

(* The rounds in which the counter has done the same with a filled slot.   *)
Done(b) == i[Counter] + (IF b THEN 1 ELSE 0)
Fetched ==
    Done(\/ pc[Counter] = "getLock" /\ lpc[Counter] \notin Before
         \/ pc[Counter] \in {"load", "advanceOut", "getUnlock", "getPost", "count"})
Owned ==
    Done(\/ pc[Counter] = "getLock" /\ lpc[Counter] = "out"
         \/ pc[Counter] \in {"load", "advanceOut", "getUnlock", "getPost", "count"})
Emptied == Done(pc[Counter] \in {"getUnlock", "getPost", "count"})
Freed == Done(pc[Counter] = "count" /\ lpc[Counter] \notin Before)

(* The threads that have decremented S of the mutex and not incremented it *)
(* again, and those of them that have returned from acquire_mutex.         *)
MutexUsers ==
    {t \in Threads :
        \/ pc[t] \in {"store", "load"} /\ lpc[t] \notin Before
        \/ pc[t] \in {"advanceIn", "putUnlock", "advanceOut", "getUnlock"}
        \/ pc[t] \in {"putPost", "getPost"} /\ lpc[t] \in Before}
Insiders ==
    {t \in Threads :
        /\ pc[t] \in {"store", "advanceIn", "putUnlock", "load", "advanceOut", "getUnlock"}
        /\ lpc[t] = "out"}

PermitInv ==
    /\ S["sema"] = N - Cardinality(Requests(i, Takers)) + Freed
    /\ S["empty"] = Cardinality(Requests(i, Posters)) - Fetched
    /\ S["mutex"] = 1 - Cardinality(MutexUsers)

(* The indices are where the counts say, and a value that was stored is    *)
(* there when its slot is published.                                       *)
IndexInv ==
    /\ in = Inserted % N
    /\ out = Emptied % N
    /\ \A g \in Generators : pc[g] = "advanceIn" => slots[in] = value[g]

RingInv ==
    IInv /\ ShapeOK /\ CallInv /\ RoundInv /\ JoinInv /\ PermitInv /\ IndexInv

(* What follows from it: no more slots are owned than there are, none is   *)
(* emptied before it was filled.                                           *)
BoundsHold ==
    /\ Cardinality(Requests(i, Owners)) <= N + Freed
    /\ Owned <= Cardinality(Requests(i, Posters))
    /\ Cardinality(Insiders) <= 1

-----------------------------------------------------------------------------
(* The remainder, of which the provers know the definition only.           *)

LEMMA ModIsUnique ==
    ASSUME NEW n \in Nat \ {0}, NEW p \in Int, NEW q \in Int,
           NEW r \in 0..n-1, NEW s \in 0..n-1, n * p + r = n * q + s
    PROVE  r = s
<1>1. \A d \in Int : d >= 1 => n * d >= n
  OBVIOUS
<1>2. n * p - n * q = n * (p - q) /\ n * q - n * p = n * (q - p)
  OBVIOUS
<1>3. CASE p = q
  BY <1>3
<1>4. CASE p > q
  <2>1. n * (p - q) >= n
    BY <1>1, <1>4
  <2> QED
    BY <2>1, <1>2
<1>5. CASE q > p
  <2>1. n * (q - p) >= n
    BY <1>1, <1>5
  <2> QED
    BY <2>1, <1>2
<1> QED
  BY <1>3, <1>4, <1>5

LEMMA ModFacts ==
    ASSUME NEW n \in Nat \ {0}, NEW a \in Nat
    PROVE  /\ (a \div n) \in Nat /\ (a % n) \in 0..n-1
           /\ a = n * (a \div n) + (a % n)
OBVIOUS

(* An index that is advanced (pa3.c:217, 233) stays the remainder.         *)
LEMMA ModSuccessor ==
    ASSUME NEW n \in Nat \ {0}, NEW a \in Nat
    PROVE  ((a % n) + 1) % n = (a + 1) % n
<1>1. PICK q \in Nat, r \in 0..n-1 : a = n * q + r /\ r = a % n
  BY ModFacts
<1>2. PICK b \in Nat : b = a + 1
  OBVIOUS
<1>3. PICK c \in Nat : c = r + 1
  OBVIOUS
<1>4. PICK p \in Nat, s \in 0..n-1 : b = n * p + s /\ s = b % n
  BY ModFacts
<1>5. PICK d \in Nat, u \in 0..n-1 : c = n * d + u /\ u = c % n
  BY ModFacts
<1>6. n * (q + d) = n * q + n * d
  OBVIOUS
<1>7. n * (q + d) + u = n * p + s
  BY <1>1, <1>2, <1>3, <1>4, <1>5, <1>6
<1>8. u = s
  BY <1>7, ModIsUnique
<1> QED
  BY <1>1, <1>2, <1>3, <1>4, <1>5, <1>8

(* Fewer than n slots in a row are different slots.                        *)
LEMMA ModDiffers ==
    ASSUME NEW n \in Nat \ {0}, NEW a \in Nat, NEW b \in Nat, a < b, b - a < n
    PROVE  a % n # b % n
<1> SUFFICES ASSUME a % n = b % n PROVE FALSE
  OBVIOUS
<1> DEFINE p == a \div n
           q == b \div n
<1>0. /\ p \in Nat /\ q \in Nat /\ (a % n) \in 0..n-1
      /\ a = n * p + (a % n) /\ b = n * q + (b % n)
  BY ModFacts
<1> HIDE DEF p, q
<1>1. p \in Nat /\ q \in Nat /\ b - a = n * q - n * p
  BY <1>0
<1>2. n * q - n * p = n * (q - p)
  BY <1>1
<1>3. CASE q - p >= 1
  <2>1. n * (q - p) >= n
    BY <1>1, <1>3
  <2> QED
    BY <1>1, <1>2, <2>1
<1>4. CASE q - p <= 0
  <2>1. n * (q - p) <= 0
    BY <1>1, <1>4
  <2> QED
    BY <1>1, <1>2, <2>1
<1> QED
  BY <1>1, <1>3, <1>4

-----------------------------------------------------------------------------
(* What is assumed of the constants, Permits value by value.               *)
LEMMA ConstantFacts ==
    /\ Threads = Generators \cup {Counter, Main}
    /\ IsFiniteSet(Generators)
    /\ Counter \notin Generators /\ Main \notin Generators /\ Main # Counter
    /\ Sems = {"sema", "mutex", "empty"}
    /\ N \in Nat /\ N # 0 /\ NrGenerate \in Nat /\ NrGenerate # 0
    /\ Permits["sema"] = N /\ Permits["empty"] = 0 /\ Permits["mutex"] = 1
    /\ DOMAIN Permits = Sems
    /\ NoSem \notin Sems /\ NoThread \notin Threads /\ IsFiniteSet(Threads)
<1> DEFINE P == [m \in Sems |-> CASE m = "sema" -> N [] m = "empty" -> 0 [] OTHER -> 1]
<1>1. Permits = P /\ Sems = {"sema", "mutex", "empty"}
  BY Zenon, RingBufferAssumption
<1>2. /\ P["sema"] = (CASE "sema" = "sema" -> N [] "sema" = "empty" -> 0 [] OTHER -> 1)
      /\ P["empty"] = (CASE "empty" = "sema" -> N [] "empty" = "empty" -> 0 [] OTHER -> 1)
      /\ P["mutex"] = (CASE "mutex" = "sema" -> N [] "mutex" = "empty" -> 0 [] OTHER -> 1)
  BY <1>1, Zenon
<1>3. "sema" # "empty" /\ "mutex" # "sema" /\ "mutex" # "empty"
  OBVIOUS
<1>4. P["sema"] = N /\ P["empty"] = 0 /\ P["mutex"] = 1
  BY <1>2, <1>3, Zenon
<1>5. N \in Nat \ {0} /\ NrGenerate \in Nat \ {0}
  BY Zenon, RingBufferAssumption
<1>6. /\ Threads = Generators \cup {Counter, Main} /\ IsFiniteSet(Generators)
      /\ Counter \notin Generators /\ Main \notin Generators \cup {Counter}
  BY Zenon, RingBufferAssumption
<1> QED
  BY <1>1, <1>4, <1>5, <1>6, SemaphoreAssumption

-----------------------------------------------------------------------------
(* Counting requests.                                                      *)

LEMMA RequestsFinite ==
    ASSUME NEW j, NEW T
    PROVE  IsFiniteSet(Requests(j, T)) /\ Cardinality(Requests(j, T)) \in Nat
<1> DEFINE K == 0 .. NrGenerate - 1
<1>1. IsFiniteSet(Generators) /\ IsFiniteSet(K)
  <2>1. 0 \in Int /\ NrGenerate - 1 \in Int
    BY ConstantFacts
  <2> QED
    BY <2>1, ConstantFacts, FS_Interval, Zenon
<1>2. IsFiniteSet(Generators \X K)
  <2> HIDE DEF K
  <2> QED
    BY <1>1, FS_Product, Zenon
<1>3. Requests(j, T) \in SUBSET (Generators \X K)
  BY DEF Requests
<1> QED
  BY <1>2, <1>3, FS_Subset, FS_CardinalityType

LEMMA RequestsMonotone ==
    ASSUME NEW j, NEW T, NEW U, T \subseteq U
    PROVE  Cardinality(Requests(j, T)) <= Cardinality(Requests(j, U))
<1>1. Requests(j, T) \subseteq Requests(j, U)
  BY DEF Requests
<1> QED
  BY <1>1, RequestsFinite, FS_Subset

(* A generator that joins T adds the request of its round.                 *)
LEMMA RequestsAdd ==
    ASSUME NEW j, NEW T, NEW g \in Generators, g \notin T,
           j[g] \in Nat, j[g] < NrGenerate
    PROVE  Cardinality(Requests(j, T \cup {g})) = Cardinality(Requests(j, T)) + 1
<1>1. j[g] \in 0 .. NrGenerate - 1
  BY ConstantFacts
<1>2. Requests(j, T \cup {g}) = Requests(j, T) \cup {<<g, j[g]>>}
  BY <1>1 DEF Requests
<1>3. <<g, j[g]>> \notin Requests(j, T)
  BY <1>1 DEF Requests
<1> QED
  BY <1>2, <1>3, RequestsFinite, FS_AddElement

(* The next round begins without the generator in T.                       *)
LEMMA RequestsNextRound ==
    ASSUME NEW j, NEW k, NEW T, NEW g \in T, g \in Generators,
           j[g] \in Nat, k[g] = j[g] + 1, \A h \in Generators : h # g => k[h] = j[h]
    PROVE  Requests(k, T \ {g}) = Requests(j, T)
<1> SUFFICES ASSUME NEW h \in Generators, NEW n \in 0 .. NrGenerate - 1
             PROVE  (n < k[h] \/ (n = k[h] /\ h \in T \ {g}))
                      <=> (n < j[h] \/ (n = j[h] /\ h \in T))
  BY DEF Requests
<1> QED
  BY ConstantFacts

LEMMA RequestsNone ==
    ASSUME NEW j, \A g \in Generators : j[g] = 0
    PROVE  Cardinality(Requests(j, {})) = 0
<1>1. Requests(j, {}) = {}
  BY ConstantFacts DEF Requests
<1> QED
  BY <1>1, FS_EmptySet

LEMMA RequestsAll ==
    ASSUME NEW j, NEW T, \A g \in Generators : j[g] = NrGenerate
    PROVE  Cardinality(Requests(j, T)) = NrRequests
<1> DEFINE K == 0 .. NrGenerate - 1
<1>1. Requests(j, T) = Generators \X K
  BY ConstantFacts DEF Requests
<1>2. IsFiniteSet(Generators) /\ IsFiniteSet(K) /\ Cardinality(K) = NrGenerate
  BY ConstantFacts, FS_Interval
<1>3. Cardinality(Generators \X K) = Cardinality(Generators) * Cardinality(K)
  <2> HIDE DEF K
  <2> QED
    BY <1>2, FS_Product, Zenon
<1>4. Cardinality(Generators) \in Nat
  BY ConstantFacts, FS_CardinalityType
<1> HIDE DEF K
<1> QED
  BY <1>1, <1>2, <1>3, <1>4, ConstantFacts DEF NrRequests

-----------------------------------------------------------------------------
(* The first state.                                                        *)

LEMMA InitPc ==
    ASSUME RBInit
    PROVE  /\ pc \in [Threads -> Labels]
           /\ pc[Main] = "spawn" /\ pc[Counter] = "loop"
           /\ \A g \in Generators : pc[g] = "unborn"
<1> DEFINE P(t) == CASE t = Main -> "spawn" [] t = Counter -> "loop" [] OTHER -> "unborn"
<1>1. pc = [t \in Threads |-> P(t)]
  BY Zenon DEF RBInit
<1>2. P(Main) = "spawn" /\ P(Counter) = "loop"
  <2>1. Main # Counter
    BY ConstantFacts
  <2> QED
    BY <2>1, Zenon
<1>3. \A g \in Generators : P(g) = "unborn"
  <2>1. \A g \in Generators : g # Main /\ g # Counter
    BY ConstantFacts
  <2> QED
    BY <2>1, Zenon
<1> HIDE DEF P
<1>4. Main \in Threads /\ Counter \in Threads /\ \A g \in Generators : g \in Threads
  BY ConstantFacts
<1>5. \A t \in Threads : P(t) \in Labels
  BY <1>2, <1>3, ConstantFacts DEF Labels
<1> QED
  BY <1>1, <1>2, <1>3, <1>4, <1>5

LEMMA InitRingInv == RBInit => RingInv
<1> SUFFICES ASSUME RBInit PROVE RingInv
  OBVIOUS
<1>1. IInv
  BY InitIInv DEF RBInit
<1>2. ShapeOK
  <2>1. \A t \in Threads : i[t] = 0
    BY DEF RBInit
  <2>2. i \in [Threads -> Nat] /\ value \in [Threads -> Values \cup {NoValue}]
        /\ slots \in [0..N-1 -> Values \cup {NoValue}]
    BY DEF RBInit
  <2> QED
    BY <2>2, InitPc, ConstantFacts DEF ShapeOK
<1>3. /\ \A t \in Threads : lpc[t] = "out" /\ i[t] = 0
      /\ S["sema"] = N /\ S["empty"] = 0 /\ S["mutex"] = 1
  BY ConstantFacts DEF RBInit, Init
<1>4. CallInv /\ RoundInv /\ JoinInv
  BY <1>3, InitPc, ConstantFacts DEF CallInv, RoundInv, JoinInv, EnqueueLabels, DequeueLabels
<1>5. /\ Takers = {} /\ Posters = {} /\ MutexUsers = {}
      /\ {g \in Generators : pc[g] \in {"putUnlock", "putPost", "account"}} = {}
  BY InitPc, ConstantFacts DEF Takers, Posters, MutexUsers
<1>6. Fetched = 0 /\ Freed = 0 /\ Emptied = 0
  BY <1>3, InitPc, ConstantFacts DEF Fetched, Freed, Emptied, Done
<1>7. Cardinality(Requests(i, {})) = 0
  BY <1>3, RequestsNone, ConstantFacts
<1>8. PermitInv
  BY <1>3, <1>5, <1>6, <1>7, FS_EmptySet, ConstantFacts DEF PermitInv
<1>9. IndexInv
  <2>1. 0 % N = 0
    BY ConstantFacts
  <2>2. Inserted = 0
    BY <1>5, <1>7 DEF Inserted
  <2> QED
    BY <2>1, <2>2, <1>6, InitPc DEF IndexInv, RBInit
<1> QED
  BY <1>1, <1>2, <1>4, <1>8, <1>9 DEF RingInv

-----------------------------------------------------------------------------
(* What the counts say.                                                    *)

LEMMA CountTypes ==
    ASSUME RingInv
    PROVE  /\ Freed \in Nat /\ Emptied \in Nat /\ Taken \in Nat
           /\ Owned \in Nat /\ Fetched \in Nat /\ i[Counter] \in Nat
           /\ Freed <= Emptied /\ Emptied <= Taken /\ Taken <= Owned /\ Owned <= Fetched
BY ConstantFacts
   DEF RingInv, ShapeOK, CallInv, Before, AcqLabels, RelLabels,
       Freed, Emptied, Taken, Owned, Fetched, Done

(* Whoever waits for a free slot has asked for it and does not own it.     *)
LEMMA OwnedSlotsAreFree ==
    ASSUME RingInv
    PROVE  Cardinality(Requests(i, Owners)) <= N + Freed
<1> DEFINE W == Waiting("sema")
           A == Requests(i, Takers)
           O == Requests(i, Owners)
           F == [g \in W |-> <<g, i[g]>>]
<1>1. /\ "sema" \in Sems /\ S["sema"] \in Int /\ S["sema"] = N - Cardinality(A) + Freed
      /\ IsFiniteSet(W) /\ Cardinality(W) \in Nat /\ Cardinality(W) >= -S["sema"]
  BY ConstantFacts, WaitersOweS DEF RingInv, PermitInv, IInv, TypeOK
<1>2. /\ IsFiniteSet(A) /\ Cardinality(A) \in Nat
      /\ IsFiniteSet(O) /\ Cardinality(O) \in Nat
  BY RequestsFinite
<1>3. W \subseteq Takers /\ W \cap Owners = {} /\ Owners \subseteq Takers
  <2>1. ASSUME NEW g \in W
        PROVE  g \in Generators /\ pc[g] = "putLock" /\ lpc[g] \notin Before \cup {"out"}
    <3>1. g \in Threads /\ sem[g] = "sema" /\ lpc[g] \in {"acqAdd", "acqMask", "acqDrop", "acqWait"}
      BY DEF Waiting
    <3>2. lpc[g] \notin Before \cup {"out"} \cup RelLabels
      BY <3>1 DEF Before, RelLabels
    <3>3. pc[g] = "putLock"
      BY <3>1, <3>2 DEF RingInv, CallInv
    <3>4. g # Counter /\ g # Main
      BY <3>3 DEF RingInv, ShapeOK, DequeueLabels
    <3> QED
      BY <3>1, <3>2, <3>3, <3>4, ConstantFacts
  <2>2. W \subseteq Takers /\ W \cap Owners = {}
    BY <2>1 DEF Takers, Owners
  <2>3. Owners \subseteq Takers
    BY DEF Takers, Owners, Before
  <2> QED
    BY <2>1, <2>2, <2>3
<1>4. \A g \in W : g \in Generators /\ i[g] \in 0 .. NrGenerate - 1
  <2>1. \A g \in W : g \in Generators /\ pc[g] = "putLock"
    BY ConstantFacts DEF RingInv, CallInv, ShapeOK, Waiting, AcqLabels,
       RelLabels, EnqueueLabels, DequeueLabels
  <2>2. \A g \in W : i[g] \in Nat /\ i[g] < NrGenerate
    BY <2>1, ConstantFacts DEF RingInv, ShapeOK, RoundInv, EnqueueLabels
  <2> HIDE DEF W
  <2> QED
    BY <2>1, <2>2, ConstantFacts
<1>5. F \in Injection(W, A \ O)
  <2>1. \A g \in W : <<g, i[g]>> \in A \ O
    BY <1>3, <1>4 DEF Requests
  <2>2. \A g, h \in W : <<g, i[g]>> = <<h, i[h]>> => g = h
    OBVIOUS
  <2> HIDE DEF W, A, O
  <2> QED
    BY <2>1, <2>2 DEF Injection, IsInjective
<1>6. O \subseteq A
  BY <1>3 DEF Requests
<1> HIDE DEF W, A, O, F
<1>7. IsFiniteSet(A \ O) /\ Cardinality(A \ O) = Cardinality(A) - Cardinality(O)
  <2>1. A \cap O = O
    BY <1>6
  <2> QED
    BY <1>2, <2>1, FS_Difference
<1>8. Cardinality(W) <= Cardinality(A \ O)
  BY <1>5, <1>7, FS_Injection
<1>9. Cardinality(O) <= N + Freed
  BY <1>1, <1>2, <1>7, <1>8, CountTypes, ConstantFacts
<1> QED
  BY <1>9 DEF O

(* The counter only owns a slot that was announced.                        *)
LEMMA OwnedSlotsAreFilled ==
    ASSUME RingInv
    PROVE  Owned <= Cardinality(Requests(i, Posters))
<1> DEFINE W == Waiting("empty")
           P == Cardinality(Requests(i, Posters))
<1>1. /\ "empty" \in Sems /\ S["empty"] = P - Fetched
      /\ IsFiniteSet(W) /\ Cardinality(W) \in Nat /\ Cardinality(W) >= -S["empty"]
  BY ConstantFacts, WaitersOweS DEF RingInv, PermitInv
<1>2. P \in Nat
  BY RequestsFinite
<1>3. W \subseteq {Counter}
  BY ConstantFacts DEF RingInv, CallInv, ShapeOK, Waiting, AcqLabels,
     RelLabels, EnqueueLabels, DequeueLabels
<1>4. CASE Counter \in W
  <2>1. Owned = Fetched - 1
    BY <1>4, CountTypes, ConstantFacts
       DEF RingInv, CallInv, Waiting, AcqLabels, RelLabels, Owned, Fetched, Done, Before
  <2>2. W = {Counter}
    BY <1>3, <1>4
  <2>3. Cardinality(W) = 1
    BY <2>2, FS_Singleton
  <2> HIDE DEF W, P
  <2> QED
    BY <1>1, <1>2, <2>1, <2>3, CountTypes DEF P
<1>5. CASE Counter \notin W
  <2>1. W = {}
    BY <1>3, <1>5
  <2>2. Cardinality(W) = 0
    BY <2>1, FS_EmptySet
  <2> HIDE DEF W, P
  <2> QED
    BY <1>1, <1>2, <2>2, CountTypes DEF P
<1> QED
  BY <1>4, <1>5

(* At most one thread has returned from acquire_mutex on the mutex.        *)
LEMMA OneInsider ==
    ASSUME RingInv
    PROVE  Cardinality(Insiders) <= 1 /\ \A t, u \in Insiders : t = u
<1> DEFINE W == Waiting("mutex")
           U == MutexUsers
           C == Insiders
<1>1. /\ "mutex" \in Sems /\ S["mutex"] = 1 - Cardinality(U)
      /\ IsFiniteSet(W) /\ Cardinality(W) \in Nat /\ Cardinality(W) >= -S["mutex"]
  BY ConstantFacts, WaitersOweS DEF RingInv, PermitInv
<1>2. /\ IsFiniteSet(U) /\ Cardinality(U) \in Nat /\ IsFiniteSet(C) /\ Cardinality(C) \in Nat
  BY ConstantFacts, FS_Subset, FS_CardinalityType DEF MutexUsers, Insiders
<1>3. W \subseteq U \ C /\ C \subseteq U
  BY ConstantFacts DEF RingInv, CallInv, Waiting, MutexUsers, Insiders, Before, AcqLabels,
     RelLabels
<1> HIDE DEF W, U, C
<1>4. IsFiniteSet(U \ C) /\ Cardinality(U \ C) = Cardinality(U) - Cardinality(C)
  <2>1. U \cap C = C
    BY <1>3
  <2> QED
    BY <1>2, <2>1, FS_Difference
<1>5. Cardinality(W) <= Cardinality(U \ C)
  BY <1>3, <1>4, FS_Subset
<1>6. Cardinality(C) <= 1
  BY <1>1, <1>2, <1>4, <1>5
<1>7. \A t, u \in C : t = u
  <2> SUFFICES ASSUME NEW t \in C, NEW u \in C, t # u
               PROVE  FALSE
    OBVIOUS
  <2>1. IsFiniteSet(C \ {t}) /\ Cardinality(C \ {t}) = Cardinality(C) - 1
    BY <1>2, FS_RemoveElement
  <2>2. C \ {t} # {} /\ Cardinality(C \ {t}) = 0
    BY <1>2, <1>6, <2>1, FS_CardinalityType
  <2> QED
    BY <2>1, <2>2, FS_EmptySet
<1> QED
  BY <1>6, <1>7 DEF C

LEMMA RingInvBounds == RingInv => BoundsHold
BY OwnedSlotsAreFree, OwnedSlotsAreFilled, OneInsider DEF BoundsHold

-----------------------------------------------------------------------------
(* A step of the library.                                                  *)

(* What it does to the control of its thread and to S.                     *)
LEMMA LibraryMoves ==
    ASSUME IInv, NEW t \in Threads, LibStep(t)
    PROVE  /\ \A u \in Threads : u # t => lpc'[u] = lpc[u] /\ sem'[u] = sem[u]
           /\ lpc[t] # "out" /\ (lpc'[t] # "out" => sem'[t] = sem[t])
           /\ lpc[t] \in AcqLabels => lpc'[t] \in AcqLabels \cup {"out"}
           /\ lpc[t] \in RelLabels => lpc'[t] \in RelLabels \cup {"out"}
           /\ \/ /\ S' = S
                 /\ lpc'[t] \in Before <=> lpc[t] \in Before
              \/ /\ S' = [S EXCEPT ![sem[t]] = @ - 1]
                 /\ lpc[t] = "acqDec" /\ lpc'[t] \notin Before
              \/ /\ S' = [S EXCEPT ![sem[t]] = @ + 1]
                 /\ lpc[t] = "relInc" /\ lpc'[t] \notin Before
BY DEF IInv, TypeOK, LibStep, AcqStep, RelStep, AcqCas, AcqDec, AcqFree, AcqAdd, AcqMask,
       AcqDrop, AcqWait, RelCas, RelInc, RelFree, RelPop, RelDrop, RelKill,
       At, Goto, Return, AcqLabels, RelLabels, Before

(* The parts of the invariant that a step of the library cannot disturb.   *)
LEMMA LibraryKeepsTheRest ==
    ASSUME RingInv, NEW t \in Threads, LibStep(t), UNCHANGED rbVars
    PROVE  IInv' /\ ShapeOK' /\ CallInv' /\ RoundInv' /\ JoinInv' /\ IndexInv'
<1>1. IInv'
  BY LibStepKeepsIInv DEF RingInv
<1>2. ShapeOK' /\ RoundInv' /\ JoinInv'
  BY DEF RingInv, rbVars, ShapeOK, RoundInv, JoinInv
<1>3. CallInv'
  BY LibraryMoves DEF RingInv, rbVars, CallInv, AcqLabels, RelLabels
<1>4. IndexInv'
  BY DEF RingInv, rbVars, IndexInv, Inserted, Emptied, Done
<1> QED
  BY <1>1, <1>2, <1>3, <1>4

LEMMA SamePermits ==
    ASSUME RingInv, S' = S, MutexUsers' = MutexUsers,
           Requests(i, Takers)' = Requests(i, Takers),
           Requests(i, Posters)' = Requests(i, Posters),
           Fetched' = Fetched, Freed' = Freed
    PROVE  PermitInv'
BY DEF RingInv, PermitInv

LEMMA QuietLibraryKeepsPermits ==
    ASSUME RingInv, NEW t \in Threads, LibStep(t), UNCHANGED rbVars,
           S' = S, lpc'[t] \in Before <=> lpc[t] \in Before
    PROVE  PermitInv'
<1>1. /\ pc' = pc /\ i' = i
      /\ \A u \in Threads : lpc'[u] \in Before <=> lpc[u] \in Before
  BY LibraryMoves DEF RingInv, rbVars
<1>2. Takers' = Takers /\ Posters' = Posters
  BY <1>1, ConstantFacts DEF Takers, Posters
<1>3. MutexUsers' = MutexUsers
  BY <1>1 DEF MutexUsers
<1>4. Fetched' = Fetched /\ Freed' = Freed
  BY <1>1, ConstantFacts DEF Fetched, Freed, Done
<1> QED
  BY <1>1, <1>2, <1>3, <1>4, SamePermits

(* The decrement of S, by a generator that asks for a free slot, by the    *)
(* counter that asks for a filled one, or by either for the indices.       *)
LEMMA DecrementKeepsPermits ==
    ASSUME RingInv, NEW t \in Threads, LibStep(t), UNCHANGED rbVars,
           S' = [S EXCEPT ![sem[t]] = @ - 1], lpc[t] = "acqDec", lpc'[t] \notin Before
    PROVE  PermitInv'
<1>1. /\ pc' = pc /\ i' = i /\ lpc[t] \in Before
      /\ \A u \in Threads : u # t => lpc'[u] = lpc[u]
  BY LibraryMoves DEF RingInv, rbVars, Before
<1>2. /\ S \in [Sems -> Int]
      /\ S["sema"] = N - Cardinality(Requests(i, Takers)) + Freed
      /\ S["empty"] = Cardinality(Requests(i, Posters)) - Fetched
      /\ S["mutex"] = 1 - Cardinality(MutexUsers)
  BY DEF RingInv, PermitInv, IInv, TypeOK
<1>3. /\ Cardinality(Requests(i, Takers)) \in Nat
      /\ Cardinality(Requests(i, Posters)) \in Nat
  BY RequestsFinite
<1>4. IsFiniteSet(MutexUsers) /\ Cardinality(MutexUsers) \in Nat
  BY ConstantFacts, FS_Subset, FS_CardinalityType DEF MutexUsers
<1>5. Posters' = Posters /\ Freed' = Freed
  BY <1>1, ConstantFacts DEF RingInv, CallInv, Posters, Freed, Done, Before, AcqLabels, RelLabels
<1>6. CASE pc[t] = "putLock" /\ sem[t] = "sema"
  <2>1. t \in Generators /\ i[t] \in Nat /\ i[t] < NrGenerate
    BY <1>6, ConstantFacts DEF RingInv, ShapeOK, RoundInv, EnqueueLabels, DequeueLabels
  <2>2. Takers' = Takers \cup {t} /\ t \notin Takers
    BY <1>1, <1>6, <2>1, ConstantFacts DEF Takers
  <2>3. MutexUsers' = MutexUsers
    BY <1>1, <1>6 DEF MutexUsers
  <2>4. Fetched' = Fetched
    BY <1>1, <2>1, ConstantFacts DEF Fetched, Done
  <2>5. Cardinality(Requests(i, Takers)') = Cardinality(Requests(i, Takers)) + 1
    BY <1>1, <2>1, <2>2, RequestsAdd
  <2>6. S'["sema"] = S["sema"] - 1 /\ S'["empty"] = S["empty"] /\ S'["mutex"] = S["mutex"]
    BY <1>2, <1>6, ConstantFacts
  <2> QED
    BY <1>1, <1>2, <1>3, <1>5, <2>3, <2>4, <2>5, <2>6, CountTypes, ConstantFacts DEF PermitInv
<1>7. CASE pc[t] = "getLock" /\ sem[t] = "empty"
  <2>1. t = Counter
    BY <1>7, ConstantFacts DEF RingInv, ShapeOK, EnqueueLabels, DequeueLabels
  <2>2. Takers' = Takers
    BY <1>1, <2>1, ConstantFacts DEF Takers
  <2>3. MutexUsers' = MutexUsers
    BY <1>1, <1>7 DEF MutexUsers
  <2>4. Fetched' = Fetched + 1
    BY <1>1, <1>7, <2>1, CountTypes DEF Fetched, Done
  <2>5. S'["sema"] = S["sema"] /\ S'["empty"] = S["empty"] - 1 /\ S'["mutex"] = S["mutex"]
    BY <1>2, <1>7, ConstantFacts
  <2> QED
    BY <1>1, <1>2, <1>3, <1>5, <2>2, <2>3, <2>4, <2>5, CountTypes DEF PermitInv
<1>8. CASE pc[t] \in {"store", "load"} /\ sem[t] = "mutex"
  <2>1. Takers' = Takers
    BY <1>1, <1>8, ConstantFacts DEF Takers
  <2>2. Fetched' = Fetched
    BY <1>1, <1>8, ConstantFacts DEF Fetched, Done
  <2>3. MutexUsers' = MutexUsers \cup {t} /\ t \notin MutexUsers
    BY <1>1, <1>8 DEF MutexUsers
  <2>4. Cardinality(MutexUsers') = Cardinality(MutexUsers) + 1
    BY <1>4, <2>3, FS_AddElement
  <2>5. S'["sema"] = S["sema"] /\ S'["empty"] = S["empty"] /\ S'["mutex"] = S["mutex"] - 1
    BY <1>2, <1>8, ConstantFacts
  <2> QED
    BY <1>1, <1>2, <1>4, <1>5, <2>1, <2>2, <2>4, <2>5 DEF PermitInv
<1> QED
  BY <1>1, <1>6, <1>7, <1>8 DEF RingInv, CallInv, AcqLabels, RelLabels

(* The increment, by a generator that announces a filled slot, by the      *)
(* counter that gives a free one back, or by either for the indices.       *)
LEMMA IncrementKeepsPermits ==
    ASSUME RingInv, NEW t \in Threads, LibStep(t), UNCHANGED rbVars,
           S' = [S EXCEPT ![sem[t]] = @ + 1], lpc[t] = "relInc", lpc'[t] \notin Before
    PROVE  PermitInv'
<1>1. /\ pc' = pc /\ i' = i /\ lpc[t] \in Before
      /\ \A u \in Threads : u # t => lpc'[u] = lpc[u]
  BY LibraryMoves DEF RingInv, rbVars, Before
<1>2. /\ S \in [Sems -> Int]
      /\ S["sema"] = N - Cardinality(Requests(i, Takers)) + Freed
      /\ S["empty"] = Cardinality(Requests(i, Posters)) - Fetched
      /\ S["mutex"] = 1 - Cardinality(MutexUsers)
  BY DEF RingInv, PermitInv, IInv, TypeOK
<1>3. /\ Cardinality(Requests(i, Takers)) \in Nat
      /\ Cardinality(Requests(i, Posters)) \in Nat
  BY RequestsFinite
<1>4. IsFiniteSet(MutexUsers) /\ Cardinality(MutexUsers) \in Nat
  BY ConstantFacts, FS_Subset, FS_CardinalityType DEF MutexUsers
<1>5. Takers' = Takers /\ Fetched' = Fetched
  BY <1>1, ConstantFacts DEF RingInv, CallInv, Takers, Fetched, Done, Before, AcqLabels, RelLabels
<1>6. CASE pc[t] = "account" /\ sem[t] = "empty"
  <2>1. t \in Generators /\ i[t] \in Nat /\ i[t] < NrGenerate
    BY <1>6, ConstantFacts DEF RingInv, ShapeOK, RoundInv, EnqueueLabels, DequeueLabels
  <2>2. Posters' = Posters \cup {t} /\ t \notin Posters
    BY <1>1, <1>6, <2>1, ConstantFacts DEF Posters
  <2>3. MutexUsers' = MutexUsers
    BY <1>1, <1>6 DEF MutexUsers
  <2>4. Freed' = Freed
    BY <1>1, <2>1, ConstantFacts DEF Freed, Done
  <2>5. Cardinality(Requests(i, Posters)') = Cardinality(Requests(i, Posters)) + 1
    BY <1>1, <2>1, <2>2, RequestsAdd
  <2>6. S'["sema"] = S["sema"] /\ S'["empty"] = S["empty"] + 1 /\ S'["mutex"] = S["mutex"]
    BY <1>2, <1>6, ConstantFacts
  <2> QED
    BY <1>1, <1>2, <1>3, <1>5, <2>3, <2>4, <2>5, <2>6, CountTypes, ConstantFacts DEF PermitInv
<1>7. CASE pc[t] = "count" /\ sem[t] = "sema"
  <2>1. t = Counter
    BY <1>7, ConstantFacts DEF RingInv, ShapeOK, EnqueueLabels, DequeueLabels
  <2>2. Posters' = Posters
    BY <1>1, <2>1, ConstantFacts DEF Posters
  <2>3. MutexUsers' = MutexUsers
    BY <1>1, <1>7 DEF MutexUsers
  <2>4. Freed' = Freed + 1
    BY <1>1, <1>7, <2>1, CountTypes DEF Freed, Done
  <2>5. S'["sema"] = S["sema"] + 1 /\ S'["empty"] = S["empty"] /\ S'["mutex"] = S["mutex"]
    BY <1>2, <1>7, ConstantFacts
  <2> QED
    BY <1>1, <1>2, <1>3, <1>5, <2>2, <2>3, <2>4, <2>5, CountTypes, ConstantFacts DEF PermitInv
<1>8. CASE pc[t] \in {"putPost", "getPost"} /\ sem[t] = "mutex"
  <2>1. Posters' = Posters
    BY <1>1, <1>8, ConstantFacts DEF Posters
  <2>2. Freed' = Freed
    BY <1>1, <1>8, ConstantFacts DEF Freed, Done
  <2>3. MutexUsers' = MutexUsers \ {t} /\ t \in MutexUsers
    BY <1>1, <1>8 DEF MutexUsers
  <2>4. Cardinality(MutexUsers') = Cardinality(MutexUsers) - 1
    BY <1>4, <2>3, FS_RemoveElement
  <2>5. S'["sema"] = S["sema"] /\ S'["empty"] = S["empty"] /\ S'["mutex"] = S["mutex"] + 1
    BY <1>2, <1>8, ConstantFacts
  <2> QED
    BY <1>1, <1>2, <1>4, <1>5, <2>1, <2>2, <2>4, <2>5 DEF PermitInv
<1> QED
  BY <1>1, <1>6, <1>7, <1>8 DEF RingInv, CallInv, AcqLabels, RelLabels

LEMMA LibraryKeepsRingInv ==
    ASSUME RingInv, NEW t \in Threads, Library(t)
    PROVE  RingInv'
<1>1. LibStep(t) /\ UNCHANGED rbVars /\ IInv
  BY DEF Library, RingInv
<1>2. PermitInv'
  BY <1>1, LibraryMoves, QuietLibraryKeepsPermits, DecrementKeepsPermits,
     IncrementKeepsPermits
<1> QED
  BY <1>1, <1>2, LibraryKeepsTheRest DEF RingInv

-----------------------------------------------------------------------------
(* A step of a thread in its own code.                                     *)

LEMMA SemIdle ==
    ASSUME IInv, UNCHANGED semVars
    PROVE  IInv'
BY NextKeepsIInv

LEMMA RequestsSame ==
    ASSUME NEW j, NEW k, NEW T, \A g \in Generators : j[g] = k[g]
    PROVE  Requests(j, T) = Requests(k, T)
BY DEF Requests

LEMMA InsertedIsPutters == Inserted = Cardinality(Requests(i, Putters))
BY DEF Inserted, Putters

LEMMA Roles ==
    ASSUME RingInv, NEW t \in Threads
    PROVE  /\ pc[t] \in EnqueueLabels \cup {"unborn"} => t \in Generators
           /\ pc[t] \in DequeueLabels => t = Counter
           /\ t \in Generators \/ t = Counter \/ t = Main
           /\ \A g \in Generators : g # Counter /\ g # Main /\ g \in Threads
           /\ Counter \in Threads /\ Main \in Threads /\ Counter # Main
BY ConstantFacts DEF RingInv, ShapeOK, EnqueueLabels, DequeueLabels

(* The calls: the thread is at the statement after the call, and the call  *)
(* has not changed S yet.                                                  *)
LEMMA WaitKeepsRingInv ==
    ASSUME RingInv, NEW t \in Threads, NEW from, NEW m, NEW to, Wait(t, from, m, to),
           \/ from = "putWait" /\ m = "sema" /\ to = "putLock"
           \/ from = "putLock" /\ m = "mutex" /\ to = "store"
           \/ from = "getWait" /\ m = "empty" /\ to = "getLock"
           \/ from = "getLock" /\ m = "mutex" /\ to = "load"
    PROVE  RingInv'
<1>1. /\ pc[t] = from /\ lpc[t] = "out"
      /\ pc \in [Threads -> Labels] /\ pc' = [pc EXCEPT ![t] = to]
      /\ lpc'[t] = "acqCas" /\ sem'[t] = m
      /\ \A u \in Threads : u # t => lpc'[u] = lpc[u] /\ sem'[u] = sem[u]
      /\ UNCHANGED <<S, slots, in, out, i, value>>
  BY DEF Wait, At2, At, Pc, CallAcquire, RingInv, ShapeOK, IInv, TypeOK
<1>2. to \in Labels /\ m \in Sems
  BY ConstantFacts DEF Labels, EnqueueLabels, DequeueLabels
<1>3. /\ pc'[t] = to /\ pc' \in [Threads -> Labels]
      /\ \A u \in Threads : u # t => pc'[u] = pc[u]
  BY <1>1, <1>2
<1>4. IInv'
  BY <1>2, CallAcquireKeepsIInv DEF Wait, RingInv
<1>5. ShapeOK'
  BY <1>1, <1>3, ConstantFacts DEF RingInv, ShapeOK, EnqueueLabels, DequeueLabels
<1>6. CallInv'
  BY <1>1, <1>3 DEF RingInv, CallInv, AcqLabels
<1>7. RoundInv' /\ JoinInv'
  BY <1>1, <1>3, Roles DEF RingInv, RoundInv, JoinInv, EnqueueLabels, DequeueLabels
<1>8. Takers' = Takers /\ Posters' = Posters /\ Putters' = Putters
  BY <1>1, <1>3, Roles DEF Takers, Posters, Putters, Before
<1>9. MutexUsers' = MutexUsers
  BY <1>1, <1>3 DEF MutexUsers, Before
<1>10. Fetched' = Fetched /\ Freed' = Freed /\ Emptied' = Emptied
  BY <1>1, <1>3, Roles DEF Fetched, Freed, Emptied, Done, Before
<1>11. PermitInv'
  BY <1>1, <1>8, <1>9, <1>10, SamePermits
<1>12. IndexInv'
  <2>1. \A g \in Generators : pc'[g] = "advanceIn" => pc[g] = "advanceIn"
    BY <1>1, <1>3, Roles
  <2> QED
    BY <2>1, <1>1, <1>8, <1>10 DEF RingInv, IndexInv, Inserted, Putters
<1> QED
  BY <1>4, <1>5, <1>6, <1>7, <1>11, <1>12 DEF RingInv

LEMMA PostKeepsRingInv ==
    ASSUME RingInv, NEW t \in Threads, NEW from, NEW m, NEW to, Post(t, from, m, to),
           \/ from = "putUnlock" /\ m = "mutex" /\ to = "putPost"
           \/ from = "putPost" /\ m = "empty" /\ to = "account"
           \/ from = "getUnlock" /\ m = "mutex" /\ to = "getPost"
           \/ from = "getPost" /\ m = "sema" /\ to = "count"
    PROVE  RingInv'
<1>1. /\ pc[t] = from /\ lpc[t] = "out"
      /\ pc \in [Threads -> Labels] /\ pc' = [pc EXCEPT ![t] = to]
      /\ lpc'[t] = "relCas" /\ sem'[t] = m
      /\ \A u \in Threads : u # t => lpc'[u] = lpc[u] /\ sem'[u] = sem[u]
      /\ UNCHANGED <<S, slots, in, out, i, value>>
  BY DEF Post, At2, At, Pc, CallRelease, RingInv, ShapeOK, IInv, TypeOK
<1>2. to \in Labels /\ m \in Sems
  BY ConstantFacts DEF Labels, EnqueueLabels, DequeueLabels
<1>3. /\ pc'[t] = to /\ pc' \in [Threads -> Labels]
      /\ \A u \in Threads : u # t => pc'[u] = pc[u]
  BY <1>1, <1>2
<1>4. IInv'
  BY <1>2, CallReleaseKeepsIInv DEF Post, RingInv
<1>5. ShapeOK'
  BY <1>1, <1>3, ConstantFacts DEF RingInv, ShapeOK, EnqueueLabels, DequeueLabels
<1>6. CallInv'
  BY <1>1, <1>3 DEF RingInv, CallInv, RelLabels
<1>7. RoundInv' /\ JoinInv'
  BY <1>1, <1>3, Roles DEF RingInv, RoundInv, JoinInv, EnqueueLabels, DequeueLabels
<1>8. Takers' = Takers /\ Posters' = Posters /\ Putters' = Putters
  BY <1>1, <1>3, Roles DEF Takers, Posters, Putters, Before
<1>9. MutexUsers' = MutexUsers
  BY <1>1, <1>3 DEF MutexUsers, Before
<1>10. Fetched' = Fetched /\ Freed' = Freed /\ Emptied' = Emptied
  BY <1>1, <1>3, Roles DEF Fetched, Freed, Emptied, Done, Before
<1>11. PermitInv'
  BY <1>1, <1>8, <1>9, <1>10, SamePermits
<1>12. IndexInv'
  <2>1. \A g \in Generators : pc'[g] = "advanceIn" => pc[g] = "advanceIn"
    BY <1>1, <1>3, Roles
  <2> QED
    BY <2>1, <1>1, <1>8, <1>10 DEF RingInv, IndexInv, Inserted, Putters
<1> QED
  BY <1>4, <1>5, <1>6, <1>7, <1>11, <1>12 DEF RingInv

(* The steps outside of the library: what the four statements between the  *)
(* calls on the mutex do to the indices and the slots comes below.         *)
OwnStep(t, from, to) ==
    /\ lpc[t] = "out" /\ pc[t] = from /\ pc' = [pc EXCEPT ![t] = to]
    /\ UNCHANGED semVars

LEMMA OwnStepFacts ==
    ASSUME RingInv, NEW t \in Threads, NEW from, NEW to \in Labels, OwnStep(t, from, to)
    PROVE  /\ IInv' /\ S' = S /\ lpc' = lpc /\ sem' = sem
           /\ pc' \in [Threads -> Labels] /\ pc'[t] = to
           /\ \A u \in Threads : u # t => pc'[u] = pc[u]
           /\ CallInv'
<1>1. /\ pc' \in [Threads -> Labels] /\ pc'[t] = to
      /\ \A u \in Threads : u # t => pc'[u] = pc[u]
  BY DEF OwnStep, RingInv, ShapeOK
<1>2. IInv' /\ S' = S /\ lpc' = lpc /\ sem' = sem
  BY SemIdle DEF OwnStep, RingInv, semVars
<1>3. CallInv'
  BY <1>1, <1>2 DEF OwnStep, RingInv, CallInv
<1> QED
  BY <1>1, <1>2, <1>3

LEMMA StoreKeepsRingInv ==
    ASSUME RingInv, NEW g \in Threads, Store(g)
    PROVE  RingInv'
<1>1. /\ OwnStep(g, "store", "advanceIn") /\ "advanceIn" \in Labels /\ g \in Generators
      /\ slots' = [slots EXCEPT ![in] = value[g]]
      /\ UNCHANGED <<in, out, i, value>>
  BY Roles DEF Store, At2, At, Pc, OwnStep, Labels, EnqueueLabels
<1>2. /\ IInv' /\ S' = S /\ lpc' = lpc /\ pc' \in [Threads -> Labels]
      /\ pc[g] = "store" /\ lpc[g] = "out" /\ pc'[g] = "advanceIn" /\ CallInv'
      /\ \A u \in Threads : u # g => pc'[u] = pc[u]
  BY <1>1, OwnStepFacts DEF OwnStep
<1>3. slots' \in [0..N-1 -> Values \cup {NoValue}]
  BY <1>1 DEF RingInv, ShapeOK
<1>4. ShapeOK' /\ RoundInv' /\ JoinInv'
  BY <1>1, <1>2, <1>3, Roles
     DEF RingInv, ShapeOK, RoundInv, JoinInv, EnqueueLabels, DequeueLabels
<1>5. Takers' = Takers /\ Posters' = Posters /\ Putters' = Putters
  BY <1>1, <1>2, Roles DEF Takers, Posters, Putters
<1>6. MutexUsers' = MutexUsers
  BY <1>1, <1>2 DEF MutexUsers, Before
<1>7. Fetched' = Fetched /\ Freed' = Freed /\ Emptied' = Emptied
  BY <1>1, <1>2, Roles DEF Fetched, Freed, Emptied, Done
<1>8. PermitInv'
  BY <1>1, <1>2, <1>5, <1>6, <1>7, SamePermits
<1>9. \A h \in Generators : pc'[h] = "advanceIn" => slots'[in] = value[h]
  <2>1. in \in 0..N-1
    BY InsertedIsPutters, RequestsFinite, ConstantFacts, ModFacts DEF RingInv, IndexInv
  <2>2. slots'[in] = value[g]
    BY <1>1, <2>1 DEF RingInv, ShapeOK
  <2>3. ASSUME NEW h \in Generators, h # g, pc'[h] = "advanceIn"
        PROVE  FALSE
    <3>1. g \in Insiders /\ h \in Insiders
      BY <1>2, <2>3, Roles DEF RingInv, CallInv, Insiders
    <3> QED
      BY <3>1, <2>3, OneInsider
  <2> QED
    BY <2>2, <2>3
<1>10. IndexInv'
  BY <1>1, <1>5, <1>7, <1>9 DEF RingInv, IndexInv, Inserted, Putters
<1> QED
  BY <1>2, <1>4, <1>8, <1>10 DEF RingInv

LEMMA AdvanceInKeepsRingInv ==
    ASSUME RingInv, NEW g \in Threads, AdvanceIn(g)
    PROVE  RingInv' /\ Inserted' = Inserted + 1
<1>1. /\ OwnStep(g, "advanceIn", "putUnlock") /\ "putUnlock" \in Labels /\ g \in Generators
      /\ in' = (in + 1) % N
      /\ UNCHANGED <<slots, out, i, value>>
  BY Roles DEF AdvanceIn, At2, At, Pc, OwnStep, Labels, EnqueueLabels
<1>2. /\ IInv' /\ S' = S /\ lpc' = lpc /\ pc' \in [Threads -> Labels]
      /\ pc[g] = "advanceIn" /\ lpc[g] = "out" /\ pc'[g] = "putUnlock" /\ CallInv'
      /\ \A u \in Threads : u # g => pc'[u] = pc[u]
  BY <1>1, OwnStepFacts DEF OwnStep
<1>3. ShapeOK' /\ RoundInv' /\ JoinInv'
  BY <1>1, <1>2, Roles
     DEF RingInv, ShapeOK, RoundInv, JoinInv, EnqueueLabels, DequeueLabels
<1>4. /\ Takers' = Takers /\ Posters' = Posters
      /\ Putters' = Putters \cup {g} /\ g \notin Putters
  BY <1>1, <1>2, Roles DEF Takers, Posters, Putters
<1>5. MutexUsers' = MutexUsers
  BY <1>1, <1>2 DEF MutexUsers, Before
<1>6. Fetched' = Fetched /\ Freed' = Freed /\ Emptied' = Emptied
  BY <1>1, <1>2, Roles DEF Fetched, Freed, Emptied, Done
<1>7. PermitInv'
  BY <1>1, <1>2, <1>4, <1>5, <1>6, SamePermits
<1>8. Inserted' = Inserted + 1
  <2>1. i[g] \in Nat /\ i[g] < NrGenerate
    BY <1>1, <1>2, Roles DEF RingInv, ShapeOK, RoundInv, EnqueueLabels
  <2>2. Cardinality(Requests(i, Putters \cup {g})) = Cardinality(Requests(i, Putters)) + 1
    BY <1>1, <1>4, <2>1, RequestsAdd
  <2>3. Inserted' = Cardinality(Requests(i, Putters)')
    BY DEF Inserted, Putters
  <2> QED
    BY <1>1, <1>4, <2>2, <2>3, InsertedIsPutters
<1>9. in' = Inserted' % N
  <2>1. Inserted \in Nat /\ in = Inserted % N /\ N \in Nat \ {0}
    BY InsertedIsPutters, RequestsFinite, ConstantFacts DEF RingInv, IndexInv
  <2> QED
    BY <1>1, <1>8, <2>1, ModSuccessor
<1>10. \A h \in Generators : pc'[h] # "advanceIn"
  <2> SUFFICES ASSUME NEW h \in Generators, h # g, pc'[h] = "advanceIn"
               PROVE  FALSE
    BY <1>2
  <2>1. g \in Insiders /\ h \in Insiders
    BY <1>2, Roles DEF RingInv, CallInv, Insiders
  <2> QED
    BY <2>1, OneInsider
<1>11. IndexInv'
  BY <1>1, <1>6, <1>9, <1>10 DEF RingInv, IndexInv
<1> QED
  BY <1>2, <1>3, <1>7, <1>8, <1>11 DEF RingInv

LEMMA LoadKeepsRingInv ==
    ASSUME RingInv, NEW t \in Threads, Load(t)
    PROVE  RingInv'
<1>1. /\ OwnStep(t, "load", "advanceOut") /\ "advanceOut" \in Labels /\ t = Counter
      /\ value' = [value EXCEPT ![Counter] = slots[out]]
      /\ UNCHANGED <<slots, in, out, i>>
  BY Roles DEF Load, At2, At, Pc, OwnStep, Labels, DequeueLabels
<1>2. /\ IInv' /\ S' = S /\ lpc' = lpc /\ pc' \in [Threads -> Labels]
      /\ pc[t] = "load" /\ lpc[t] = "out" /\ pc'[t] = "advanceOut" /\ CallInv'
      /\ \A u \in Threads : u # t => pc'[u] = pc[u]
  BY <1>1, OwnStepFacts DEF OwnStep
<1>3. /\ value' \in [Threads -> Values \cup {NoValue}]
      /\ \A g \in Generators : value'[g] = value[g]
  <2>1. out \in 0..N-1
    BY CountTypes, ConstantFacts, ModFacts DEF RingInv, IndexInv
  <2>2. slots[out] \in Values \cup {NoValue}
    BY <2>1 DEF RingInv, ShapeOK
  <2> QED
    BY <1>1, <2>2, Roles DEF RingInv, ShapeOK
<1>4. ShapeOK' /\ RoundInv' /\ JoinInv'
  BY <1>1, <1>2, <1>3, Roles
     DEF RingInv, ShapeOK, RoundInv, JoinInv, EnqueueLabels, DequeueLabels
<1>5. Takers' = Takers /\ Posters' = Posters /\ Putters' = Putters
  BY <1>1, <1>2, Roles DEF Takers, Posters, Putters
<1>6. MutexUsers' = MutexUsers
  BY <1>1, <1>2 DEF MutexUsers, Before
<1>7. Fetched' = Fetched /\ Freed' = Freed /\ Emptied' = Emptied
  BY <1>1, <1>2, Roles DEF Fetched, Freed, Emptied, Done
<1>8. PermitInv'
  BY <1>1, <1>2, <1>5, <1>6, <1>7, SamePermits
<1>9. IndexInv'
  BY <1>1, <1>2, <1>3, <1>5, <1>7, Roles DEF RingInv, IndexInv, Inserted, Putters
<1> QED
  BY <1>2, <1>4, <1>8, <1>9 DEF RingInv

LEMMA AdvanceOutKeepsRingInv ==
    ASSUME RingInv, NEW t \in Threads, AdvanceOut(t)
    PROVE  RingInv'
<1>1. /\ OwnStep(t, "advanceOut", "getUnlock") /\ "getUnlock" \in Labels /\ t = Counter
      /\ out' = (out + 1) % N
      /\ UNCHANGED <<slots, in, i, value>>
  BY Roles DEF AdvanceOut, At2, At, Pc, OwnStep, Labels, DequeueLabels
<1>2. /\ IInv' /\ S' = S /\ lpc' = lpc /\ pc' \in [Threads -> Labels]
      /\ pc[t] = "advanceOut" /\ lpc[t] = "out" /\ pc'[t] = "getUnlock" /\ CallInv'
      /\ \A u \in Threads : u # t => pc'[u] = pc[u]
  BY <1>1, OwnStepFacts DEF OwnStep
<1>3. ShapeOK' /\ RoundInv' /\ JoinInv'
  BY <1>1, <1>2, Roles
     DEF RingInv, ShapeOK, RoundInv, JoinInv, EnqueueLabels, DequeueLabels
<1>4. Takers' = Takers /\ Posters' = Posters /\ Putters' = Putters
  BY <1>1, <1>2, Roles DEF Takers, Posters, Putters
<1>5. MutexUsers' = MutexUsers
  BY <1>1, <1>2 DEF MutexUsers, Before
<1>6. Fetched' = Fetched /\ Freed' = Freed /\ Emptied' = Emptied + 1
  BY <1>1, <1>2, Roles, CountTypes DEF Fetched, Freed, Emptied, Done
<1>7. PermitInv'
  BY <1>1, <1>2, <1>4, <1>5, <1>6, SamePermits
<1>8. out' = Emptied' % N
  <2>1. Emptied \in Nat /\ out = Emptied % N /\ N \in Nat \ {0}
    BY CountTypes, ConstantFacts DEF RingInv, IndexInv
  <2> QED
    BY <1>1, <1>6, <2>1, ModSuccessor
<1>9. IndexInv'
  BY <1>1, <1>2, <1>4, <1>8, Roles DEF RingInv, IndexInv, Inserted, Putters
<1> QED
  BY <1>2, <1>3, <1>7, <1>9 DEF RingInv

-----------------------------------------------------------------------------
(* The steps outside of the two functions of the ring buffer.              *)

OutsideLabels ==
    {"unborn", "spawn", "barrier1", "barrier2", "barrier3", "loop", "exited", "putWait",
     "getWait", "collect", "joinGenerators", "joinCounter", "compare"}

(* A step of control alone counts for nothing.                             *)
LEMMA OutsideStep ==
    ASSUME RingInv, NEW t \in Threads, NEW from \in OutsideLabels, NEW to \in OutsideLabels,
           OwnStep(t, from, to), UNCHANGED <<slots, in, out, i>>,
           \A u \in Threads : u # t => value'[u] = value[u]
    PROVE  /\ IInv' /\ CallInv' /\ PermitInv' /\ IndexInv'
           /\ pc' \in [Threads -> Labels] /\ pc[t] = from /\ pc'[t] = to
           /\ \A u \in Threads : u # t => pc'[u] = pc[u]
<1>1. to \in Labels /\ from \in Labels
  BY DEF Labels, OutsideLabels, EnqueueLabels, DequeueLabels
<1>2. /\ IInv' /\ S' = S /\ lpc' = lpc /\ pc' \in [Threads -> Labels]
      /\ pc[t] = from /\ lpc[t] = "out" /\ pc'[t] = to /\ CallInv'
      /\ \A u \in Threads : u # t => pc'[u] = pc[u]
  BY <1>1, OwnStepFacts DEF OwnStep
<1>3. Takers' = Takers /\ Posters' = Posters /\ Putters' = Putters
  BY <1>2, Roles DEF Takers, Posters, Putters, OutsideLabels
<1>4. MutexUsers' = MutexUsers
  BY <1>2 DEF MutexUsers, OutsideLabels
<1>5. Fetched' = Fetched /\ Freed' = Freed /\ Emptied' = Emptied
  BY <1>2, Roles DEF Fetched, Freed, Emptied, Done, OutsideLabels
<1>6. PermitInv'
  BY <1>2, <1>3, <1>4, <1>5, SamePermits
<1>7. IndexInv'
  BY <1>2, <1>3, <1>5, Roles DEF RingInv, IndexInv, Inserted, Putters, OutsideLabels
<1> QED
  BY <1>2, <1>6, <1>7

LEMMA DrawKeepsRingInv ==
    ASSUME RingInv, NEW g \in Generators, NEW v \in Values, Draw(g, v)
    PROVE  RingInv'
<1>1. /\ OwnStep(g, "loop", "putWait") /\ i[g] < NrGenerate
      /\ value' = [value EXCEPT ![g] = v] /\ g \in Threads
      /\ UNCHANGED <<slots, in, out, i>>
  BY ConstantFacts DEF Draw, At2, At, Pc, OwnStep
<1>2. /\ value' \in [Threads -> Values \cup {NoValue}] /\ value'[g] = v
      /\ \A u \in Threads : u # g => value'[u] = value[u]
  BY <1>1 DEF RingInv, ShapeOK
<1>3. /\ IInv' /\ CallInv' /\ PermitInv' /\ IndexInv'
      /\ pc' \in [Threads -> Labels] /\ pc[g] = "loop" /\ pc'[g] = "putWait"
      /\ \A u \in Threads : u # g => pc'[u] = pc[u]
  BY <1>1, <1>2, OutsideStep DEF OutsideLabels
<1>4. ShapeOK' /\ RoundInv' /\ JoinInv'
  BY <1>1, <1>2, <1>3, Roles
     DEF RingInv, ShapeOK, RoundInv, JoinInv, EnqueueLabels, DequeueLabels
<1> QED
  BY <1>3, <1>4 DEF RingInv

LEMMA EndLoopKeepsRingInv ==
    ASSUME RingInv, NEW g \in Generators, EndLoop(g)
    PROVE  RingInv'
<1>1. /\ OwnStep(g, "loop", "barrier2") /\ i[g] = NrGenerate /\ g \in Threads
      /\ UNCHANGED <<slots, in, out, i, value>>
  BY ConstantFacts DEF EndLoop, At2, At, Pc, OwnStep
<1>2. /\ IInv' /\ CallInv' /\ PermitInv' /\ IndexInv'
      /\ pc' \in [Threads -> Labels] /\ pc[g] = "loop" /\ pc'[g] = "barrier2"
      /\ \A u \in Threads : u # g => pc'[u] = pc[u]
  BY <1>1, OutsideStep DEF OutsideLabels
<1>3. ShapeOK' /\ RoundInv' /\ JoinInv'
  BY <1>1, <1>2, Roles
     DEF RingInv, ShapeOK, RoundInv, JoinInv, EnqueueLabels, DequeueLabels
<1> QED
  BY <1>2, <1>3 DEF RingInv

LEMMA ExpectKeepsRingInv ==
    ASSUME RingInv, Expect
    PROVE  RingInv'
<1> DEFINE to == IF i[Counter] < NrRequests THEN "getWait" ELSE "exited"
<1>0. Counter \in Threads /\ i[Counter] \in Nat /\ NrRequests \in Nat
  <2>1. Cardinality(Generators) \in Nat /\ NrGenerate \in Nat
    BY ConstantFacts, FS_CardinalityType
  <2> QED
    BY <2>1, ConstantFacts, CountTypes DEF NrRequests
<1>1. /\ OwnStep(Counter, "loop", to) /\ to \in OutsideLabels
      /\ UNCHANGED <<slots, in, out, i, value>>
  BY DEF Expect, At2, At, Pc, OwnStep, OutsideLabels
<1>2. /\ to \in {"getWait", "exited"} /\ (to = "getWait" => i[Counter] < NrRequests)
      /\ (to = "exited" => i[Counter] >= NrRequests)
  BY <1>0
<1> HIDE DEF to
<1>3. /\ IInv' /\ CallInv' /\ PermitInv' /\ IndexInv'
      /\ pc' \in [Threads -> Labels] /\ pc[Counter] = "loop" /\ pc'[Counter] = to
      /\ \A u \in Threads : u # Counter => pc'[u] = pc[u]
  BY <1>0, <1>1, OutsideStep DEF OutsideLabels
<1>4. ShapeOK' /\ RoundInv' /\ JoinInv'
  BY <1>0, <1>1, <1>2, <1>3, Roles
     DEF RingInv, ShapeOK, RoundInv, JoinInv, EnqueueLabels, DequeueLabels
<1> QED
  BY <1>3, <1>4 DEF RingInv

(* A round ends: the request is counted by i from here on.                 *)
LEMMA AccountKeepsRingInv ==
    ASSUME RingInv, NEW g \in Generators, Account(g)
    PROVE  RingInv' /\ Inserted' = Inserted
<1>1. /\ OwnStep(g, "account", "loop") /\ "loop" \in Labels /\ g \in Threads
      /\ i' = [i EXCEPT ![g] = @ + 1]
      /\ UNCHANGED <<slots, in, out, value>>
  BY ConstantFacts DEF Account, At2, At, Pc, OwnStep, Labels
<1>2. /\ IInv' /\ S' = S /\ lpc' = lpc /\ pc' \in [Threads -> Labels]
      /\ pc[g] = "account" /\ lpc[g] = "out" /\ pc'[g] = "loop" /\ CallInv'
      /\ \A u \in Threads : u # g => pc'[u] = pc[u]
  BY <1>1, OwnStepFacts DEF OwnStep
<1>3. /\ i' \in [Threads -> Nat] /\ i'[g] = i[g] + 1 /\ i[g] \in Nat
      /\ \A u \in Threads : u # g => i'[u] = i[u]
  BY <1>1 DEF RingInv, ShapeOK
<1>4. i[g] < NrGenerate
  BY <1>2 DEF RingInv, RoundInv, EnqueueLabels
<1>5. ShapeOK'
  BY <1>1, <1>2, <1>3, Roles DEF RingInv, ShapeOK, EnqueueLabels, DequeueLabels
<1>6. RoundInv'
  BY <1>1, <1>2, <1>3, <1>4, Roles, ConstantFacts
     DEF RingInv, RoundInv, EnqueueLabels, DequeueLabels
<1>7. JoinInv'
  BY <1>1, <1>2, Roles DEF RingInv, JoinInv
<1>8. /\ Takers' = Takers \ {g} /\ Posters' = Posters \ {g} /\ Putters' = Putters \ {g}
      /\ g \in Takers /\ g \in Posters /\ g \in Putters
  BY <1>1, <1>2, Roles DEF Takers, Posters, Putters, Before
<1>9. /\ Requests(i, Takers)' = Requests(i, Takers)
      /\ Requests(i, Posters)' = Requests(i, Posters)
      /\ Requests(i, Putters)' = Requests(i, Putters)
  <2>1. \A h \in Generators : h # g => i'[h] = i[h]
    BY <1>3, ConstantFacts
  <2>2. \A T : g \in T => Requests(i', T \ {g}) = Requests(i, T)
    BY <1>3, <2>1, RequestsNextRound
  <2>3. /\ Requests(i', Takers \ {g}) = Requests(i, Takers)
        /\ Requests(i', Posters \ {g}) = Requests(i, Posters)
        /\ Requests(i', Putters \ {g}) = Requests(i, Putters)
    BY <1>8, <2>2
  <2> QED
    BY <1>8, <2>3
<1>10. MutexUsers' = MutexUsers
  BY <1>1, <1>2 DEF MutexUsers, Before
<1>11. Fetched' = Fetched /\ Freed' = Freed /\ Emptied' = Emptied
  BY <1>1, <1>2, <1>3, Roles DEF Fetched, Freed, Emptied, Done
<1>12. PermitInv'
  BY <1>2, <1>9, <1>10, <1>11, SamePermits
<1>13. Inserted' = Inserted
  BY <1>9 DEF Inserted, Putters
<1>14. IndexInv'
  BY <1>1, <1>2, <1>11, <1>13, Roles DEF RingInv, IndexInv
<1> QED
  BY <1>2, <1>5, <1>6, <1>7, <1>12, <1>13, <1>14 DEF RingInv

LEMMA CountItKeepsRingInv ==
    ASSUME RingInv, CountIt
    PROVE  RingInv' /\ Inserted' = Inserted
<1>1. /\ OwnStep(Counter, "count", "loop") /\ "loop" \in Labels /\ Counter \in Threads
      /\ i' = [i EXCEPT ![Counter] = @ + 1]
      /\ UNCHANGED <<slots, in, out, value>>
  BY ConstantFacts DEF CountIt, At2, At, Pc, OwnStep, Labels
<1>2. /\ IInv' /\ S' = S /\ lpc' = lpc /\ pc' \in [Threads -> Labels]
      /\ pc[Counter] = "count" /\ lpc[Counter] = "out" /\ pc'[Counter] = "loop" /\ CallInv'
      /\ \A u \in Threads : u # Counter => pc'[u] = pc[u]
  BY <1>1, OwnStepFacts DEF OwnStep
<1>3. /\ i' \in [Threads -> Nat] /\ i'[Counter] = i[Counter] + 1 /\ i[Counter] \in Nat
      /\ \A u \in Threads : u # Counter => i'[u] = i[u]
  BY <1>1 DEF RingInv, ShapeOK
<1>4. ShapeOK' /\ RoundInv' /\ JoinInv'
  BY <1>1, <1>2, <1>3, Roles
     DEF RingInv, ShapeOK, RoundInv, JoinInv, EnqueueLabels, DequeueLabels
<1>5. Takers' = Takers /\ Posters' = Posters /\ Putters' = Putters
  BY <1>1, <1>2, Roles DEF Takers, Posters, Putters
<1>6. /\ Requests(i, Takers)' = Requests(i, Takers)
      /\ Requests(i, Posters)' = Requests(i, Posters)
      /\ Requests(i, Putters)' = Requests(i, Putters)
  <2>1. \A h \in Generators : i[h] = i'[h]
    BY <1>3, ConstantFacts
  <2>2. \A T : Requests(i, T) = Requests(i', T)
    BY <2>1, RequestsSame
  <2> QED
    BY <1>5, <2>2
<1>7. MutexUsers' = MutexUsers
  BY <1>1, <1>2 DEF MutexUsers, Before
<1>8. Fetched' = Fetched /\ Freed' = Freed /\ Emptied' = Emptied
  BY <1>1, <1>2, <1>3, Roles DEF Fetched, Freed, Emptied, Done, Before
<1>9. PermitInv'
  BY <1>2, <1>6, <1>7, <1>8, SamePermits
<1>10. Inserted' = Inserted
  BY <1>6 DEF Inserted, Putters
<1>11. IndexInv'
  BY <1>1, <1>2, <1>8, <1>10, Roles DEF RingInv, IndexInv
<1> QED
  BY <1>2, <1>4, <1>9, <1>10, <1>11 DEF RingInv

-----------------------------------------------------------------------------
(* main, and the barrier.                                                  *)

LEMMA SpawnKeepsRingInv ==
    ASSUME RingInv, NEW g \in Generators, Spawn(g)
    PROVE  RingInv'
<1>1. /\ pc[g] = "unborn" /\ pc' = [pc EXCEPT ![g] = "barrier1"] /\ g \in Threads
      /\ UNCHANGED <<slots, in, out, i, value>> /\ UNCHANGED semVars
  BY ConstantFacts DEF Spawn, At2, At, Pc
<1>2. OwnStep(g, "unborn", "barrier1")
  BY <1>1 DEF RingInv, CallInv, OwnStep
<1>3. /\ IInv' /\ CallInv' /\ PermitInv' /\ IndexInv'
      /\ pc' \in [Threads -> Labels] /\ pc'[g] = "barrier1"
      /\ \A u \in Threads : u # g => pc'[u] = pc[u]
  BY <1>1, <1>2, OutsideStep DEF OutsideLabels
<1>4. ShapeOK' /\ RoundInv' /\ JoinInv'
  BY <1>1, <1>3, Roles
     DEF RingInv, ShapeOK, RoundInv, JoinInv, EnqueueLabels, DequeueLabels
<1> QED
  BY <1>3, <1>4 DEF RingInv

(* main alone moves, and knows what it has waited for.                     *)
LEMMA MainMoves ==
    ASSUME RingInv, NEW from, NEW to, OwnStep(Main, from, to),
           UNCHANGED <<slots, in, out, i, value>>,
           \/ from = "spawn" /\ to = "barrier1"
           \/ from = "collect" /\ to = "barrier3"
           \/ /\ from = "joinGenerators" /\ to = "joinCounter"
              /\ \A g \in Generators : pc[g] = "exited"
           \/ from = "joinCounter" /\ to = "compare" /\ pc[Counter] = "exited"
           \/ from = "compare" /\ to = "exited"
    PROVE  RingInv'
<1>1. from \in OutsideLabels /\ to \in OutsideLabels /\ Main \in Threads
  BY ConstantFacts DEF OutsideLabels
<1>2. /\ IInv' /\ CallInv' /\ PermitInv' /\ IndexInv'
      /\ pc' \in [Threads -> Labels] /\ pc[Main] = from /\ pc'[Main] = to
      /\ \A u \in Threads : u # Main => pc'[u] = pc[u]
  BY <1>1, OutsideStep
<1>3. ShapeOK' /\ RoundInv' /\ JoinInv'
  BY <1>1, <1>2, Roles
     DEF RingInv, ShapeOK, RoundInv, JoinInv, EnqueueLabels, DequeueLabels
<1> QED
  BY <1>2, <1>3 DEF RingInv

LEMMA MainStepKeepsRingInv ==
    ASSUME RingInv, MainStep
    PROVE  RingInv'
<1>1. ASSUME NEW g \in Generators, Spawn(g)
      PROVE  RingInv'
  BY <1>1, SpawnKeepsRingInv
<1>2. CASE Spawned
  BY <1>2, MainMoves DEF Spawned, At2, At, Pc, OwnStep
<1>3. CASE Collect
  BY <1>3, MainMoves DEF Collect, At2, At, Pc, OwnStep
<1>4. CASE Join("joinGenerators", Generators, "joinCounter")
  BY <1>4, MainMoves DEF Join, At2, At, Pc, OwnStep
<1>5. CASE Join("joinCounter", {Counter}, "compare")
  BY <1>5, MainMoves DEF Join, At2, At, Pc, OwnStep
<1>6. CASE Join("compare", {}, "exited")
  BY <1>6, MainMoves DEF Join, At2, At, Pc, OwnStep
<1> QED
  BY <1>1, <1>2, <1>3, <1>4, <1>5, <1>6 DEF MainStep

LEMMA AfterBarrierFacts ==
    ASSUME NEW t
    PROVE  /\ pc[t] = "barrier1" => AfterBarrier(t) = IF t = Main THEN "barrier2" ELSE "loop"
           /\ pc[t] = "barrier2" => AfterBarrier(t) = IF t = Main THEN "collect" ELSE "barrier3"
           /\ pc[t] = "barrier3" =>
                 AfterBarrier(t) = IF t = Main THEN "joinGenerators" ELSE "exited"
<1>1. "barrier1" # "barrier2" /\ "barrier1" # "barrier3" /\ "barrier2" # "barrier3"
  OBVIOUS
<1> QED
  BY <1>1, Zenon DEF AfterBarrier

(* The barrier moves the threads that wait on it, from their own code to   *)
(* their own code.                                                         *)
LEMMA BarrierKeepsRingInv ==
    ASSUME RingInv, Barrier
    PROVE  RingInv' /\ Inserted' = Inserted
<1> DEFINE waiting == {t \in Threads : pc[t] \in {"barrier1", "barrier2", "barrier3"}}
<1>1. /\ pc' = [t \in Threads |-> IF t \in waiting THEN AfterBarrier(t) ELSE pc[t]]
      /\ UNCHANGED semVars /\ UNCHANGED <<slots, in, out, i, value>>
  BY DEF Barrier
<1>2. IInv' /\ S' = S /\ lpc' = lpc /\ sem' = sem
  BY <1>1, SemIdle DEF RingInv, semVars
<1>3. /\ \A t \in Threads : t \notin waiting => pc'[t] = pc[t]
      /\ \A t \in waiting :
            /\ t \in Generators \/ t = Main
            /\ t \in Generators =>
                  \/ pc[t] = "barrier1" /\ pc'[t] = "loop"
                  \/ pc[t] = "barrier2" /\ pc'[t] = "barrier3"
                  \/ pc[t] = "barrier3" /\ pc'[t] = "exited"
            /\ t = Main => pc'[t] \in {"barrier2", "collect", "joinGenerators"}
  <2>1. \A t \in waiting : pc'[t] = AfterBarrier(t)
    BY <1>1
  <2>2. \A t \in waiting : t \in Generators \/ t = Main
    BY ConstantFacts DEF RingInv, ShapeOK, DequeueLabels
  <2>3. \A t \in Threads : t \notin waiting => pc'[t] = pc[t]
    BY <1>1
  <2>4. ASSUME NEW t \in waiting
        PROVE  /\ t \in Generators =>
                     \/ pc[t] = "barrier1" /\ pc'[t] = "loop"
                     \/ pc[t] = "barrier2" /\ pc'[t] = "barrier3"
                     \/ pc[t] = "barrier3" /\ pc'[t] = "exited"
               /\ t = Main => pc'[t] \in {"barrier2", "collect", "joinGenerators"}
    <3>1. t \in Generators => t # Main
      BY ConstantFacts
    <3> QED
      BY <2>1, <3>1, AfterBarrierFacts
  <2> QED
    BY <2>2, <2>3, <2>4
<1>4. \A t \in waiting : pc[t] \in {"barrier1", "barrier2", "barrier3"} /\ t \in Threads
  OBVIOUS
<1>5. \A t \in Threads : pc[t] \in {"barrier1", "barrier2", "barrier3"} => t \in waiting
  OBVIOUS
<1>6. DOMAIN pc' = Threads /\ pc' = [t \in Threads |-> pc'[t]]
  BY <1>1
<1> HIDE DEF waiting
<1>7. Counter \notin waiting /\ pc'[Counter] = pc[Counter]
  BY <1>3, ConstantFacts
<1>8. ShapeOK'
  <2>1. \A t \in Threads : pc'[t] \in Labels
    BY <1>3 DEF RingInv, ShapeOK, Labels
  <2>2. pc' \in [Threads -> Labels]
    BY <1>6, <2>1
  <2>3. \A g \in Generators : pc'[g] \in EnqueueLabels \cup
            {"unborn", "loop", "exited", "barrier1", "barrier2", "barrier3"}
    BY <1>3, <1>5, ConstantFacts DEF RingInv, ShapeOK
  <2>4. pc'[Main] \in {"spawn", "barrier1", "barrier2", "barrier3", "collect",
                       "joinGenerators", "joinCounter", "compare", "exited"}
    BY <1>3, ConstantFacts DEF RingInv, ShapeOK
  <2> QED
    BY <1>1, <1>7, <2>2, <2>3, <2>4 DEF RingInv, ShapeOK
<1>9. CallInv'
  BY <1>2, <1>3, <1>4 DEF RingInv, CallInv
<1>10. RoundInv'
  BY <1>1, <1>3, <1>4, <1>7, ConstantFacts DEF RingInv, RoundInv, EnqueueLabels
<1>11. JoinInv'
  BY <1>3, <1>4, <1>7, ConstantFacts DEF RingInv, JoinInv
<1>12. Takers' = Takers /\ Posters' = Posters /\ Putters' = Putters
  BY <1>2, <1>3, <1>4, ConstantFacts DEF Takers, Posters, Putters
<1>13. MutexUsers' = MutexUsers
  BY <1>2, <1>3, <1>4 DEF MutexUsers
<1>14. Fetched' = Fetched /\ Freed' = Freed /\ Emptied' = Emptied
  BY <1>1, <1>2, <1>7 DEF Fetched, Freed, Emptied, Done
<1>15. PermitInv'
  BY <1>1, <1>2, <1>12, <1>13, <1>14, SamePermits
<1>16. Inserted' = Inserted
  BY <1>1, <1>12 DEF Inserted, Putters
<1>17. IndexInv'
  BY <1>1, <1>3, <1>4, <1>14, <1>16, ConstantFacts DEF RingInv, IndexInv
<1> QED
  BY <1>2, <1>8, <1>9, <1>10, <1>11, <1>15, <1>16, <1>17 DEF RingInv

-----------------------------------------------------------------------------
(* The theorems.                                                           *)

LEMMA EnqueueKeepsRingInv ==
    ASSUME RingInv, NEW g \in Generators, Enqueue(g)
    PROVE  RingInv'
<1>1. g \in Threads
  BY ConstantFacts
<1> QED
  BY <1>1, WaitKeepsRingInv, PostKeepsRingInv, StoreKeepsRingInv, AdvanceInKeepsRingInv
     DEF Enqueue

LEMMA DequeueKeepsRingInv ==
    ASSUME RingInv, Dequeue(Counter)
    PROVE  RingInv'
<1>1. Counter \in Threads
  BY ConstantFacts
<1> QED
  BY <1>1, WaitKeepsRingInv, PostKeepsRingInv, LoadKeepsRingInv, AdvanceOutKeepsRingInv
     DEF Dequeue

LEMMA NextKeepsRingInv == RingInv /\ [RBNext]_vars => RingInv'
<1> SUFFICES ASSUME RingInv, [RBNext]_vars PROVE RingInv'
  OBVIOUS
<1>1. ASSUME NEW g \in Generators, Generate(g)
      PROVE  RingInv'
  BY <1>1, DrawKeepsRingInv, EnqueueKeepsRingInv, AccountKeepsRingInv, EndLoopKeepsRingInv
     DEF Generate
<1>2. CASE Count
  BY <1>2, ExpectKeepsRingInv, DequeueKeepsRingInv, CountItKeepsRingInv DEF Count
<1>3. CASE Barrier
  BY <1>3, BarrierKeepsRingInv
<1>4. CASE MainStep
  BY <1>4, MainStepKeepsRingInv
<1>5. ASSUME NEW t \in Threads, Library(t)
      PROVE  RingInv'
  BY <1>5, LibraryKeepsRingInv
<1>6. CASE UNCHANGED vars
  <2>1. IInv'
    BY <1>6, SemIdle DEF RingInv, vars
  <2> QED
    BY <2>1, <1>6 DEF RingInv, vars, rbVars, semVars, ShapeOK, CallInv, RoundInv, JoinInv,
       PermitInv, IndexInv, Takers, Posters, MutexUsers, Fetched, Freed, Emptied, Done, Inserted
<1> QED
  BY <1>1, <1>2, <1>3, <1>4, <1>5, <1>6 DEF RBNext, Finished

THEOREM RingInvAlways == RBSpec => []RingInv
<1>1. RBInit => RingInv
  BY InitRingInv
<1>2. RingInv /\ [RBNext]_vars => RingInv'
  BY NextKeepsRingInv
<1> QED
  BY <1>1, <1>2, PTL DEF RBSpec

(* The slots and the indices are used by one thread at a time: at most one *)
(* is between the two calls on ringbuffer.mutex (pa3.c:215-219, 231-235).  *)
THEOREM IndicesAreLockedAlways == RBSpec => []IndicesAreLocked
<1>1. RingInv => IndicesAreLocked
  BY OneInsider DEF Insiders, IndicesAreLocked
<1> QED
  BY <1>1, RingInvAlways, PTL

-----------------------------------------------------------------------------
(* The slots.                                                              *)

(* Each stage of a request has the earlier ones behind it.                 *)
LEMMA StagesAreNested ==
    ASSUME RingInv
    PROVE  /\ Cardinality(Requests(i, Posters)) <= Inserted
           /\ Inserted <= Cardinality(Requests(i, Owners))
           /\ Cardinality(Requests(i, Owners)) <= Cardinality(Requests(i, Takers))
           /\ Inserted \in Nat
           /\ \A T : Cardinality(Requests(i, T)) \in Nat
<1>1. Posters \subseteq Putters /\ Putters \subseteq Owners /\ Owners \subseteq Takers
  BY DEF Posters, Putters, Owners, Takers, Before
<1>2. \A T : Cardinality(Requests(i, T)) \in Nat
  BY RequestsFinite
<1> QED
  BY <1>1, <1>2, RequestsMonotone, InsertedIsPutters

LEMMA FreeAndFilledSlots ==
    ASSUME RingInv
    PROVE  /\ S["sema"] \in Int /\ S["empty"] \in Int
           /\ S["sema"] <= N /\ S["empty"] <= N /\ S["sema"] + S["empty"] <= N
<1>1. /\ S["sema"] = N - Cardinality(Requests(i, Takers)) + Freed
      /\ S["empty"] = Cardinality(Requests(i, Posters)) - Fetched
  BY DEF RingInv, PermitInv
<1> QED
  BY <1>1, StagesAreNested, OwnedSlotsAreFree, OwnedSlotsAreFilled, CountTypes, ConstantFacts

(* When main has exited, every request has been through all its stages.    *)
LEMMA EndOfTheRun ==
    ASSUME RingInv, pc[Main] = "exited"
    PROVE  /\ \A t \in Threads : lpc[t] = "out" /\ pc[t] = "exited"
           /\ \A T : Cardinality(Requests(i, T)) = NrRequests
           /\ Inserted = NrRequests /\ Emptied = NrRequests
           /\ Fetched = NrRequests /\ Freed = NrRequests
           /\ Takers = {} /\ Posters = {} /\ MutexUsers = {}
           /\ NrRequests \in Nat
<1>1. \A t \in Threads : pc[t] = "exited"
  BY ConstantFacts DEF RingInv, JoinInv
<1>2. \A t \in Threads : lpc[t] = "out"
  BY <1>1 DEF RingInv, CallInv
<1>3. \A T : Cardinality(Requests(i, T)) = NrRequests
  <2>1. \A g \in Generators : i[g] = NrGenerate
    BY <1>1, ConstantFacts DEF RingInv, RoundInv
  <2> QED
    BY <2>1, RequestsAll
<1>4. Inserted = NrRequests /\ NrRequests \in Nat
  BY <1>3, InsertedIsPutters, RequestsFinite
<1>5. /\ Fetched = i[Counter] /\ Freed = i[Counter]
      /\ Emptied = i[Counter] /\ Owned = i[Counter]
  BY <1>1, ConstantFacts, CountTypes DEF Fetched, Freed, Emptied, Owned, Done
<1>6. i[Counter] = NrRequests
  <2>1. i[Counter] >= NrRequests /\ i[Counter] \in Nat
    BY <1>1, ConstantFacts, CountTypes DEF RingInv, RoundInv
  <2>2. i[Counter] <= NrRequests
    BY <1>3, <1>5, OwnedSlotsAreFilled
  <2> QED
    BY <1>4, <2>1, <2>2
<1>7. Takers = {} /\ Posters = {} /\ MutexUsers = {}
  BY <1>1, ConstantFacts DEF Takers, Posters, MutexUsers
<1> QED
  BY <1>1, <1>2, <1>3, <1>4, <1>5, <1>6, <1>7

(* Free and filled slots never add up to more than there are; when the     *)
(* program ends all slots are free again, nobody is queued or holds a      *)
(* word, and both indices are at the same slot (pa3.c:212-239).            *)
THEOREM SlotsAreConservedAlways == RBSpec => []SlotsAreConserved
<1>1. RingInv => SlotsAreConserved
  <2> SUFFICES ASSUME RingInv
               PROVE  SlotsAreConserved
    OBVIOUS
  <2>1. (IF S["sema"] > 0 THEN S["sema"] ELSE 0)
           + (IF S["empty"] > 0 THEN S["empty"] ELSE 0) <= N
    BY FreeAndFilledSlots, ConstantFacts
  <2>2. ASSUME pc[Main] = "exited"
        PROVE  /\ S = Permits /\ in = out /\ in = NrRequests % N
               /\ \A m \in Sems : queue[m] = <<>> /\ hold[m] = 0
    <3>1. S["sema"] = N /\ S["empty"] = 0 /\ S["mutex"] = 1
      <4>1. /\ Cardinality(Requests(i, Takers)) = NrRequests /\ Freed = NrRequests
            /\ Cardinality(Requests(i, Posters)) = NrRequests /\ Fetched = NrRequests
            /\ MutexUsers = {} /\ NrRequests \in Nat
        BY <2>2, EndOfTheRun
      <4>2. Cardinality(MutexUsers) = 0
        BY <4>1, FS_EmptySet
      <4> QED
        BY <4>1, <4>2, ConstantFacts DEF RingInv, PermitInv
    <3>2. S = Permits
      <4>1. /\ S = [m \in Sems |-> S[m]] /\ Permits = [m \in Sems |-> Permits[m]]
        BY SemaphoreAssumption DEF RingInv, IInv, TypeOK
      <4>2. \A m \in Sems : S[m] = Permits[m]
        BY <3>1, ConstantFacts
      <4> QED
        BY <4>1, <4>2
    <3>3. in = NrRequests % N /\ out = NrRequests % N
      BY <2>2, EndOfTheRun DEF RingInv, IndexInv
    <3>4. \A m \in Sems : queue[m] = <<>>
      <4> SUFFICES ASSUME NEW m \in Sems, queue[m] # <<>>
                   PROVE  FALSE
        OBVIOUS
      <4>1. queue[m] \in Seq(Threads) /\ Len(queue[m]) >= 1
        BY EmptySeq DEF RingInv, IInv, TypeOK
      <4>2. queue[m][1] \in Threads /\ lpc[queue[m][1]] # "out"
        BY <4>1 DEF RingInv, IInv, QueueInv
      <4> QED
        BY <2>2, <4>2, EndOfTheRun
    <3>5. \A m \in Sems : hold[m] = 0
      <4>1. \A m \in Sems : Locked(m) = {}
        BY <2>2, EndOfTheRun DEF Locked, LockedLabels
      <4> QED
        BY <4>1 DEF RingInv, IInv, TypeOK, LockInv
    <3> QED
      BY <3>2, <3>3, <3>4, <3>5
  <2> QED
    BY <2>1, <2>2 DEF SlotsAreConserved
<1> QED
  BY <1>1, RingInvAlways, PTL

-----------------------------------------------------------------------------
(* The bounded queue.  An enqueue takes effect when in is advanced, a      *)
(* dequeue when the slot is read.                                          *)

Items == Values \cup {NoValue}
Buf == [k \in 1..(Inserted - Taken) |-> slots[(Taken + k - 1) % N]]

PutStage == {"putUnlock", "putPost", "account"}
GetStage == {"advanceOut", "getUnlock", "getPost", "count"}

LEMMA QueueBounds ==
    ASSUME RingInv
    PROVE  /\ Inserted \in Nat /\ Taken \in Nat /\ N \in Nat \ {0}
           /\ Taken <= Inserted /\ Inserted - Taken <= N
BY StagesAreNested, OwnedSlotsAreFree, OwnedSlotsAreFilled, CountTypes, ConstantFacts

(* A generator that owns a free slot has room for its value.               *)
LEMMA RoomForOne ==
    ASSUME RingInv, NEW g \in Owners, g \notin Putters
    PROVE  Inserted - Taken < N
<1>1. g \in Generators /\ i[g] \in Nat /\ i[g] < NrGenerate
  BY ConstantFacts DEF RingInv, ShapeOK, RoundInv, Owners, EnqueueLabels
<1>2. Cardinality(Requests(i, Putters \cup {g})) = Inserted + 1
  BY <1>1, RequestsAdd, InsertedIsPutters
<1>3. Putters \cup {g} \subseteq Owners
  BY DEF Putters, Owners
<1>4. Inserted + 1 <= Cardinality(Requests(i, Owners))
  BY <1>2, <1>3, RequestsMonotone
<1> QED
  BY <1>4, OwnedSlotsAreFree, StagesAreNested, CountTypes, ConstantFacts

LEMMA BufFacts ==
    ASSUME RingInv
    PROVE  /\ Buf \in Seq(Items) /\ Len(Buf) = Inserted - Taken
           /\ \A k \in 1..(Inserted - Taken) : Buf[k] = slots[(Taken + k - 1) % N]
<1>1. Inserted - Taken \in Nat
  BY QueueBounds
<1>2. ASSUME NEW k \in 1..(Inserted - Taken)
      PROVE  slots[(Taken + k - 1) % N] \in Items
  <2>1. PICK a \in Nat : a = Taken + k - 1
    BY QueueBounds
  <2>2. a % N \in 0..N-1
    BY QueueBounds, ModFacts
  <2> QED
    BY <2>1, <2>2 DEF RingInv, ShapeOK, Items
<1>3. Buf \in [1..(Inserted - Taken) -> Items]
  BY <1>2 DEF Buf
<1>4. \A k \in 1..(Inserted - Taken) : Buf[k] = slots[(Taken + k - 1) % N]
  BY DEF Buf
<1> QED
  BY <1>1, <1>3, <1>4, LenProperties

LEMMA InitRefines == RBInit => BQ!Init
<1> SUFFICES ASSUME RBInit PROVE BQ!Init
  OBVIOUS
<1>1. RingInv
  BY InitRingInv
<1>2. Inserted = 0
  <2>1. Putters = {} /\ \A g \in Generators : i[g] = 0
    BY InitPc, ConstantFacts DEF Putters, RBInit
  <2> QED
    BY <2>1, RequestsNone, InsertedIsPutters
<1>3. Len(Buf) = 0
  BY <1>1, <1>2, BufFacts, QueueBounds
<1>4. Buf = <<>>
  BY <1>1, <1>3, BufFacts, EmptySeq
<1>5. value[Counter] = NoValue
  BY ConstantFacts DEF RBInit
<1> QED
  BY <1>4, <1>5 DEF BQ!Init, Buf

(* A step that leaves the counts and the slots alone is a stutter.         *)
LEMMA SameQueue ==
    ASSUME Inserted' = Inserted, Taken' = Taken, slots' = slots,
           value'[Counter] = value[Counter]
    PROVE  UNCHANGED BQ!vars
BY DEF BQ!vars

(* So is one of a thread that does not pass the step in which its enqueue  *)
(* or dequeue takes effect.                                                *)
LEMMA SameStage ==
    ASSUME RingInv, NEW t \in Threads, NEW to, pc' = [pc EXCEPT ![t] = to], i' = i,
           pc[t] \in PutStage <=> to \in PutStage,
           pc[t] \in GetStage <=> to \in GetStage
    PROVE  Inserted' = Inserted /\ Taken' = Taken
<1>1. pc'[t] = to /\ \A u \in Threads : u # t => pc'[u] = pc[u]
  BY DEF RingInv, ShapeOK
<1>2. \A u \in Threads : /\ pc'[u] \in PutStage <=> pc[u] \in PutStage
                         /\ pc'[u] \in GetStage <=> pc[u] \in GetStage
  BY <1>1
<1>3. Putters' = Putters
  BY <1>2, ConstantFacts DEF Putters, PutStage
<1>4. Inserted' = Inserted
  BY <1>3 DEF Inserted, Putters
<1>5. Taken' = Taken
  BY <1>2, ConstantFacts DEF Taken, GetStage
<1> QED
  BY <1>4, <1>5

(* The store: the slot it writes is not one of those in the queue.         *)
LEMMA StoreRefines ==
    ASSUME RingInv, NEW g \in Generators, Store(g)
    PROVE  UNCHANGED BQ!vars
<1>1. /\ pc[g] = "store" /\ pc' = [pc EXCEPT ![g] = "advanceIn"] /\ i' = i
      /\ slots' = [slots EXCEPT ![in] = value[g]] /\ value' = value /\ g \in Threads
  BY ConstantFacts DEF Store, At2, Pc
<1>2. Inserted' = Inserted /\ Taken' = Taken
  BY <1>1, SameStage DEF PutStage, GetStage
<1>3. Inserted - Taken < N
  BY <1>1, RoomForOne DEF Owners, Putters
<1>4. ASSUME NEW k \in 1..(Inserted - Taken)
      PROVE  slots'[(Taken + k - 1) % N] = slots[(Taken + k - 1) % N]
  <2>1. PICK a \in Nat : a = Taken + k - 1
    BY QueueBounds
  <2>2. a < Inserted /\ Inserted - a < N
    BY <1>3, <2>1, QueueBounds
  <2>3. a % N # Inserted % N /\ a % N \in 0..N-1
    BY <2>2, ModDiffers, ModFacts, QueueBounds
  <2> QED
    BY <1>1, <2>1, <2>3 DEF RingInv, ShapeOK, IndexInv
<1>5. Buf' = Buf
  BY <1>2, <1>4 DEF Buf
<1> QED
  BY <1>1, <1>5 DEF BQ!vars, Buf

(* The advance of in is a Put.                                             *)
LEMMA AdvanceInRefines ==
    ASSUME RingInv, NEW g \in Generators, AdvanceIn(g)
    PROVE  BQ!Put(value[g]) /\ value[g] \in Values
<1>1. /\ pc[g] = "advanceIn" /\ pc' = [pc EXCEPT ![g] = "putUnlock"] /\ i' = i
      /\ slots' = slots /\ value' = value /\ g \in Threads
  BY ConstantFacts DEF AdvanceIn, At2, Pc
<1>2. RingInv' /\ Inserted' = Inserted + 1
  BY <1>1, AdvanceInKeepsRingInv
<1>3. Taken' = Taken
  BY <1>1, ConstantFacts DEF RingInv, ShapeOK, Taken
<1>4. Inserted - Taken < N
  BY <1>1, RoomForOne DEF Owners, Putters
<1>5. value[g] \in Values /\ slots[Inserted % N] = value[g]
  BY <1>1 DEF RingInv, RoundInv, IndexInv, EnqueueLabels
<1>6. /\ Buf' \in Seq(Items) /\ Len(Buf') = Len(Buf) + 1
      /\ \A k \in 1..Len(Buf) : Buf'[k] = Buf[k]
      /\ Buf'[Len(Buf) + 1] = value[g]
  <2>1. Buf' = [k \in 1..(Inserted + 1 - Taken) |-> slots[(Taken + k - 1) % N]]
    <3>1. Buf' = [k \in 1..(Inserted' - Taken') |-> slots'[(Taken' + k - 1) % N]]
      BY DEF Buf
    <3>2. Inserted' - Taken' = Inserted + 1 - Taken
      BY <1>2, <1>3, QueueBounds
    <3>3. Buf' = [k \in 1..(Inserted + 1 - Taken) |-> slots'[(Taken' + k - 1) % N]]
      BY <3>1, <3>2, Zenon
    <3> QED
      BY <1>1, <1>3, <3>3, Zenon
  <2>2. Buf \in Seq(Items) /\ Len(Buf) = Inserted - Taken /\ Len(Buf) \in Nat
    BY BufFacts, QueueBounds
  <2>3. \A k \in 1..Len(Buf) : Buf'[k] = Buf[k]
    BY <2>1, <2>2, BufFacts, QueueBounds
  <2>4. Buf'[Len(Buf) + 1] = value[g]
    <3>1. Taken + (Len(Buf) + 1) - 1 = Inserted /\ Len(Buf) + 1 \in 1..(Inserted + 1 - Taken)
      BY <2>2, QueueBounds, SMTT(30)
    <3> QED
      BY <1>5, <2>1, <3>1
  <2>5. Buf' \in [1..(Len(Buf) + 1) -> Items]
    <3>1. \A k \in 1..(Len(Buf) + 1) : k \in 1..Len(Buf) \/ k = Len(Buf) + 1
      BY <2>2
    <3>2. \A k \in 1..(Len(Buf) + 1) : Buf'[k] \in Items
      BY <1>5, <2>2, <2>3, <2>4, <3>1, LenProperties DEF Items
    <3>3. Buf' = [k \in 1..(Len(Buf) + 1) |-> Buf'[k]]
      BY <2>1, <2>2, QueueBounds
    <3> QED
      BY <3>2, <3>3
  <2> QED
    BY <2>2, <2>3, <2>4, <2>5, LenProperties
<1>7. Buf' = Append(Buf, value[g])
  <2>1. Buf \in Seq(Items) /\ Len(Buf) \in Nat /\ value[g] \in Items
    BY <1>5, BufFacts, QueueBounds DEF Items
  <2>2. /\ Append(Buf, value[g]) \in Seq(Items)
        /\ Len(Append(Buf, value[g])) = Len(Buf) + 1
        /\ \A k \in 1..Len(Buf) : Append(Buf, value[g])[k] = Buf[k]
        /\ Append(Buf, value[g])[Len(Buf) + 1] = value[g]
    BY <2>1, AppendProperties
  <2>3. \A k \in 1..Len(Buf') : k \in 1..Len(Buf) \/ k = Len(Buf) + 1
    BY <1>6, <2>1
  <2>4. \A k \in 1..Len(Buf') : Buf'[k] = Append(Buf, value[g])[k]
    BY <1>6, <2>2, <2>3
  <2> QED
    BY <1>6, <2>2, <2>4, SeqEqual
<1>8. Len(Buf) < N
  BY <1>4, BufFacts
<1> QED
  BY <1>1, <1>5, <1>7, <1>8 DEF BQ!Put, Buf

(* The load is a Get.                                                      *)
LEMMA LoadRefines ==
    ASSUME RingInv, Load(Counter)
    PROVE  BQ!Get
<1>1. /\ pc[Counter] = "load" /\ lpc[Counter] = "out" /\ pc' = [pc EXCEPT ![Counter] = "advanceOut"]
      /\ i' = i /\ slots' = slots /\ value' = [value EXCEPT ![Counter] = slots[out]]
      /\ Counter \in Threads
  BY ConstantFacts DEF Load, At2, At, Pc
<1>2. Taken = i[Counter] /\ Emptied = i[Counter] /\ Owned = i[Counter] + 1
  BY <1>1, CountTypes DEF Taken, Emptied, Owned, Done
<1>3. Taken < Inserted
  BY <1>2, StagesAreNested, OwnedSlotsAreFilled, CountTypes
<1>4. Taken' = Taken + 1
  BY <1>1, <1>2, CountTypes DEF RingInv, ShapeOK, Taken
<1>5. Inserted' = Inserted
  <2>1. Putters' = Putters
    BY <1>1, ConstantFacts DEF RingInv, ShapeOK, Putters
  <2> QED
    BY <1>1, <2>1 DEF Inserted, Putters
<1>6. /\ Buf \in Seq(Items) /\ Len(Buf) = Inserted - Taken /\ Buf # <<>>
      /\ \A k \in 1..(Inserted - Taken) : Buf[k] = slots[(Taken + k - 1) % N]
  BY <1>3, BufFacts, QueueBounds, EmptySeq
<1>7. value'[Counter] = Head(Buf)
  <2>1. Head(Buf) = Buf[1] /\ 1 \in 1..(Inserted - Taken)
    BY <1>3, <1>6, QueueBounds
  <2>2. Taken + 1 - 1 = Taken
    BY QueueBounds
  <2>3. out = Taken % N
    BY <1>2 DEF RingInv, IndexInv
  <2> QED
    BY <1>1, <1>6, <2>1, <2>2, <2>3 DEF RingInv, ShapeOK
<1>8. Buf' = Tail(Buf)
  <2>1. /\ Tail(Buf) \in Seq(Items) /\ Len(Tail(Buf)) = Inserted - (Taken + 1)
        /\ \A k \in 1..Len(Tail(Buf)) : Tail(Buf)[k] = Buf[k + 1]
    BY <1>6, QueueBounds, HeadTailProperties
  <2>2. Buf' = [k \in 1..(Inserted - (Taken + 1)) |-> slots[((Taken + 1) + k - 1) % N]]
    BY <1>1, <1>4, <1>5 DEF Buf
  <2>3. \A k \in 1..(Inserted - (Taken + 1)) : Buf'[k] = Tail(Buf)[k]
    <3> SUFFICES ASSUME NEW k \in 1..(Inserted - (Taken + 1))
                 PROVE  Buf'[k] = Tail(Buf)[k]
      OBVIOUS
    <3>1. k + 1 \in 1..(Inserted - Taken) /\ Taken + (k + 1) - 1 = (Taken + 1) + k - 1
      BY QueueBounds
    <3>2. Tail(Buf)[k] = Buf[k + 1]
      BY <2>1
    <3>3. Buf[k + 1] = slots[(Taken + (k + 1) - 1) % N]
      BY <1>6, <3>1
    <3> QED
      BY <2>2, <3>1, <3>2, <3>3
  <2>4. Tail(Buf) = [k \in 1..(Inserted - (Taken + 1)) |-> Tail(Buf)[k]]
    BY <2>1, LenProperties
  <2> QED
    BY <2>2, <2>3, <2>4
<1> QED
  BY <1>6, <1>7, <1>8 DEF BQ!Get, Buf

(* The other statements of the threads: loop control, calls, barriers.     *)
LEMMA QuietStepRefines ==
    ASSUME RingInv, NEW t \in Threads, NEW to, pc' = [pc EXCEPT ![t] = to],
           UNCHANGED <<i, slots>>, value'[Counter] = value[Counter],
           pc[t] \in PutStage <=> to \in PutStage,
           pc[t] \in GetStage <=> to \in GetStage
    PROVE  UNCHANGED BQ!vars
BY SameStage, SameQueue

LEMMA GenerateRefines ==
    ASSUME RingInv, NEW g \in Generators, Generate(g)
    PROVE  [BQ!Next]_BQ!vars
<1>1. g \in Threads /\ g # Counter
  BY ConstantFacts
<1>2. ASSUME NEW v \in Values, Draw(g, v)
      PROVE  UNCHANGED BQ!vars
  <2>1. value'[Counter] = value[Counter]
    BY <1>1, <1>2 DEF Draw, RingInv, ShapeOK
  <2> QED
    BY <1>1, <1>2, <2>1, QuietStepRefines DEF Draw, At2, Pc, PutStage, GetStage
<1>3. ASSUME NEW from, NEW m, NEW to, Wait(g, from, m, to) \/ Post(g, from, m, to),
             from \in PutStage <=> to \in PutStage,
             from \in GetStage <=> to \in GetStage
      PROVE  UNCHANGED BQ!vars
  BY <1>1, <1>3, QuietStepRefines DEF Wait, Post, At2, Pc
<1>4. CASE Enqueue(g)
  <2>1. CASE Wait(g, "putWait", "sema", "putLock")
    BY <1>3, <2>1 DEF PutStage, GetStage
  <2>2. CASE Wait(g, "putLock", "mutex", "store")
    BY <1>3, <2>2 DEF PutStage, GetStage
  <2>3. CASE Store(g)
    BY <2>3, StoreRefines
  <2>4. CASE AdvanceIn(g)
    <3>1. value[g] \in Values /\ BQ!Put(value[g])
      BY <2>4, AdvanceInRefines
    <3>2. BQ!Next
      BY <3>1 DEF BQ!Next, BQ!Put
    <3> QED
      BY <3>2
  <2>5. CASE Post(g, "putUnlock", "mutex", "putPost")
    BY <1>3, <2>5 DEF PutStage, GetStage
  <2>6. CASE Post(g, "putPost", "empty", "account")
    BY <1>3, <2>6 DEF PutStage, GetStage
  <2> QED
    BY <1>4, <2>1, <2>2, <2>3, <2>4, <2>5, <2>6 DEF Enqueue
<1>5. CASE Account(g)
  <2>1. Inserted' = Inserted
    BY <1>5, AccountKeepsRingInv
  <2>2. Taken' = Taken
    BY <1>1, <1>5 DEF Account, Pc, RingInv, ShapeOK, Taken
  <2> QED
    BY <1>5, <2>1, <2>2, SameQueue DEF Account
<1>6. CASE EndLoop(g)
  BY <1>1, <1>6, QuietStepRefines DEF EndLoop, At2, Pc, PutStage, GetStage
<1> QED
  BY <1>2, <1>4, <1>5, <1>6 DEF Generate

LEMMA CountRefines ==
    ASSUME RingInv, Count
    PROVE  [BQ!Next]_BQ!vars
<1>1. Counter \in Threads
  BY ConstantFacts
<1>2. ASSUME NEW from, NEW m, NEW to, Wait(Counter, from, m, to) \/ Post(Counter, from, m, to),
             from \in PutStage <=> to \in PutStage,
             from \in GetStage <=> to \in GetStage
      PROVE  UNCHANGED BQ!vars
  BY <1>1, <1>2, QuietStepRefines DEF Wait, Post, At2, Pc
<1>3. CASE Expect
  BY <1>1, <1>3, QuietStepRefines DEF Expect, At2, Pc, PutStage, GetStage
<1>4. CASE Dequeue(Counter)
  <2>1. CASE Wait(Counter, "getWait", "empty", "getLock")
    BY <1>2, <2>1 DEF PutStage, GetStage
  <2>2. CASE Wait(Counter, "getLock", "mutex", "load")
    BY <1>2, <2>2 DEF PutStage, GetStage
  <2>3. CASE Load(Counter)
    BY <2>3, LoadRefines DEF BQ!Next
  <2>4. CASE AdvanceOut(Counter)
    BY <1>1, <2>4, QuietStepRefines DEF AdvanceOut, At2, Pc, PutStage, GetStage
  <2>5. CASE Post(Counter, "getUnlock", "mutex", "getPost")
    BY <1>2, <2>5 DEF PutStage, GetStage
  <2>6. CASE Post(Counter, "getPost", "sema", "count")
    BY <1>2, <2>6 DEF PutStage, GetStage
  <2> QED
    BY <1>4, <2>1, <2>2, <2>3, <2>4, <2>5, <2>6 DEF Dequeue
<1>5. CASE CountIt
  <2>1. Inserted' = Inserted
    BY <1>5, CountItKeepsRingInv
  <2>2. /\ pc[Counter] = "count" /\ pc'[Counter] = "loop"
        /\ i'[Counter] = i[Counter] + 1 /\ i[Counter] \in Nat
    BY <1>1, <1>5 DEF CountIt, At2, Pc, RingInv, ShapeOK
  <2>3. Taken' = Taken
    BY <2>2 DEF Taken
  <2> QED
    BY <1>5, <2>1, <2>3, SameQueue DEF CountIt
<1> QED
  BY <1>3, <1>4, <1>5 DEF Count

LEMMA MainRefines ==
    ASSUME RingInv, MainStep \/ Barrier
    PROVE  UNCHANGED BQ!vars
<1>1. Main \in Threads /\ \A g \in Generators : g \in Threads
  BY ConstantFacts
<1>2. ASSUME NEW g \in Generators, Spawn(g)
      PROVE  UNCHANGED BQ!vars
  BY <1>1, <1>2, QuietStepRefines DEF Spawn, Pc, PutStage, GetStage
<1>3. CASE Spawned
  BY <1>1, <1>3, QuietStepRefines DEF Spawned, At2, Pc, PutStage, GetStage
<1>4. CASE Collect
  BY <1>1, <1>4, QuietStepRefines DEF Collect, At2, Pc, PutStage, GetStage
<1>5. ASSUME NEW from, NEW ts, NEW to, Join(from, ts, to),
             from \notin PutStage /\ to \notin PutStage,
             from \notin GetStage /\ to \notin GetStage
      PROVE  UNCHANGED BQ!vars
  BY <1>1, <1>5, QuietStepRefines DEF Join, At2, Pc
<1>6. CASE MainStep
  BY <1>2, <1>3, <1>4, <1>5, <1>6 DEF MainStep, PutStage, GetStage
<1>7. CASE Barrier
  <2>1. Inserted' = Inserted
    BY <1>7, BarrierKeepsRingInv
  <2>2. pc'[Counter] = pc[Counter]
    BY <1>7, ConstantFacts DEF Barrier, RingInv, ShapeOK, DequeueLabels
  <2>3. Taken' = Taken
    BY <1>7, <2>2 DEF Barrier, Taken
  <2> QED
    BY <1>7, <2>1, <2>3, SameQueue DEF Barrier
<1> QED
  BY <1>6, <1>7

LEMMA NextRefines == RingInv /\ [RBNext]_vars => [BQ!Next]_BQ!vars
<1> SUFFICES ASSUME RingInv, [RBNext]_vars PROVE [BQ!Next]_BQ!vars
  OBVIOUS
<1>1. CASE UNCHANGED rbVars
  <2>1. UNCHANGED <<slots, value, pc, i>>
    BY <1>1 DEF rbVars
  <2>2. Inserted' = Inserted /\ Taken' = Taken
    BY <2>1 DEF Inserted, Taken
  <2> QED
    BY <2>1, <2>2, SameQueue
<1>2. CASE UNCHANGED vars
  BY <1>1, <1>2 DEF vars
<1> QED
  BY <1>1, <1>2, GenerateRefines, CountRefines, MainRefines DEF RBNext, Library, Finished

(* The ring buffer is a first-in, first-out queue of at most N values      *)
(* between the generators and the counter (pa3.c:212-239), however the     *)
(* threads and the statements of the library interleave.                   *)
THEOREM QueueAlways == RBSpec => QueueSpec
<1>1. RBInit => BQ!Init
  BY InitRefines
<1>2. RingInv /\ [RBNext]_vars => [BQ!Next]_BQ!vars
  BY NextRefines
<1>3. RBSpec => []RingInv
  BY RingInvAlways
<1> QED
  BY <1>1, <1>2, <1>3, PTL DEF RBSpec, QueueSpec, BQ!Spec

-----------------------------------------------------------------------------
(* Sums.  MapThenSumSet adds the values of its operator up in the order in *)
(* which First takes the elements out of the set.                          *)

First(s) == CHOOSE x \in s : TRUE

Partial(f, X) ==
    CHOOSE sum : sum = [s \in SUBSET X |-> IF s = {} THEN 0
                                           ELSE f[First(s)] + sum[s \ {First(s)}]]

Total(f, X) == Partial(f, X)[X]

Adds(p, f, X) ==
    /\ p[{}] = 0
    /\ \A s \in SUBSET X : s # {} => p[s] = f[First(s)] + p[s \ {First(s)}]

Summands(f, X) == \A x \in X : f[x] \in Int

LEMMA LeastNat ==
    ASSUME NEW T \in SUBSET Nat, T # {}
    PROVE  \E x \in T : \A y \in T : x <= y
<1>1. IsWellFoundedOn(OpToRel(<, Nat), Nat)
  BY NatLessThanWellFounded, Zenon
<1>2. PICK x \in T : \A y \in T : ~ (<<y, x>> \in OpToRel(<, Nat))
  BY <1>1, WFMin, Zenon
<1>3. \A y \in T : ~ (y < x)
  BY <1>2, Zenon DEF OpToRel
<1> QED
  BY <1>3

(* What is left when the first element is taken out.                       *)
LEMMA FirstOut ==
    ASSUME NEW X, IsFiniteSet(X), NEW s \in SUBSET X, s # {}
    PROVE  /\ First(s) \in s /\ s \ {First(s)} \in SUBSET X
           /\ IsFiniteSet(s) /\ Cardinality(s) \in Nat
           /\ Cardinality(s \ {First(s)}) = Cardinality(s) - 1
           /\ Cardinality(s) > 0
<1>1. First(s) \in s
  BY DEF First
<1>2. IsFiniteSet(s) /\ Cardinality(s) \in Nat
  BY FS_Subset, FS_CardinalityType
<1>3. Cardinality(s) # 0
  BY <1>2, FS_EmptySet
<1>4. Cardinality(s \ {First(s)}) = Cardinality(s) - 1
  BY <1>1, <1>2, FS_RemoveElement
<1> QED
  BY <1>1, <1>2, <1>3, <1>4

(* What holds of the empty set, and of a set if it holds of what is left   *)
(* of it, holds of every subset.                                           *)
LEMMA AllSubsets ==
    ASSUME NEW X, IsFiniteSet(X), NEW G, {} \in G,
           \A s \in SUBSET X : s # {} /\ s \ {First(s)} \in G => s \in G
    PROVE  \A s \in SUBSET X : s \in G
<1> SUFFICES ASSUME NEW t \in SUBSET X, t \notin G
             PROVE  FALSE
  OBVIOUS
<1> DEFINE Sizes == {n \in Nat : \E s \in SUBSET X : s \notin G /\ Cardinality(s) = n}
<1>1. Cardinality(t) \in Sizes
  BY FS_Subset, FS_CardinalityType
<1>2. PICK n \in Sizes : \A m \in Sizes : n <= m
  <2>1. Sizes \in SUBSET Nat /\ Sizes # {}
    BY <1>1
  <2> HIDE DEF Sizes
  <2> QED
    BY <2>1, LeastNat
<1>3. PICK s \in SUBSET X : s \notin G /\ Cardinality(s) = n
  BY <1>2
<1>4. s # {}
  BY <1>3
<1>5. /\ s \ {First(s)} \in SUBSET X /\ Cardinality(s \ {First(s)}) = n - 1
      /\ n \in Nat /\ n > 0
  BY <1>3, <1>4, FirstOut
<1>6. s \ {First(s)} \in G
  <2>1. n - 1 \in Nat /\ ~ (n <= n - 1)
    BY <1>5
  <2>2. n - 1 \notin Sizes
    BY <2>1, <1>2
  <2> QED
    BY <1>5, <2>1, <2>2
<1> QED
  BY <1>3, <1>4, <1>6

(* There is such a function: it is built for larger and larger subsets.    *)
LEMMA PartialOf ==
    ASSUME NEW f, NEW X, IsFiniteSet(X)
    PROVE  Adds(Partial(f, X), f, X)
<1> DEFINE Small(n) == {s \in SUBSET X : Cardinality(s) <= n}
           Of(sum, s) == IF s = {} THEN 0 ELSE f[First(s)] + sum[s \ {First(s)}]
           Sums(sum, n) == sum = [s \in Small(n) |-> Of(sum, s)]
           Missing == {n \in Nat : ~ \E sum : Sums(sum, n)}
<1>1. 0 \notin Missing
  <2> DEFINE sum == [s \in Small(0) |-> 0]
  <2>1. ASSUME NEW s \in Small(0)
        PROVE  s = {}
    <3> SUFFICES ASSUME s # {} PROVE FALSE
      OBVIOUS
    <3>1. s \in SUBSET X /\ Cardinality(s) <= 0
      OBVIOUS
    <3> HIDE DEF Small, sum
    <3>2. Cardinality(s) \in Nat /\ Cardinality(s) > 0
      BY <3>1, FirstOut
    <3> QED
      BY <3>1, <3>2
  <2>2. Sums(sum, 0)
    BY <2>1
  <2> QED
    BY <2>2
<1>2. ASSUME NEW n \in Nat, n \notin Missing
      PROVE  n + 1 \notin Missing
  <2>1. PICK sum : Sums(sum, n)
    BY <1>2
  <2> DEFINE more == [s \in Small(n + 1) |-> Of(sum, s)]
  <2>2. ASSUME NEW s \in Small(n + 1), s # {}
        PROVE  s \ {First(s)} \in Small(n) /\ s \ {First(s)} \in Small(n + 1)
    <3>1. s \in SUBSET X /\ Cardinality(s) <= n + 1
      OBVIOUS
    <3> QED
      BY <2>2, <3>1, FirstOut
  <2>3. ASSUME NEW s \in Small(n), s \in Small(n + 1)
        PROVE  more[s] = sum[s]
    <3>1. sum[s] = Of(sum, s)
      <4> HIDE DEF Small, Of
      <4> QED
        BY <2>1, <2>3
    <3>2. more[s] = Of(sum, s)
      BY <2>3
    <3> QED
      BY <3>1, <3>2
  <2>4. ASSUME NEW s \in Small(n + 1)
        PROVE  Of(sum, s) = Of(more, s)
    <3> HIDE DEF Small, more
    <3> QED
      BY <2>2, <2>3
  <2>5. Sums(more, n + 1)
    <3> HIDE DEF Small, Of
    <3> QED
      BY <2>4
  <2> QED
    BY <2>5
<1>3. Missing = {}
  <2> SUFFICES ASSUME Missing # {} PROVE FALSE
    OBVIOUS
  <2>1. Missing \in SUBSET Nat
    OBVIOUS
  <2> HIDE DEF Missing
  <2>2. PICK n \in Missing : \A m \in Missing : n <= m
    BY <2>1, LeastNat
  <2>3. n \in Nat /\ n # 0
    BY <2>1, <1>1
  <2>4. n - 1 \in Nat /\ ~ (n <= n - 1) /\ (n - 1) + 1 = n
    BY <2>3
  <2>5. n - 1 \notin Missing
    BY <2>2, <2>4
  <2>6. (n - 1) + 1 \notin Missing
    BY <1>2, <2>4, <2>5
  <2> QED
    BY <2>2, <2>4, <2>6
<1>4. Cardinality(X) \in Nat /\ Small(Cardinality(X)) = SUBSET X
  BY FS_Subset, FS_CardinalityType
<1>5. \E sum : sum = [s \in SUBSET X |-> Of(sum, s)]
  <2>1. \E sum : Sums(sum, Cardinality(X))
    BY <1>3, <1>4
  <2> HIDE DEF Small, Of
  <2> QED
    BY <2>1, <1>4
<1>6. PICK p : p = Partial(f, X)
  OBVIOUS
<1>7. p = [s \in SUBSET X |-> Of(p, s)]
  BY <1>5, <1>6 DEF Partial
<1>8. p[{}] = 0 /\ \A s \in SUBSET X : s # {} => p[s] = f[First(s)] + p[s \ {First(s)}]
  <2>1. {} \in SUBSET X
    OBVIOUS
  <2> QED
    BY <1>7, <2>1
<1> QED
  BY <1>6, <1>8 DEF Adds

LEMMA TotalType ==
    ASSUME NEW X, IsFiniteSet(X), NEW f, Summands(f, X)
    PROVE  Total(f, X) \in Int /\ \A s \in SUBSET X : Partial(f, X)[s] \in Int
<1>1. PICK p : p = Partial(f, X) /\ Adds(p, f, X)
  BY PartialOf
<1> DEFINE G == {s \in SUBSET X : p[s] \in Int}
<1>2. {} \in G
  BY <1>1 DEF Adds
<1>3. ASSUME NEW s \in SUBSET X, s # {}, s \ {First(s)} \in G
      PROVE  s \in G
  <2>1. f[First(s)] \in Int /\ p[s \ {First(s)}] \in Int
    BY <1>3, FirstOut DEF Summands
  <2>2. p[s] = f[First(s)] + p[s \ {First(s)}]
    BY <1>1, <1>3 DEF Adds
  <2> QED
    BY <2>1, <2>2
<1>4. \A s \in SUBSET X : s \in G
  <2> HIDE DEF G
  <2> QED
    BY <1>2, <1>3, AllSubsets
<1>5. X \in SUBSET X
  OBVIOUS
<1> QED
  BY <1>1, <1>4, <1>5 DEF Total

LEMMA TotalOfZeroes ==
    ASSUME NEW X, IsFiniteSet(X), NEW f, \A x \in X : f[x] = 0
    PROVE  Total(f, X) = 0
<1>1. PICK p : p = Partial(f, X) /\ Adds(p, f, X)
  BY PartialOf
<1> DEFINE G == {s \in SUBSET X : p[s] = 0}
<1>2. {} \in G
  BY <1>1 DEF Adds
<1>3. ASSUME NEW s \in SUBSET X, s # {}, s \ {First(s)} \in G
      PROVE  s \in G
  <2>1. f[First(s)] = 0 /\ p[s \ {First(s)}] = 0
    BY <1>3, FirstOut
  <2>2. p[s] = f[First(s)] + p[s \ {First(s)}]
    BY <1>1, <1>3 DEF Adds
  <2> QED
    BY <2>1, <2>2
<1>4. \A s \in SUBSET X : s \in G
  <2> HIDE DEF G
  <2> QED
    BY <1>2, <1>3, AllSubsets
<1>5. X \in SUBSET X
  OBVIOUS
<1> QED
  BY <1>1, <1>4, <1>5 DEF Total

(* One of the summands changes.                                            *)
LEMMA TotalChanges ==
    ASSUME NEW X, IsFiniteSet(X), NEW f, Summands(f, X), NEW y \in X, NEW d \in Int,
           NEW h, \A x \in X : h[x] = f[x] + (IF x = y THEN d ELSE 0)
    PROVE  Total(h, X) = Total(f, X) + d
<1>1. PICK p : p = Partial(f, X) /\ Adds(p, f, X)
  BY PartialOf
<1>2. PICK q : q = Partial(h, X) /\ Adds(q, h, X)
  BY PartialOf
<1> DEFINE G == {s \in SUBSET X : q[s] = p[s] + (IF y \in s THEN d ELSE 0)}
<1>3. {} \in G
  BY <1>1, <1>2 DEF Adds
<1>4. ASSUME NEW s \in SUBSET X, s # {}, s \ {First(s)} \in G
      PROVE  s \in G
  <2>1. First(s) \in s /\ First(s) \in X
    BY <1>4, FirstOut
  <2>2. PICK t \in SUBSET X : t = s \ {First(s)}
    OBVIOUS
  <2>3. f[First(s)] \in Int /\ p[t] \in Int
    BY <1>1, <2>1, TotalType DEF Summands
  <2>4. p[s] = f[First(s)] + p[t] /\ q[s] = h[First(s)] + q[t]
    BY <1>1, <1>2, <1>4, <2>2 DEF Adds
  <2>5. q[t] = p[t] + (IF y \in t THEN d ELSE 0)
    BY <1>4, <2>2
  <2>6. h[First(s)] = f[First(s)] + (IF First(s) = y THEN d ELSE 0)
    BY <2>1
  <2>7. /\ y \in s <=> (y \in t \/ y = First(s))
        /\ ~ (y \in t /\ y = First(s))
    BY <2>1, <2>2
  <2>8. q[s] = p[s] + (IF y \in s THEN d ELSE 0)
    BY <2>3, <2>4, <2>5, <2>6, <2>7
  <2> QED
    BY <2>8
<1>5. \A s \in SUBSET X : s \in G
  <2> HIDE DEF G
  <2> QED
    BY <1>3, <1>4, AllSubsets
<1>6. X \in G
  <2>1. X \in SUBSET X
    OBVIOUS
  <2> QED
    BY <1>5, <2>1
<1> QED
  BY <1>1, <1>2, <1>6 DEF Total

LEMMA SumIsTotal ==
    ASSUME NEW f, NEW X
    PROVE  MapThenSumSet(LAMBDA x : f[x], X) = Total(f, X)
BY DEF MapThenSumSet, MapThenFoldSet, Total, Partial, First

LEMMA SumOfColumn ==
    ASSUME NEW f, NEW X, NEW v
    PROVE  MapThenSumSet(LAMBDA x : f[x][v], X) = Total([x \in X |-> f[x][v]], X)
BY DEF MapThenSumSet, MapThenFoldSet, Total, Partial, First

-----------------------------------------------------------------------------
(* The results.  A number is published when in is advanced and consumed    *)
(* when its slot is read; in between the buffer holds it.                  *)

Published(v) ==
    [g \in Generators |->
        generated[g][v] + (IF pc[g] \in PutStage /\ value[g] = v THEN 1 ELSE 0)]
Consumed(v) ==
    counted[v] + (IF pc[Counter] \in GetStage /\ value[Counter] = v THEN 1 ELSE 0)
Holding(v) == {k \in Taken .. Inserted - 1 : slots[k % N] = v}

NumbersInv ==
    /\ generated \in [Generators -> [Values -> Nat]]
    /\ counted \in [Values -> Nat]
    /\ \A k \in Taken .. Inserted - 1 : slots[k % N] \in Values
    /\ pc[Counter] \in GetStage => value[Counter] \in Values
    /\ \A v \in Values :
          Total(Published(v), Generators) = Consumed(v) + Cardinality(Holding(v))
    /\ Total(counted, Values) = i[Counter]

(* main and the generators go from barrier to barrier together.            *)
PhaseInv ==
    /\ pc[Main] = "spawn" => \A g \in Generators : pc[g] \in {"unborn", "barrier1"}
    /\ pc[Main] = "barrier1" => \A g \in Generators : pc[g] = "barrier1"
    /\ pc[Main] = "barrier2" =>
          \A g \in Generators : pc[g] \in EnqueueLabels \cup {"loop", "barrier2"}
    /\ pc[Main] \in {"collect", "barrier3"} => \A g \in Generators : pc[g] = "barrier3"
    /\ pc[Main] \in {"joinGenerators", "joinCounter", "compare", "exited"} =>
          \A g \in Generators : pc[g] = "exited"

(* Between the second and the third barrier main adds the statistics up.   *)
CollectInv ==
    collected = IF pc[Main] \in {"spawn", "barrier1", "barrier2", "collect"} THEN Zero
                ELSE [v \in Values |->
                        Total([g \in Generators |-> generated[g][v]], Generators)]

LEMMA PublishedFacts ==
    ASSUME NumbersInv, NEW v \in Values
    PROVE  /\ \A g \in Generators : generated[g][v] \in Nat /\ Published(v)[g] \in Nat
           /\ Summands(Published(v), Generators)
           /\ counted[v] \in Nat /\ Consumed(v) \in Nat
<1>1. \A g \in Generators : generated[g][v] \in Nat
  BY DEF NumbersInv
<1>2. \A g \in Generators : Published(v)[g] \in Nat
  BY <1>1 DEF Published
<1>3. counted[v] \in Nat /\ Consumed(v) \in Nat
  BY DEF NumbersInv, Consumed
<1> QED
  BY <1>1, <1>2, <1>3 DEF Summands

LEMMA HoldingFacts ==
    ASSUME RingInv, NEW v
    PROVE  IsFiniteSet(Holding(v)) /\ Cardinality(Holding(v)) \in Nat
<1>1. PICK a \in Int, b \in Int : a = Taken /\ b = Inserted - 1
  BY QueueBounds
<1>2. IsFiniteSet(a .. b)
  BY FS_Interval
<1>3. Holding(v) \in SUBSET (a .. b)
  BY <1>1 DEF Holding
<1> QED
  BY <1>2, <1>3, FS_Subset, FS_CardinalityType

LEMMA InitResults == RBInit => PhaseInv /\ CollectInv /\ NumbersInv
<1> SUFFICES ASSUME RBInit PROVE PhaseInv /\ CollectInv /\ NumbersInv
  OBVIOUS
<1>1. RingInv /\ pc[Main] = "spawn" /\ pc[Counter] = "loop"
      /\ \A g \in Generators : pc[g] = "unborn"
  BY InitPc, InitRingInv
<1>2. PhaseInv /\ CollectInv
  BY <1>1 DEF PhaseInv, CollectInv, RBInit
<1>3. /\ generated = [g \in Generators |-> Zero] /\ counted = Zero /\ i[Counter] = 0
      /\ \A g \in Generators : i[g] = 0
  BY ConstantFacts DEF RBInit
<1>4. generated \in [Generators -> [Values -> Nat]] /\ counted \in [Values -> Nat]
  BY <1>3 DEF Zero
<1>5. Inserted = 0 /\ Taken = 0
  <2>1. Putters = {}
    BY <1>1 DEF Putters
  <2>2. Taken = 0
    BY <1>1, <1>3 DEF Taken
  <2> QED
    BY <1>3, <2>1, <2>2, RequestsNone, InsertedIsPutters
<1>6. Taken .. Inserted - 1 = {}
  BY <1>5
<1>7. ASSUME NEW v \in Values
      PROVE  Total(Published(v), Generators) = Consumed(v) + Cardinality(Holding(v))
  <2>1. \A g \in Generators : Published(v)[g] = 0
    BY <1>1, <1>3 DEF Published, PutStage, Zero
  <2>2. Total(Published(v), Generators) = 0
    BY <2>1, ConstantFacts, TotalOfZeroes
  <2>3. Consumed(v) = 0
    BY <1>1, <1>3 DEF Consumed, GetStage, Zero
  <2>4. Cardinality(Holding(v)) = 0
    <3>1. Holding(v) = {}
      BY <1>6 DEF Holding
    <3> QED
      BY <3>1, FS_EmptySet
  <2> QED
    BY <2>2, <2>3, <2>4
<1>8. Total(counted, Values) = i[Counter]
  <2>1. \A v \in Values : counted[v] = 0
    BY <1>3 DEF Zero
  <2>2. IsFiniteSet(Values)
    BY RingBufferAssumption
  <2> QED
    BY <1>3, <2>1, <2>2, TotalOfZeroes
<1>9. pc[Counter] \notin GetStage
  BY <1>1 DEF GetStage
<1> QED
  BY <1>2, <1>4, <1>6, <1>7, <1>8, <1>9 DEF NumbersInv

(* A step that publishes, consumes and accounts for nothing.               *)
LEMMA SameNumbers ==
    ASSUME RingInv, NumbersInv, Inserted' = Inserted, Taken' = Taken,
           \A k \in Taken .. Inserted - 1 : slots'[k % N] = slots[k % N],
           UNCHANGED <<generated, counted>>, i'[Counter] = i[Counter],
           \A g \in Generators :
              /\ pc'[g] \in PutStage <=> pc[g] \in PutStage
              /\ pc[g] \in PutStage => value'[g] = value[g],
           pc'[Counter] \in GetStage <=> pc[Counter] \in GetStage,
           pc[Counter] \in GetStage => value'[Counter] = value[Counter]
    PROVE  NumbersInv'
<1>1. ASSUME NEW v \in Values
      PROVE  /\ Published(v)' = Published(v) /\ Consumed(v)' = Consumed(v)
             /\ Holding(v)' = Holding(v)
  <2>1. Published(v)' = Published(v)
    BY DEF Published
  <2>2. Consumed(v)' = Consumed(v)
    BY DEF Consumed
  <2>3. Holding(v)' = Holding(v)
    <3>1. Holding(v)' = {k \in Taken' .. Inserted' - 1 : slots'[k % N] = v}
      BY DEF Holding
    <3> QED
      BY <3>1 DEF Holding
  <2> QED
    BY <2>1, <2>2, <2>3
<1>2. ASSUME NEW v \in Values
      PROVE  (Total(Published(v), Generators))' = (Consumed(v) + Cardinality(Holding(v)))'
  <2>1. Total(Published(v), Generators) = Consumed(v) + Cardinality(Holding(v))
    BY DEF NumbersInv
  <2> QED
    BY <1>1, <2>1
<1>3. \A k \in (Taken .. Inserted - 1)' : slots'[k % N] \in Values
  BY DEF NumbersInv
<1> QED
  BY <1>2, <1>3 DEF NumbersInv

(* What the steps of a generator leave alone.                              *)
LEMMA GenerateMoves ==
    ASSUME RingInv, NEW g \in Generators, Generate(g)
    PROVE  /\ pc[g] \in EnqueueLabels \cup {"loop"}
           /\ \E to \in EnqueueLabels \cup {"loop", "barrier2"} :
                 pc' = [pc EXCEPT ![g] = to]
           /\ UNCHANGED <<counted, collected>> /\ Taken' = Taken
           /\ i'[Counter] = i[Counter] /\ value'[Counter] = value[Counter]
<1>1. /\ g \in Threads /\ Counter \in Threads /\ g # Counter
      /\ i \in [Threads -> Nat] /\ value \in [Threads -> Values \cup {NoValue}]
      /\ pc \in [Threads -> Labels]
  BY ConstantFacts DEF RingInv, ShapeOK
<1>2. /\ pc[g] \in EnqueueLabels \cup {"loop"}
      /\ \E to \in EnqueueLabels \cup {"loop", "barrier2"} : pc' = [pc EXCEPT ![g] = to]
      /\ UNCHANGED <<counted, collected>>
  BY DEF Generate, Enqueue, Draw, Wait, Post, Store, AdvanceIn, Account, EndLoop, At2, Pc,
         EnqueueLabels
<1>3. i'[Counter] = i[Counter] /\ value'[Counter] = value[Counter]
  BY <1>1 DEF Generate, Enqueue, Draw, Wait, Post, Store, AdvanceIn, Account, EndLoop
<1>4. pc'[Counter] = pc[Counter]
  BY <1>1, <1>2
<1> QED
  BY <1>2, <1>3, <1>4 DEF Taken

LEMMA GenerateKeepsPhases ==
    ASSUME RingInv, PhaseInv, CollectInv, NEW g \in Generators, Generate(g)
    PROVE  PhaseInv' /\ CollectInv'
<1>1. PICK to \in EnqueueLabels \cup {"loop", "barrier2"} : pc' = [pc EXCEPT ![g] = to]
  BY GenerateMoves
<1>2. /\ pc[g] \in EnqueueLabels \cup {"loop"} /\ collected' = collected
      /\ g \in Threads /\ Main \in Threads /\ g # Main
      /\ \A h \in Generators : h \in Threads
      /\ pc \in [Threads -> Labels]
      /\ pc[Main] \in {"spawn", "barrier1", "barrier2", "barrier3", "collect",
                       "joinGenerators", "joinCounter", "compare", "exited"}
  BY GenerateMoves, ConstantFacts DEF RingInv, ShapeOK
<1>3. pc[Main] = "barrier2"
  BY <1>2 DEF PhaseInv, EnqueueLabels
<1>4. /\ pc'[Main] = "barrier2"
      /\ \A h \in Generators : pc'[h] \in EnqueueLabels \cup {"loop", "barrier2"}
  BY <1>1, <1>2, <1>3 DEF PhaseInv
<1>5. PhaseInv'
  BY <1>4 DEF PhaseInv
<1>6. CollectInv'
  BY <1>2, <1>3, <1>4 DEF CollectInv
<1> QED
  BY <1>5, <1>6

(* The statements of a generator that publish and account for nothing.     *)
LEMMA QuietGenerate ==
    ASSUME RingInv, NumbersInv, NEW g \in Generators, Generate(g), NEW to,
           pc' = [pc EXCEPT ![g] = to], i' = i, generated' = generated,
           pc[g] \in PutStage <=> to \in PutStage,
           \A h \in Generators : pc[h] \in PutStage => value'[h] = value[h],
           \A k \in Taken .. Inserted - 1 : slots'[k % N] = slots[k % N]
    PROVE  NumbersInv'
<1>1. /\ pc \in [Threads -> Labels] /\ g \in Threads /\ Counter \in Threads /\ g # Counter
      /\ \A h \in Generators : h \in Threads
      /\ pc[g] \in EnqueueLabels \cup {"loop"} /\ to \in EnqueueLabels \cup {"loop", "barrier2"}
  <2>1. PICK u \in EnqueueLabels \cup {"loop", "barrier2"} : pc' = [pc EXCEPT ![g] = u]
    BY GenerateMoves
  <2>2. g \in Threads /\ pc \in [Threads -> Labels]
    BY ConstantFacts DEF RingInv, ShapeOK
  <2>3. pc'[g] = u /\ pc'[g] = to
    BY <2>1, <2>2
  <2> QED
    BY <2>2, <2>3, GenerateMoves, ConstantFacts
<1>2. pc[g] \notin GetStage /\ to \notin GetStage
  BY <1>1 DEF EnqueueLabels, GetStage
<1>3. Inserted' = Inserted /\ Taken' = Taken
  BY <1>1, <1>2, SameStage
<1>4. /\ pc'[Counter] = pc[Counter]
      /\ \A h \in Generators : pc'[h] \in PutStage <=> pc[h] \in PutStage
  BY <1>1
<1>5. /\ UNCHANGED <<generated, counted>> /\ i'[Counter] = i[Counter]
      /\ value'[Counter] = value[Counter]
  BY GenerateMoves
<1> QED
  BY <1>3, <1>4, <1>5, SameNumbers

(* The store writes a slot that holds nothing.                             *)
LEMMA StoreKeepsSlots ==
    ASSUME RingInv, NEW g \in Generators, Store(g)
    PROVE  \A k \in Taken .. Inserted - 1 : slots'[k % N] = slots[k % N]
<1>1. pc[g] = "store" /\ slots' = [slots EXCEPT ![in] = value[g]]
  BY DEF Store, At2
<1>2. Inserted - Taken < N
  BY <1>1, RoomForOne DEF Owners, Putters
<1> SUFFICES ASSUME NEW k \in Taken .. Inserted - 1
             PROVE  slots'[k % N] = slots[k % N]
  OBVIOUS
<1>3. k \in Nat /\ k < Inserted /\ Inserted - k < N
  BY <1>2, QueueBounds
<1>4. k % N # Inserted % N /\ k % N \in 0..N-1
  BY <1>3, ModDiffers, ModFacts, QueueBounds
<1> QED
  BY <1>1, <1>4 DEF RingInv, ShapeOK, IndexInv

(* The advance of in publishes the value of its slot.                      *)
LEMMA AdvanceInKeepsNumbers ==
    ASSUME RingInv, NumbersInv, NEW g \in Generators, AdvanceIn(g)
    PROVE  NumbersInv'
<1>1. /\ pc[g] = "advanceIn" /\ pc' = [pc EXCEPT ![g] = "putUnlock"] /\ g \in Threads
      /\ UNCHANGED <<slots, i, value, generated, counted>>
      /\ \A h \in Generators : h \in Threads /\ h # Counter
      /\ Counter \in Threads /\ pc \in [Threads -> Labels]
  BY ConstantFacts DEF AdvanceIn, At2, Pc, RingInv, ShapeOK
<1>2. Inserted' = Inserted + 1
  BY <1>1, AdvanceInKeepsRingInv
<1>3. pc'[g] = "putUnlock" /\ (\A u \in Threads : u # g => pc'[u] = pc[u])
  BY <1>1
<1>4. Taken' = Taken /\ pc'[Counter] = pc[Counter]
  BY <1>1, <1>3 DEF Taken
<1>5. value[g] \in Values /\ slots[Inserted % N] = value[g]
  BY <1>1 DEF RingInv, RoundInv, IndexInv, EnqueueLabels
<1>6. PICK a \in Nat, b \in Nat : a = Taken /\ b = Inserted /\ a <= b
  BY QueueBounds
<1>7. ASSUME NEW v \in Values
      PROVE  (Total(Published(v), Generators))' = (Consumed(v) + Cardinality(Holding(v)))'
  <2>1. PICK d \in {0, 1} : d = IF value[g] = v THEN 1 ELSE 0
    OBVIOUS
  <2>2. PICK p, q : p = Published(v) /\ q = Published(v)'
    OBVIOUS
  <2>3. \A h \in Generators : q[h] = p[h] + (IF h = g THEN d ELSE 0)
    <3>1. \A h \in Generators :
             /\ p[h] = generated[h][v] + (IF pc[h] \in PutStage /\ value[h] = v THEN 1 ELSE 0)
             /\ q[h] = generated[h][v] + (IF pc'[h] \in PutStage /\ value[h] = v THEN 1 ELSE 0)
             /\ generated[h][v] \in Nat
      BY <1>1, <2>2, PublishedFacts DEF Published
    <3>2. "putUnlock" \in PutStage /\ "advanceIn" \notin PutStage
      BY DEF PutStage
    <3> QED
      BY <1>1, <1>3, <2>1, <3>1, <3>2
  <2>4. Total(q, Generators) = Total(p, Generators) + d
    <3>1. Summands(p, Generators) /\ d \in Int /\ IsFiniteSet(Generators)
      BY <2>2, PublishedFacts, ConstantFacts
    <3> QED
      BY <2>3, <3>1, TotalChanges
  <2>5. Consumed(v)' = Consumed(v)
    BY <1>1, <1>4 DEF Consumed
  <2>6. Cardinality(Holding(v)') = Cardinality(Holding(v)) + d
    <3>1. /\ Holding(v) = {k \in a .. b - 1 : slots[k % N] = v}
          /\ Holding(v)' = {k \in a .. (b + 1) - 1 : slots[k % N] = v}
      BY <1>1, <1>2, <1>4, <1>6 DEF Holding
    <3>2. b \notin Holding(v)
      BY <3>1
    <3>3. \A k : k \in a .. (b + 1) - 1 <=> k \in a .. b - 1 \/ k = b
      BY <1>6
    <3>4. CASE value[g] = v
      <4>1. Holding(v)' = Holding(v) \cup {b}
        BY <1>5, <1>6, <3>1, <3>3, <3>4
      <4> QED
        BY <2>1, <3>2, <3>4, <4>1, HoldingFacts, FS_AddElement
    <3>5. CASE value[g] # v
      <4>1. Holding(v)' = Holding(v)
        BY <1>5, <1>6, <3>1, <3>3, <3>5
      <4> QED
        BY <2>1, <3>5, <4>1, HoldingFacts
    <3> QED
      BY <3>4, <3>5
  <2>7. Total(p, Generators) = Consumed(v) + Cardinality(Holding(v))
    BY <2>2 DEF NumbersInv
  <2> QED
    BY <2>2, <2>4, <2>5, <2>6, <2>7, PublishedFacts, HoldingFacts
<1>8. \A k \in (Taken .. Inserted - 1)' : slots'[k % N] \in Values
  <2>1. \A k \in (Taken .. Inserted - 1)' : k \in Taken .. Inserted - 1 \/ k = Inserted
    BY <1>2, <1>4, <1>6
  <2> QED
    BY <1>1, <1>5, <2>1 DEF NumbersInv
<1> QED
  BY <1>1, <1>4, <1>7, <1>8 DEF NumbersInv

(* The account of a value moves it from the round to the statistics.       *)
LEMMA AccountKeepsNumbers ==
    ASSUME RingInv, NumbersInv, NEW g \in Generators, Account(g)
    PROVE  NumbersInv'
<1>1. /\ pc[g] = "account" /\ pc' = [pc EXCEPT ![g] = "loop"] /\ g \in Threads
      /\ generated' = [generated EXCEPT ![g][value[g]] = @ + 1]
      /\ UNCHANGED <<slots, value, counted>>
      /\ \A h \in Generators : h \in Threads /\ h # Counter
      /\ Counter \in Threads /\ pc \in [Threads -> Labels]
  BY ConstantFacts DEF Account, At2, Pc, RingInv, ShapeOK
<1>2. Inserted' = Inserted
  BY AccountKeepsRingInv
<1>3. pc'[g] = "loop" /\ (\A u \in Threads : u # g => pc'[u] = pc[u])
  BY <1>1
<1>4. Taken' = Taken /\ i'[Counter] = i[Counter] /\ pc'[Counter] = pc[Counter]
  <2>1. Generate(g)
    BY DEF Generate
  <2> QED
    BY <1>1, <1>3, <2>1, GenerateMoves
<1>5. value[g] \in Values
  BY <1>1 DEF RingInv, RoundInv, EnqueueLabels
<1>6. generated \in [Generators -> [Values -> Nat]]
  BY DEF NumbersInv
<1>7. \A h \in Generators, v \in Values :
         generated'[h][v] = generated[h][v] + (IF h = g /\ v = value[g] THEN 1 ELSE 0)
  BY <1>1, <1>5, <1>6
<1>8. generated' \in [Generators -> [Values -> Nat]]
  BY <1>1, <1>5, <1>6
<1>9. ASSUME NEW v \in Values
      PROVE  /\ Published(v)' = Published(v) /\ Consumed(v)' = Consumed(v)
             /\ Holding(v)' = Holding(v)
  <2>1. ASSUME NEW h \in Generators
        PROVE  generated'[h][v] + (IF pc'[h] \in PutStage /\ value'[h] = v THEN 1 ELSE 0)
                 = generated[h][v] + (IF pc[h] \in PutStage /\ value[h] = v THEN 1 ELSE 0)
    <3>1. "account" \in PutStage /\ "loop" \notin PutStage
      BY DEF PutStage
    <3>2. generated[h][v] \in Nat
      BY <1>6
    <3>3. CASE h = g
      BY <1>1, <1>3, <1>7, <3>1, <3>2, <3>3
    <3>4. CASE h # g
      BY <1>1, <1>3, <1>7, <3>2, <3>4
    <3> QED
      BY <3>3, <3>4
  <2>2. Published(v)' = Published(v)
    BY <2>1 DEF Published
  <2>3. Consumed(v)' = Consumed(v)
    BY <1>1, <1>4 DEF Consumed
  <2>4. Holding(v)' = Holding(v)
    BY <1>1, <1>2, <1>4 DEF Holding
  <2> QED
    BY <2>2, <2>3, <2>4
<1>10. ASSUME NEW v \in Values
       PROVE  (Total(Published(v), Generators))' = (Consumed(v) + Cardinality(Holding(v)))'
  <2>1. Total(Published(v), Generators) = Consumed(v) + Cardinality(Holding(v))
    BY DEF NumbersInv
  <2> QED
    BY <1>9, <2>1
<1>11. \A k \in (Taken .. Inserted - 1)' : slots'[k % N] \in Values
  BY <1>1, <1>2, <1>4 DEF NumbersInv
<1> QED
  BY <1>1, <1>4, <1>8, <1>10, <1>11 DEF NumbersInv

LEMMA GenerateKeepsNumbers ==
    ASSUME RingInv, NumbersInv, NEW g \in Generators, Generate(g)
    PROVE  NumbersInv'
<1>1. ASSUME NEW v \in Values, Draw(g, v)
      PROVE  NumbersInv'
  <2>1. /\ pc[g] = "loop" /\ pc' = [pc EXCEPT ![g] = "putWait"]
        /\ value' = [value EXCEPT ![g] = v] /\ UNCHANGED <<slots, i, generated>>
    BY <1>1 DEF Draw, At2, Pc
  <2>2. \A h \in Generators : pc[h] \in PutStage => value'[h] = value[h]
    BY <2>1, ConstantFacts DEF PutStage, RingInv, ShapeOK
  <2> QED
    BY <2>1, <2>2, QuietGenerate DEF PutStage
<1>2. ASSUME NEW from, NEW m, NEW to, Wait(g, from, m, to) \/ Post(g, from, m, to),
             from \in PutStage <=> to \in PutStage
      PROVE  NumbersInv'
  BY <1>2, QuietGenerate DEF Wait, Post, At2, Pc
<1>3. CASE Store(g)
  <2>1. /\ pc[g] = "store" /\ pc' = [pc EXCEPT ![g] = "advanceIn"]
        /\ UNCHANGED <<i, value, generated>>
    BY <1>3 DEF Store, At2, Pc
  <2> QED
    BY <1>3, <2>1, StoreKeepsSlots, QuietGenerate DEF PutStage
<1>4. CASE EndLoop(g)
  BY <1>4, QuietGenerate DEF EndLoop, At2, Pc, PutStage
<1>5. CASE Enqueue(g)
  <2>1. CASE Wait(g, "putWait", "sema", "putLock")
    BY <1>2, <2>1 DEF PutStage
  <2>2. CASE Wait(g, "putLock", "mutex", "store")
    BY <1>2, <2>2 DEF PutStage
  <2>3. CASE Post(g, "putUnlock", "mutex", "putPost")
    BY <1>2, <2>3 DEF PutStage
  <2>4. CASE Post(g, "putPost", "empty", "account")
    BY <1>2, <2>4 DEF PutStage
  <2> QED
    BY <1>3, <1>5, <2>1, <2>2, <2>3, <2>4, AdvanceInKeepsNumbers DEF Enqueue
<1> QED
  BY <1>1, <1>4, <1>5, AccountKeepsNumbers DEF Generate

(* What the steps of the counter leave alone.                              *)
LEMMA CountMoves ==
    ASSUME RingInv, Count
    PROVE  /\ pc[Counter] \in DequeueLabels \cup {"loop"}
           /\ \E to \in DequeueLabels \cup {"loop", "exited"} :
                 pc' = [pc EXCEPT ![Counter] = to]
           /\ UNCHANGED <<slots, generated, collected>> /\ Inserted' = Inserted
           /\ \A g \in Generators : pc'[g] = pc[g] /\ value'[g] = value[g]
           /\ pc'[Main] = pc[Main]
<1>1. /\ Counter \in Threads /\ Main \in Threads /\ Main # Counter
      /\ \A g \in Generators : g \in Threads /\ g # Counter
      /\ i \in [Threads -> Nat] /\ value \in [Threads -> Values \cup {NoValue}]
      /\ pc \in [Threads -> Labels]
  BY ConstantFacts DEF RingInv, ShapeOK
<1>2. /\ pc[Counter] \in DequeueLabels \cup {"loop"}
      /\ \E to \in DequeueLabels \cup {"loop", "exited"} : pc' = [pc EXCEPT ![Counter] = to]
      /\ UNCHANGED <<slots, generated, collected>>
  BY DEF Count, Expect, Dequeue, Wait, Post, Load, AdvanceOut, CountIt, At2, Pc, DequeueLabels
<1>3. \A g \in Generators : i'[g] = i[g] /\ value'[g] = value[g]
  BY <1>1 DEF Count, Expect, Dequeue, Wait, Post, Load, AdvanceOut, CountIt
<1>4. pc'[Main] = pc[Main] /\ \A g \in Generators : pc'[g] = pc[g]
  BY <1>1, <1>2
<1>5. Putters' = Putters
  BY <1>4 DEF Putters
<1>6. Inserted' = Inserted
  <2>1. Requests(i', Putters') = Requests(i, Putters)
    BY <1>3, <1>5, RequestsSame
  <2>2. Inserted' = Cardinality(Requests(i', Putters'))
    BY DEF Inserted, Putters
  <2> QED
    BY <2>1, <2>2, InsertedIsPutters
<1> QED
  BY <1>2, <1>3, <1>4, <1>6

LEMMA CountKeepsPhases ==
    ASSUME RingInv, PhaseInv, CollectInv, Count
    PROVE  PhaseInv' /\ CollectInv'
<1>1. /\ \A g \in Generators : pc'[g] = pc[g] /\ generated'[g] = generated[g]
      /\ pc'[Main] = pc[Main] /\ UNCHANGED <<generated, collected>>
  BY CountMoves
<1> QED
  BY <1>1 DEF PhaseInv, CollectInv

LEMMA QuietCount ==
    ASSUME RingInv, NumbersInv, Count, NEW to, pc' = [pc EXCEPT ![Counter] = to],
           UNCHANGED <<i, value, counted>>,
           pc[Counter] \in GetStage <=> to \in GetStage
    PROVE  NumbersInv'
<1>1. pc'[Counter] = to /\ Counter \in Threads
  BY ConstantFacts DEF RingInv, ShapeOK
<1>2. Taken' = Taken
  BY <1>1 DEF Taken, GetStage
<1>3. /\ UNCHANGED <<slots, generated>> /\ Inserted' = Inserted
      /\ \A g \in Generators : pc'[g] = pc[g]
  BY CountMoves
<1> QED
  BY <1>1, <1>2, <1>3, SameNumbers

(* The load consumes the value of the first slot.                          *)
LEMMA LoadKeepsNumbers ==
    ASSUME RingInv, NumbersInv, Load(Counter)
    PROVE  NumbersInv'
<1>0. Count
  BY DEF Count, Dequeue
<1>1. /\ pc[Counter] = "load" /\ pc' = [pc EXCEPT ![Counter] = "advanceOut"]
      /\ lpc[Counter] = "out"
      /\ UNCHANGED <<slots, i, generated, counted>>
      /\ value' = [value EXCEPT ![Counter] = slots[out]]
      /\ \A g \in Generators : pc'[g] = pc[g] /\ value'[g] = value[g]
      /\ Counter \in Threads /\ Inserted' = Inserted
      /\ pc \in [Threads -> Labels] /\ value \in [Threads -> Values \cup {NoValue}]
      /\ i[Counter] \in Nat
  BY <1>0, CountMoves, ConstantFacts DEF Load, At2, At, Pc, RingInv, ShapeOK
<1>2. Taken = i[Counter] /\ Emptied = i[Counter] /\ Owned = i[Counter] + 1
  BY <1>1, CountTypes DEF Taken, Emptied, Owned, Done
<1>3. Taken < Inserted
  BY <1>2, StagesAreNested, OwnedSlotsAreFilled, CountTypes
<1>4. pc'[Counter] = "advanceOut" /\ Taken' = Taken + 1
  BY <1>1, <1>2 DEF Taken
<1>5. PICK a \in Nat, b \in Nat : a = Taken /\ b = Inserted /\ a < b
  BY <1>3, QueueBounds
<1>6. slots[a % N] \in Values /\ value'[Counter] = slots[a % N]
  <2>1. out = a % N
    BY <1>2, <1>5 DEF RingInv, IndexInv
  <2>2. a \in Taken .. Inserted - 1
    BY <1>5
  <2> QED
    BY <1>1, <2>1, <2>2 DEF NumbersInv
<1>7. ASSUME NEW v \in Values
      PROVE  (Total(Published(v), Generators))' = (Consumed(v) + Cardinality(Holding(v)))'
  <2>1. PICK d \in {0, 1} : d = IF slots[a % N] = v THEN 1 ELSE 0
    OBVIOUS
  <2>2. Published(v)' = Published(v)
    BY <1>1 DEF Published
  <2>3. Consumed(v)' = Consumed(v) + d
    <3>1. "load" \notin GetStage /\ "advanceOut" \in GetStage
      BY DEF GetStage
    <3> QED
      BY <1>1, <1>4, <1>6, <2>1, <3>1, PublishedFacts DEF Consumed
  <2>4. Cardinality(Holding(v)') = Cardinality(Holding(v)) - d
    <3>1. /\ Holding(v) = {k \in a .. b - 1 : slots[k % N] = v}
          /\ Holding(v)' = {k \in a + 1 .. b - 1 : slots[k % N] = v}
      BY <1>1, <1>4, <1>5 DEF Holding
    <3>2. \A k : k \in a .. b - 1 <=> k \in a + 1 .. b - 1 \/ k = a
      BY <1>5
    <3>3. a \notin a + 1 .. b - 1
      BY <1>5
    <3>4. CASE slots[a % N] = v
      <4>1. Holding(v)' = Holding(v) \ {a} /\ a \in Holding(v)
        BY <3>1, <3>2, <3>3, <3>4
      <4> QED
        <5>1. Cardinality(Holding(v) \ {a}) = Cardinality(Holding(v)) - 1
          BY <4>1, HoldingFacts, FS_RemoveElement
        <5>2. d = 1
          BY <2>1, <3>4
        <5> QED
          BY <4>1, <5>1, <5>2
    <3>5. CASE slots[a % N] # v
      <4>1. Holding(v)' = Holding(v)
        BY <3>1, <3>2, <3>3, <3>5
      <4> QED
        BY <2>1, <3>5, <4>1, HoldingFacts
    <3> QED
      BY <3>4, <3>5
  <2>5. Total(Published(v), Generators) = Consumed(v) + Cardinality(Holding(v))
    BY DEF NumbersInv
  <2> QED
    BY <2>1, <2>2, <2>3, <2>4, <2>5, PublishedFacts, HoldingFacts
<1>8. \A k \in (Taken .. Inserted - 1)' : slots'[k % N] \in Values
  <2>1. \A k \in (Taken .. Inserted - 1)' : k \in Taken .. Inserted - 1
    BY <1>1, <1>4, <1>5
  <2> QED
    BY <1>1, <2>1 DEF NumbersInv
<1> QED
  BY <1>1, <1>6, <1>7, <1>8 DEF NumbersInv

LEMMA CountItKeepsNumbers ==
    ASSUME RingInv, NumbersInv, CountIt
    PROVE  NumbersInv'
<1>0. Count
  BY DEF Count
<1>1. /\ pc[Counter] = "count" /\ pc' = [pc EXCEPT ![Counter] = "loop"]
      /\ i' = [i EXCEPT ![Counter] = @ + 1]
      /\ counted' = [counted EXCEPT ![value[Counter]] = @ + 1]
      /\ UNCHANGED <<slots, generated, value>>
      /\ \A g \in Generators : pc'[g] = pc[g]
      /\ Counter \in Threads /\ Inserted' = Inserted
      /\ pc \in [Threads -> Labels] /\ i[Counter] \in Nat /\ i'[Counter] = i[Counter] + 1
  BY <1>0, CountMoves, ConstantFacts DEF CountIt, At2, Pc, RingInv, ShapeOK
<1>2. pc'[Counter] = "loop" /\ "count" \in GetStage /\ "loop" \notin GetStage
  BY <1>1 DEF GetStage
<1>3. Taken' = Taken
  BY <1>1, <1>2 DEF Taken
<1>4. value[Counter] \in Values /\ counted \in [Values -> Nat]
  BY <1>1, <1>2 DEF NumbersInv
<1>5. /\ counted' \in [Values -> Nat]
      /\ \A v \in Values : counted'[v] = counted[v] + (IF v = value[Counter] THEN 1 ELSE 0)
  BY <1>1, <1>4
<1>6. ASSUME NEW v \in Values
      PROVE  (Total(Published(v), Generators))' = (Consumed(v) + Cardinality(Holding(v)))'
  <2>1. Published(v)' = Published(v)
    BY <1>1 DEF Published
  <2>2. Consumed(v)' = Consumed(v)
    <3>1. counted[v] \in Nat /\ counted'[v] \in Nat
      BY <1>4, <1>5
    <3> QED
      BY <1>1, <1>2, <1>5, <3>1 DEF Consumed
  <2>3. Holding(v)' = Holding(v)
    BY <1>1, <1>3 DEF Holding
  <2>4. Total(Published(v), Generators) = Consumed(v) + Cardinality(Holding(v))
    BY DEF NumbersInv
  <2> QED
    BY <2>1, <2>2, <2>3, <2>4
<1>7. (Total(counted, Values))' = i'[Counter]
  <2>1. PICK p, q : p = counted /\ q = counted'
    OBVIOUS
  <2>2. Summands(p, Values) /\ IsFiniteSet(Values)
    BY <1>4, <2>1, RingBufferAssumption DEF Summands
  <2>3. \A v \in Values : q[v] = p[v] + (IF v = value[Counter] THEN 1 ELSE 0)
    BY <1>5, <2>1
  <2>4. Total(q, Values) = Total(p, Values) + 1
    BY <1>4, <2>2, <2>3, TotalChanges
  <2>5. Total(p, Values) = i[Counter]
    BY <2>1 DEF NumbersInv
  <2> QED
    BY <1>1, <2>1, <2>4, <2>5
<1>8. \A k \in (Taken .. Inserted - 1)' : slots'[k % N] \in Values
  BY <1>1, <1>3 DEF NumbersInv
<1> QED
  BY <1>1, <1>2, <1>5, <1>6, <1>7, <1>8 DEF NumbersInv

LEMMA CountKeepsNumbers ==
    ASSUME RingInv, NumbersInv, Count
    PROVE  NumbersInv'
<1>1. ASSUME NEW from, NEW m, NEW to, Wait(Counter, from, m, to) \/ Post(Counter, from, m, to),
             from \in GetStage <=> to \in GetStage
      PROVE  NumbersInv'
  BY <1>1, QuietCount DEF Wait, Post, At2, Pc
<1>2. CASE Expect
  <2>1. ~ ("loop" \in GetStage) /\ ~ ("getWait" \in GetStage) /\ ~ ("exited" \in GetStage)
    BY DEF GetStage
  <2> QED
    BY <1>2, <2>1, QuietCount DEF Expect, At2, Pc
<1>3. CASE Dequeue(Counter)
  <2>1. CASE Wait(Counter, "getWait", "empty", "getLock")
    BY <1>1, <2>1 DEF GetStage
  <2>2. CASE Wait(Counter, "getLock", "mutex", "load")
    BY <1>1, <2>2 DEF GetStage
  <2>3. CASE AdvanceOut(Counter)
    BY <2>3, QuietCount DEF AdvanceOut, At2, Pc, GetStage
  <2>4. CASE Post(Counter, "getUnlock", "mutex", "getPost")
    BY <1>1, <2>4 DEF GetStage
  <2>5. CASE Post(Counter, "getPost", "sema", "count")
    BY <1>1, <2>5 DEF GetStage
  <2> QED
    BY <1>3, <2>1, <2>2, <2>3, <2>4, <2>5, LoadKeepsNumbers DEF Dequeue
<1> QED
  BY <1>2, <1>3, CountItKeepsNumbers DEF Count

(* main moves alone.                                                       *)
LEMMA MainKeepsNumbers ==
    ASSUME RingInv, NumbersInv, NEW t \in Generators \cup {Main}, NEW to,
           pc' = [pc EXCEPT ![t] = to],
           UNCHANGED <<slots, i, value, generated, counted>>,
           pc[t] \notin PutStage, to \notin PutStage,
           pc[t] \notin GetStage, to \notin GetStage
    PROVE  NumbersInv'
<1>1. /\ pc \in [Threads -> Labels] /\ t \in Threads /\ t # Counter /\ Counter \in Threads
      /\ \A g \in Generators : g \in Threads
  BY ConstantFacts DEF RingInv, ShapeOK
<1>2. Inserted' = Inserted /\ Taken' = Taken
  BY <1>1, SameStage
<1>3. /\ pc'[Counter] = pc[Counter]
      /\ \A g \in Generators : pc'[g] \in PutStage <=> pc[g] \in PutStage
  BY <1>1
<1> QED
  BY <1>2, <1>3, SameNumbers

LEMMA MainStepKeepsResults ==
    ASSUME RingInv, PhaseInv, CollectInv, NumbersInv, MainStep
    PROVE  PhaseInv' /\ CollectInv' /\ NumbersInv'
<1>1. /\ Main \in Threads /\ pc \in [Threads -> Labels]
      /\ \A g \in Generators : g \in Threads /\ g # Main
  BY ConstantFacts DEF RingInv, ShapeOK
<1>2. ASSUME NEW g \in Generators, Spawn(g)
      PROVE  PhaseInv' /\ CollectInv' /\ NumbersInv'
  <2>1. /\ pc[Main] = "spawn" /\ pc[g] = "unborn" /\ pc' = [pc EXCEPT ![g] = "barrier1"]
        /\ UNCHANGED <<slots, i, value, generated, counted, collected>>
    BY <1>2 DEF Spawn, At2, Pc
  <2>2. /\ pc'[Main] = "spawn" /\ pc'[g] = "barrier1"
        /\ \A h \in Generators : h # g => pc'[h] = pc[h]
    BY <1>1, <2>1
  <2>3. PhaseInv' /\ CollectInv'
    BY <2>1, <2>2 DEF PhaseInv, CollectInv
  <2>4. NumbersInv'
    BY <2>1, MainKeepsNumbers DEF PutStage, GetStage
  <2> QED
    BY <2>3, <2>4
<1>3. CASE Spawned
  <2>1. /\ pc[Main] = "spawn" /\ pc' = [pc EXCEPT ![Main] = "barrier1"]
        /\ \A g \in Generators : pc[g] # "unborn"
        /\ UNCHANGED <<slots, i, value, generated, counted, collected>>
    BY <1>3 DEF Spawned, At2, Pc
  <2>2. pc'[Main] = "barrier1" /\ \A g \in Generators : pc'[g] = pc[g]
    BY <1>1, <2>1
  <2>3. PhaseInv' /\ CollectInv'
    BY <2>1, <2>2 DEF PhaseInv, CollectInv
  <2>4. NumbersInv'
    BY <2>1, MainKeepsNumbers DEF PutStage, GetStage
  <2> QED
    BY <2>3, <2>4
<1>4. CASE Collect
  <2>1. /\ pc[Main] = "collect" /\ pc' = [pc EXCEPT ![Main] = "barrier3"]
        /\ collected' = [v \in Values |->
              collected[v] + MapThenSumSet(LAMBDA g : generated[g][v], Generators)]
        /\ UNCHANGED <<slots, i, value, generated, counted>>
    BY <1>4 DEF Collect, At2, Pc
  <2>2. pc'[Main] = "barrier3" /\ \A g \in Generators : pc'[g] = pc[g]
    BY <1>1, <2>1
  <2>3. PhaseInv'
    BY <2>1, <2>2 DEF PhaseInv
  <2>4. ASSUME NEW v \in Values
        PROVE  collected[v] + MapThenSumSet(LAMBDA g : generated[g][v], Generators)
                 = Total([g \in Generators |-> generated[g][v]], Generators)
    <3>1. collected[v] = 0
      BY <2>1 DEF CollectInv, Zero
    <3>2. MapThenSumSet(LAMBDA g : generated[g][v], Generators)
            = Total([g \in Generators |-> generated[g][v]], Generators)
      BY SumOfColumn
    <3>3. Total([g \in Generators |-> generated[g][v]], Generators) \in Int
      <4>1. Summands([g \in Generators |-> generated[g][v]], Generators)
        BY DEF NumbersInv, Summands
      <4> QED
        BY <4>1, ConstantFacts, TotalType
    <3> QED
      BY <3>1, <3>2, <3>3
  <2>5. collected' = [v \in Values |-> Total([g \in Generators |-> generated[g][v]], Generators)]
    BY <2>1, <2>4
  <2>6. CollectInv'
    BY <2>1, <2>2, <2>5 DEF CollectInv
  <2>7. NumbersInv'
    BY <2>1, MainKeepsNumbers DEF PutStage, GetStage
  <2> QED
    BY <2>3, <2>6, <2>7
<1>5. ASSUME NEW from, NEW ts, NEW to, Join(from, ts, to),
             from \in {"joinGenerators", "joinCounter", "compare"},
             to \in {"joinCounter", "compare", "exited"}
      PROVE  PhaseInv' /\ CollectInv' /\ NumbersInv'
  <2>1. /\ pc[Main] = from /\ pc' = [pc EXCEPT ![Main] = to]
        /\ UNCHANGED <<slots, i, value, generated, counted, collected>>
    BY <1>5 DEF Join, At2, Pc
  <2>2. pc'[Main] = to /\ \A g \in Generators : pc'[g] = pc[g]
    BY <1>1, <2>1
  <2>3. PhaseInv' /\ CollectInv'
    BY <1>5, <2>1, <2>2 DEF PhaseInv, CollectInv
  <2>4. NumbersInv'
    BY <1>5, <2>1, MainKeepsNumbers DEF PutStage, GetStage
  <2> QED
    BY <2>3, <2>4
<1> QED
  BY <1>2, <1>3, <1>4, <1>5 DEF MainStep

(* The barrier lets main and all generators go, from the same call.        *)
LEMMA BarrierKeepsResults ==
    ASSUME RingInv, PhaseInv, CollectInv, NumbersInv, Barrier
    PROVE  PhaseInv' /\ CollectInv' /\ NumbersInv'
<1> DEFINE waiting == {t \in Threads : pc[t] \in {"barrier1", "barrier2", "barrier3"}}
           All == Generators \cup {Main}
<1>1. /\ pc' = [t \in Threads |-> IF t \in waiting THEN AfterBarrier(t) ELSE pc[t]]
      /\ Cardinality(waiting) = Cardinality(Generators) + 1
      /\ UNCHANGED <<slots, i, value, generated, counted, collected>>
  BY DEF Barrier
<1>2. waiting = All
  <2>1. waiting \subseteq All
    BY ConstantFacts DEF RingInv, ShapeOK, DequeueLabels
  <2>2. IsFiniteSet(All) /\ Cardinality(All) = Cardinality(Generators) + 1
    BY ConstantFacts, FS_AddElement
  <2> HIDE DEF waiting, All
  <2> QED
    BY <1>1, <2>1, <2>2, FS_Subset
<1>3. \A t \in All : t \in Threads /\ pc[t] \in {"barrier1", "barrier2", "barrier3"}
  BY <1>2
<1>4. /\ \A t \in All : pc'[t] = AfterBarrier(t)
      /\ Counter \in Threads /\ Counter \notin All /\ pc'[Counter] = pc[Counter]
  <2>1. Counter \in Threads /\ Counter \notin All
    BY ConstantFacts
  <2> HIDE DEF waiting, All
  <2> QED
    BY <1>1, <1>2, <1>3, <2>1
<1>5. Main \in All /\ \A g \in Generators : g \in All /\ g # Main
  BY ConstantFacts
<1> HIDE DEF waiting, All
<1>6. \A g \in Generators : pc[g] = pc[Main]
  <2>1. \A g \in Generators : pc[g] \in {"barrier1", "barrier2", "barrier3"}
    BY <1>3, <1>5
  <2>2. pc[Main] \in {"barrier1", "barrier2", "barrier3"}
    BY <1>3, <1>5
  <2> QED
    BY <2>1, <2>2 DEF PhaseInv, EnqueueLabels
<1>7. \/ /\ pc[Main] = "barrier1" /\ pc'[Main] = "barrier2"
         /\ \A g \in Generators : pc'[g] = "loop"
      \/ /\ pc[Main] = "barrier2" /\ pc'[Main] = "collect"
         /\ \A g \in Generators : pc'[g] = "barrier3"
      \/ /\ pc[Main] = "barrier3" /\ pc'[Main] = "joinGenerators"
         /\ \A g \in Generators : pc'[g] = "exited"
  BY <1>3, <1>4, <1>5, <1>6, AfterBarrierFacts
<1>8. PhaseInv' /\ CollectInv'
  BY <1>1, <1>7 DEF PhaseInv, CollectInv
<1>9. NumbersInv'
  <2>1. Inserted' = Inserted /\ Taken' = Taken
    BY <1>1, <1>4, BarrierKeepsRingInv DEF Taken
  <2>2. \A g \in Generators : pc[g] \notin PutStage /\ pc'[g] \notin PutStage
    BY <1>3, <1>5, <1>7 DEF PutStage
  <2> QED
    BY <1>1, <1>4, <2>1, <2>2, SameNumbers
<1> QED
  BY <1>8, <1>9

LEMMA NextKeepsResults ==
    ASSUME RingInv, PhaseInv, CollectInv, NumbersInv, [RBNext]_vars
    PROVE  PhaseInv' /\ CollectInv' /\ NumbersInv'
<1>1. CASE UNCHANGED rbVars
  <2>1. UNCHANGED <<slots, pc, i, value, generated, counted, collected>>
    BY <1>1 DEF rbVars
  <2>2. PhaseInv' /\ CollectInv'
    BY <2>1 DEF PhaseInv, CollectInv
  <2>3. Inserted' = Inserted /\ Taken' = Taken
    BY <2>1 DEF Inserted, Taken
  <2>4. NumbersInv'
    BY <2>1, <2>3, SameNumbers
  <2> QED
    BY <2>2, <2>4
<1>2. CASE UNCHANGED vars
  BY <1>1, <1>2 DEF vars
<1> QED
  BY <1>1, <1>2, GenerateKeepsPhases, GenerateKeepsNumbers, CountKeepsPhases,
     CountKeepsNumbers, MainStepKeepsResults, BarrierKeepsResults
     DEF RBNext, Library, Finished

(* What main prints when the run is over (main.c:188-209): every number    *)
(* was counted as often as it was generated, and all requests were         *)
(* generated, whatever numbers are drawn and however the threads           *)
(* interleave.                                                             *)
THEOREM ResultsMatchAlways == RBSpec => []ResultsMatch
<1>1. RBInit => RingInv /\ PhaseInv /\ CollectInv /\ NumbersInv
  BY InitRingInv, InitResults
<1>2. RingInv /\ PhaseInv /\ CollectInv /\ NumbersInv /\ [RBNext]_vars
        => (RingInv /\ PhaseInv /\ CollectInv /\ NumbersInv)'
  BY NextKeepsRingInv, NextKeepsResults
<1>3. RingInv /\ CollectInv /\ NumbersInv => ResultsMatch
  <2> SUFFICES ASSUME RingInv, CollectInv, NumbersInv, pc[Main] = "exited"
               PROVE  /\ collected = counted
                      /\ \A v \in Values : collected[v]
                           = MapThenSumSet(LAMBDA g : generated[g][v], Generators)
                      /\ MapThenSumSet(LAMBDA v : counted[v], Values) = NrRequests
    BY DEF ResultsMatch
  <2>1. /\ \A t \in Threads : pc[t] = "exited"
        /\ Inserted = NrRequests /\ Emptied = NrRequests /\ NrRequests \in Nat
        /\ Counter \in Threads /\ \A g \in Generators : g \in Threads
    BY EndOfTheRun, ConstantFacts
  <2>2. i[Counter] = NrRequests /\ Taken = NrRequests
    BY <2>1, CountTypes DEF Emptied, Taken, Done
  <2>3. collected = [v \in Values |-> Total([g \in Generators |-> generated[g][v]], Generators)]
    BY DEF CollectInv
  <2>4. ASSUME NEW v \in Values
        PROVE  Total([g \in Generators |-> generated[g][v]], Generators) = counted[v]
    <3>1. Published(v) = [g \in Generators |-> generated[g][v]]
      <4>1. ASSUME NEW g \in Generators
            PROVE  generated[g][v] + (IF pc[g] \in PutStage /\ value[g] = v THEN 1 ELSE 0)
                     = generated[g][v]
        <5>1. generated[g][v] \in Nat
          BY PublishedFacts
        <5>2. pc[g] \notin PutStage
          BY <2>1 DEF PutStage
        <5> QED
          BY <5>1, <5>2
      <4> QED
        BY <4>1 DEF Published
    <3>2. Consumed(v) = counted[v]
      BY <2>1, PublishedFacts DEF Consumed, GetStage
    <3>3. Cardinality(Holding(v)) = 0
      <4>1. Taken .. Inserted - 1 = {}
        BY <2>1, <2>2
      <4>2. Holding(v) = {}
        BY <4>1 DEF Holding
      <4> QED
        BY <4>2, FS_EmptySet
    <3>4. Total(Published(v), Generators) = Consumed(v) + Cardinality(Holding(v))
      BY DEF NumbersInv
    <3> QED
      BY <3>1, <3>2, <3>3, <3>4, PublishedFacts
  <2>5. collected = counted
    BY <2>3, <2>4 DEF NumbersInv
  <2>6. \A v \in Values : collected[v] = MapThenSumSet(LAMBDA g : generated[g][v], Generators)
    BY <2>3, SumOfColumn
  <2>7. MapThenSumSet(LAMBDA v : counted[v], Values) = NrRequests
    BY <2>2, SumIsTotal DEF NumbersInv
  <2> QED
    BY <2>5, <2>6, <2>7
<1> QED
  BY <1>1, <1>2, <1>3, PTL DEF RBSpec
=============================================================================
