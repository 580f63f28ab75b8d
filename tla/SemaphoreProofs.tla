--------------------------- MODULE SemaphoreProofs ---------------------------
(***************************************************************************)
(* The invariants of Semaphore hold for every number of threads and of     *)
(* instances and for every caller: IInv is inductive, and it implies them. *)
(***************************************************************************)
EXTENDS Semaphore, FiniteSetTheorems, SequenceTheorems, TLAPS

(* What linking a node at the tail of a queue does.                        *)
LEMMA AppendFacts ==
    ASSUME NEW T, NEW q \in Seq(T), NEW t \in T
    PROVE  /\ Append(q, t) \in Seq(T)
           /\ Len(Append(q, t)) = Len(q) + 1
           /\ \A k \in 1..Len(q) : Append(q, t)[k] = q[k]
           /\ Append(q, t)[Len(q) + 1] = t
    BY AppendProperties

(* What unlinking the first node does.                                     *)
LEMMA TailFacts ==
    ASSUME NEW T, NEW q \in Seq(T), q # <<>>
    PROVE  /\ Head(q) = q[1] /\ q[1] \in T
           /\ Tail(q) \in Seq(T)
           /\ Len(q) \in Nat /\ Len(q) >= 1 /\ Len(Tail(q)) = Len(q) - 1
           /\ \A k \in 1..Len(q) - 1 : Tail(q)[k] = q[k + 1]
<1>1. Len(q) \in Nat /\ Len(q) >= 1
  BY EmptySeq
<1>2. q[1] \in T /\ Head(q) = q[1]
  BY <1>1
<1> QED
  BY <1>1, <1>2, HeadTailProperties


LEMMA InitIInv == Init => IInv
<1> SUFFICES ASSUME Init PROVE IInv
  OBVIOUS
<1> USE SemaphoreAssumption DEF Init
<1>1. queue \in [Sems -> Seq(Threads)]
  <2>1. <<>> \in Seq(Threads)
    BY EmptySeq
  <2> QED
    BY <2>1
<1>2. TypeOK
  <2>1. killed \in BOOLEAN
    OBVIOUS
  <2>2. S \in [Sems -> Int]
    OBVIOUS
  <2>3. /\ hold \in [Sems -> {0, 1}] /\ masked \subseteq Threads /\ pending \subseteq Threads
        /\ sem \in [Threads -> Sems \cup {NoSem}]
        /\ gthread \in [Threads -> Threads \cup {NoThread}]
        /\ lpc \in [Threads -> {"out"} \cup AcqLabels \cup RelLabels]
    OBVIOUS
  <2> QED
    BY <1>1, <2>1, <2>2, <2>3 DEF TypeOK
<1>3. ArgInv /\ LockInv /\ BranchInv
  BY DEF ArgInv, LockInv, BranchInv, Locked, LockedLabels
<1>4. QueueInv /\ PoppedInv
  BY DEF QueueInv, PoppedInv, InQueue
<1>5. SignalInv /\ WaitInv
  BY DEF SignalInv, WaitInv
<1>6. NegativeSCountsQueue
  BY DEF NegativeSCountsQueue, Unserved, Adding, Popping
<1> QED
  BY <1>2, <1>3, <1>4, <1>5, <1>6 DEF IInv

(* A step that leaves the queues, the signals and the popped threads alone,*)
(* of a thread that is not itself popped, disturbs nobody who is popped.   *)
LEMMA PoppedStays ==
    ASSUME TypeOK, PoppedInv, NEW t \in Threads, NEW l,
           lpc' = [lpc EXCEPT ![t] = l],
           sem' = sem \/ sem' = [sem EXCEPT ![t] = NoSem],
           UNCHANGED <<gthread, queue, pending>>,
           lpc[t] \notin {"acqWait", "relDrop", "relKill"},
           l \notin {"relDrop", "relKill"}
    PROVE  PoppedInv'
<1>1. SUFFICES ASSUME NEW r \in Threads
      PROVE  /\ gthread[r] # NoThread <=> lpc'[r] \in {"relDrop", "relKill"}
             /\ gthread[r] # NoThread =>
                   /\ lpc'[gthread[r]] = "acqWait"
                   /\ gthread[r] \notin pending
                   /\ ~InQueue(gthread[r], sem[gthread[r]])'
                   /\ \A u \in Threads : gthread[u] = gthread[r] => u = r
  BY DEF PoppedInv
<1>2. lpc'[r] = IF r = t THEN l ELSE lpc[r]
  BY DEF TypeOK
<1>3. gthread[r] # NoThread <=> lpc'[r] \in {"relDrop", "relKill"}
  BY <1>2 DEF PoppedInv
<1>4. ASSUME gthread[r] # NoThread
      PROVE  /\ lpc'[gthread[r]] = "acqWait"
             /\ gthread[r] \notin pending
             /\ ~InQueue(gthread[r], sem[gthread[r]])'
             /\ \A u \in Threads : gthread[u] = gthread[r] => u = r
  <2>1. /\ lpc[gthread[r]] = "acqWait"
        /\ gthread[r] \notin pending
        /\ ~InQueue(gthread[r], sem[gthread[r]])
        /\ \A u \in Threads : gthread[u] = gthread[r] => u = r
    BY <1>4 DEF PoppedInv
  <2>2. gthread[r] \in Threads /\ gthread[r] # t
    BY <1>4, <2>1 DEF TypeOK
  <2>3. lpc'[gthread[r]] = lpc[gthread[r]] /\ sem'[gthread[r]] = sem[gthread[r]]
    BY <2>2 DEF TypeOK
  <2> QED
    BY <2>1, <2>3 DEF InQueue
<1> QED
  BY <1>3, <1>4

LEMMA CallAcquireKeepsIInv ==
    ASSUME IInv, NEW t \in Threads, NEW m \in Sems, CallAcquire(t, m)
    PROVE  IInv'
<1> USE SemaphoreAssumption DEF CallAcquire, At, Goto, Return, CompareAndSwap, Unlock
<1>0. TypeOK /\ ArgInv /\ LockInv /\ QueueInv /\ PoppedInv /\ SignalInv /\ WaitInv /\ BranchInv /\ NegativeSCountsQueue
  BY DEF IInv
<1>1. TypeOK'
  BY <1>0 DEF TypeOK, ArgInv, AcqLabels, RelLabels
<1>2. ArgInv'
  BY <1>0 DEF ArgInv, TypeOK
<1>3. LockInv'
  BY <1>0 DEF LockInv, TypeOK, ArgInv, Locked, LockedLabels
<1>4. QueueInv'
  BY <1>0 DEF QueueInv, TypeOK, ArgInv
<1>5. PoppedInv'
  BY <1>0 DEF PoppedInv, TypeOK, ArgInv, InQueue
<1>6. SignalInv'
  BY <1>0 DEF SignalInv, TypeOK, ArgInv
<1>7. WaitInv'
  BY <1>0 DEF WaitInv, TypeOK, ArgInv, InQueue, Popped
<1>8. BranchInv'
  BY <1>0 DEF BranchInv, TypeOK, ArgInv, Locked, LockedLabels, LockInv
<1>9. NegativeSCountsQueue'
  BY <1>0 DEF NegativeSCountsQueue, Unserved, TypeOK, ArgInv, Adding, Popping, Locked, LockedLabels, LockInv
<1> QED
  BY <1>1, <1>2, <1>3, <1>4, <1>5, <1>6, <1>7, <1>8, <1>9 DEF IInv

LEMMA AcqCasKeepsIInv ==
    ASSUME IInv, NEW t \in Threads, AcqCas(t)
    PROVE  IInv'
<1> USE SemaphoreAssumption DEF AcqCas, At, Goto, Return, CompareAndSwap, Unlock
<1>0. TypeOK /\ ArgInv /\ LockInv /\ QueueInv /\ PoppedInv /\ SignalInv /\ WaitInv /\ BranchInv /\ NegativeSCountsQueue
  BY DEF IInv
<1>m. sem[t] \in Sems
  BY <1>0 DEF TypeOK, ArgInv
<1>1. TypeOK'
  BY <1>0, <1>m DEF TypeOK, ArgInv, AcqLabels, RelLabels
<1>2. ArgInv'
  BY <1>0, <1>m DEF ArgInv, TypeOK
<1>3. LockInv'
  BY <1>0, <1>m DEF LockInv, TypeOK, ArgInv, Locked, LockedLabels
<1>4. QueueInv'
  BY <1>0, <1>m DEF QueueInv, TypeOK, ArgInv
<1>5. PoppedInv'
  BY <1>0, PoppedStays
<1>6. SignalInv'
  BY <1>0, <1>m DEF SignalInv, TypeOK, ArgInv
<1>7. WaitInv'
  BY <1>0, <1>m DEF WaitInv, TypeOK, ArgInv, InQueue, Popped
<1>8. BranchInv'
  BY <1>0, <1>m DEF BranchInv, TypeOK, ArgInv, Locked, LockedLabels, LockInv
<1>9. NegativeSCountsQueue'
  BY <1>0, <1>m DEF NegativeSCountsQueue, Unserved, TypeOK, ArgInv, Adding, Popping, Locked, LockedLabels, LockInv
<1> QED
  BY <1>1, <1>2, <1>3, <1>4, <1>5, <1>6, <1>7, <1>8, <1>9 DEF IInv

LEMMA AcqDecKeepsIInv ==
    ASSUME IInv, NEW t \in Threads, AcqDec(t)
    PROVE  IInv'
<1> USE SemaphoreAssumption DEF AcqDec, At, Goto, Return, CompareAndSwap, Unlock
<1>0. TypeOK /\ ArgInv /\ LockInv /\ QueueInv /\ PoppedInv /\ SignalInv /\ WaitInv /\ BranchInv /\ NegativeSCountsQueue
  BY DEF IInv
<1>m. sem[t] \in Sems
  BY <1>0 DEF TypeOK, ArgInv
<1>1. TypeOK'
  BY <1>0, <1>m DEF TypeOK, ArgInv, AcqLabels, RelLabels
<1>2. ArgInv'
  BY <1>0, <1>m DEF ArgInv, TypeOK
<1>3. LockInv'
  BY <1>0, <1>m DEF LockInv, TypeOK, ArgInv, Locked, LockedLabels
<1>4. QueueInv'
  BY <1>0, <1>m DEF QueueInv, TypeOK, ArgInv
<1>5. PoppedInv'
  <2>1. \E l \in {"acqAdd", "acqFree"} : lpc' = [lpc EXCEPT ![t] = l]
    OBVIOUS
  <2>2. PICK l \in {"acqAdd", "acqFree"} : lpc' = [lpc EXCEPT ![t] = l]
    BY <2>1
  <2>3. lpc[t] \notin {"acqWait", "relDrop", "relKill"} /\ l \notin {"relDrop", "relKill"}
    OBVIOUS
  <2>4. sem' = sem /\ UNCHANGED <<gthread, queue, pending>>
    OBVIOUS
  <2> QED
    BY <1>0, <2>2, <2>3, <2>4, PoppedStays
<1>6. SignalInv'
  BY <1>0, <1>m DEF SignalInv, TypeOK, ArgInv
<1>7. WaitInv'
  BY <1>0, <1>m DEF WaitInv, TypeOK, ArgInv, InQueue, Popped
<1>8. BranchInv'
  BY <1>0, <1>m DEF BranchInv, TypeOK, ArgInv, Locked, LockedLabels, LockInv
<1>9. NegativeSCountsQueue'
  <2> SUFFICES ASSUME NEW m \in Sems
               PROVE  Len(queue'[m]) = Unserved(m)'
    BY DEF NegativeSCountsQueue
  <2>1. Len(queue[m]) = Unserved(m)
    BY <1>0 DEF NegativeSCountsQueue
  <2>2. CASE m # sem[t]
    <3>1. (Adding(m)' <=> Adding(m)) /\ (Popping(m)' <=> Popping(m))
      BY <1>0, <2>2 DEF TypeOK, Adding, Popping
    <3> QED
      BY <1>0, <1>m, <2>1, <2>2, <3>1 DEF TypeOK, Unserved
  <2>3. CASE m = sem[t]
    <3>1. ~Adding(m) /\ ~Popping(m)
      BY <1>0, <2>3 DEF LockInv, Locked, LockedLabels, Adding, Popping
    <3>2. ~Popping(m)' /\ (Adding(m)' <=> S[m] - 1 < 0)
      BY <1>0, <2>3, <3>1 DEF TypeOK, Adding, Popping
    <3> QED
      BY <1>0, <2>1, <2>3, <3>1, <3>2 DEF TypeOK, Unserved
  <2> QED
    BY <2>2, <2>3
<1> QED
  BY <1>1, <1>2, <1>3, <1>4, <1>5, <1>6, <1>7, <1>8, <1>9 DEF IInv

LEMMA AcqFreeKeepsIInv ==
    ASSUME IInv, NEW t \in Threads, AcqFree(t)
    PROVE  IInv'
<1> USE SemaphoreAssumption DEF AcqFree, At, Goto, Return, CompareAndSwap, Unlock
<1>0. TypeOK /\ ArgInv /\ LockInv /\ QueueInv /\ PoppedInv /\ SignalInv /\ WaitInv /\ BranchInv /\ NegativeSCountsQueue
  BY DEF IInv
<1>m. sem[t] \in Sems
  BY <1>0 DEF TypeOK, ArgInv
<1>1. TypeOK'
  BY <1>0, <1>m DEF TypeOK, ArgInv, AcqLabels, RelLabels
<1>2. ArgInv'
  BY <1>0, <1>m DEF ArgInv, TypeOK
<1>3. LockInv'
  BY <1>0, <1>m DEF LockInv, TypeOK, ArgInv, Locked, LockedLabels
<1>4. QueueInv'
  BY <1>0, <1>m DEF QueueInv, TypeOK, ArgInv
<1>5. PoppedInv'
  BY <1>0, PoppedStays
<1>6. SignalInv'
  BY <1>0, <1>m DEF SignalInv, TypeOK, ArgInv
<1>7. WaitInv'
  BY <1>0, <1>m DEF WaitInv, TypeOK, ArgInv, InQueue, Popped
<1>8. BranchInv'
  BY <1>0, <1>m DEF BranchInv, TypeOK, ArgInv, Locked, LockedLabels, LockInv
<1>9. NegativeSCountsQueue'
  BY <1>0, <1>m DEF NegativeSCountsQueue, Unserved, TypeOK, ArgInv, Adding, Popping, Locked, LockedLabels, LockInv
<1> QED
  BY <1>1, <1>2, <1>3, <1>4, <1>5, <1>6, <1>7, <1>8, <1>9 DEF IInv

LEMMA AcqAddKeepsIInv ==
    ASSUME IInv, NEW t \in Threads, AcqAdd(t)
    PROVE  IInv'
<1> USE SemaphoreAssumption DEF AcqAdd, At, Goto
<1> DEFINE q == queue[sem[t]]
<1>0. TypeOK /\ ArgInv /\ LockInv /\ QueueInv /\ PoppedInv /\ SignalInv /\ WaitInv /\ BranchInv /\ NegativeSCountsQueue
  BY DEF IInv
<1>m. sem[t] \in Sems
  BY <1>0 DEF TypeOK, ArgInv
<1>q. /\ q \in Seq(Threads) /\ Len(q) \in Nat
      /\ queue' = [queue EXCEPT ![sem[t]] = Append(q, t)]
  BY <1>0, <1>m DEF TypeOK
<1>a. /\ Append(q, t) \in Seq(Threads)
      /\ Len(Append(q, t)) = Len(q) + 1
      /\ \A k \in 1..Len(q) : Append(q, t)[k] = q[k]
      /\ Append(q, t)[Len(q) + 1] = t
  BY <1>q, AppendFacts
<1>n. \A m \in Sems : \A k \in 1..Len(queue[m]) : queue[m][k] # t
  BY <1>0 DEF QueueInv
<1>e. \A m \in Sems : m # sem[t] => queue'[m] = queue[m]
  BY <1>0, <1>m DEF TypeOK
<1>s. queue'[sem[t]] = Append(q, t)
  BY <1>0, <1>m DEF TypeOK
<1>1. TypeOK'
  BY <1>0, <1>m, <1>q, <1>a DEF TypeOK, AcqLabels, RelLabels
<1>2. ArgInv'
  BY <1>0 DEF ArgInv, TypeOK
<1>3. LockInv'
  BY <1>0, <1>m DEF LockInv, TypeOK, Locked, LockedLabels
<1>4. QueueInv'
  <2> SUFFICES ASSUME NEW m \in Sems
               PROVE  /\ \A k \in 1..Len(queue'[m]) :
                            /\ sem'[queue'[m][k]] = m
                            /\ lpc'[queue'[m][k]] \in {"acqMask", "acqDrop", "acqWait"}
                            /\ queue'[m][k] \notin pending'
                      /\ \A k, l \in 1..Len(queue'[m]) : queue'[m][k] = queue'[m][l] => k = l
    BY DEF QueueInv
  <2>1. CASE m # sem[t]
    BY <1>0, <1>e, <1>n, <2>1 DEF QueueInv, TypeOK
  <2>2. CASE m = sem[t]
    <3>1. t \notin pending
      BY <1>0 DEF SignalInv
    <3>2. \A k \in 1..Len(q) :
             /\ sem'[q[k]] = m /\ lpc'[q[k]] \in {"acqMask", "acqDrop", "acqWait"}
             /\ q[k] \notin pending'
      BY <1>0, <1>n, <2>2 DEF QueueInv, TypeOK
    <3>3. lpc'[t] = "acqMask" /\ sem'[t] = m /\ t \notin pending'
      BY <1>0, <2>2, <3>1 DEF TypeOK
    <3>4. \A k \in 1..Len(queue'[m]) : k = Len(q) + 1 \/ k \in 1..Len(q)
      BY <1>s, <1>a, <1>q, <2>2
    <3>5. \A k, l \in 1..Len(q) : q[k] = q[l] => k = l
      BY <1>0, <2>2 DEF QueueInv
    <3>6. \A k \in 1..Len(q) : q[k] # t
      BY <1>n, <1>m
    <3>7. /\ \A k \in 1..Len(q) : queue'[m][k] = q[k]
          /\ queue'[m][Len(q) + 1] = t
      BY <1>s, <1>a, <2>2
    <3> HIDE DEF q
    <3>8. \A k \in 1..Len(queue'[m]) :
            /\ sem'[queue'[m][k]] = m
            /\ lpc'[queue'[m][k]] \in {"acqMask", "acqDrop", "acqWait"}
            /\ queue'[m][k] \notin pending'
      BY <3>2, <3>3, <3>4, <3>7, SMTT(30)
    <3>9. \A k, l \in 1..Len(queue'[m]) : queue'[m][k] = queue'[m][l] => k = l
      <4> SUFFICES ASSUME NEW k \in 1..Len(queue'[m]), NEW l \in 1..Len(queue'[m]),
                          queue'[m][k] = queue'[m][l]
                   PROVE  k = l
        OBVIOUS
      <4>1. CASE k \in 1..Len(q) /\ l \in 1..Len(q)
        BY <3>5, <3>7, <4>1
      <4>2. CASE k = Len(q) + 1 /\ l \in 1..Len(q)
        BY <3>6, <3>7, <4>2
      <4>3. CASE l = Len(q) + 1 /\ k \in 1..Len(q)
        BY <3>6, <3>7, <4>3
      <4> QED
        BY <3>4, <4>1, <4>2, <4>3
    <3> QED
      BY <3>8, <3>9
  <2> QED
    BY <2>1, <2>2
<1>5. PoppedInv'
  <2>1. \A r \in Threads : gthread[r] # NoThread => gthread[r] # t
    BY <1>0 DEF PoppedInv
  <2>2. \A r \in Threads : gthread[r] # NoThread =>
          ~InQueue(gthread[r], sem[gthread[r]])'
    <3> SUFFICES ASSUME NEW r \in Threads, gthread[r] # NoThread
                 PROVE  ~InQueue(gthread[r], sem[gthread[r]])'
      OBVIOUS
    <3>1. ~InQueue(gthread[r], sem[gthread[r]]) /\ gthread[r] # t /\ gthread[r] \in Threads
      BY <1>0, <2>1 DEF PoppedInv, TypeOK
    <3>2. sem[gthread[r]] \in Sems
      BY <1>0, <3>1 DEF PoppedInv, ArgInv, TypeOK
    <3>3. CASE sem[gthread[r]] # sem[t]
      BY <1>e, <3>1, <3>2, <3>3 DEF InQueue
    <3>4. CASE sem[gthread[r]] = sem[t]
      BY <1>s, <1>a, <1>q, <3>1, <3>4 DEF InQueue
    <3> QED
      BY <3>3, <3>4
  <2> QED
    BY <1>0, <2>1, <2>2 DEF PoppedInv, TypeOK
<1>6. SignalInv'
  BY <1>0 DEF SignalInv, TypeOK
<1>7. WaitInv'
  <2> SUFFICES ASSUME NEW u \in Threads, lpc'[u] \in {"acqMask", "acqDrop", "acqWait"}
               PROVE  InQueue(u, sem[u])' \/ Popped(u)' \/ u \in pending'
    BY DEF WaitInv
  <2>1. CASE u = t
    BY <1>s, <1>a, <1>q, <2>1 DEF InQueue
  <2>2. CASE u # t
    <3>1. InQueue(u, sem[u]) \/ Popped(u) \/ u \in pending
      BY <1>0, <2>2 DEF WaitInv, TypeOK
    <3>2. sem[u] \in Sems
      BY <1>0, <2>2 DEF ArgInv, TypeOK
    <3>3. CASE sem[u] # sem[t]
      BY <1>e, <3>1, <3>2, <3>3 DEF InQueue, Popped
    <3>4. CASE sem[u] = sem[t]
      BY <1>s, <1>a, <1>q, <3>1, <3>4 DEF InQueue, Popped
    <3> QED
      BY <3>3, <3>4
  <2> QED
    BY <2>1, <2>2
<1>8. BranchInv'
  BY <1>0, <1>m DEF BranchInv, TypeOK
<1>9. NegativeSCountsQueue'
  <2> SUFFICES ASSUME NEW m \in Sems
               PROVE  Len(queue'[m]) = Unserved(m)'
    BY DEF NegativeSCountsQueue
  <2>1. Len(queue[m]) = Unserved(m)
    BY <1>0 DEF NegativeSCountsQueue
  <2>2. CASE m # sem[t]
    <3>1. (Adding(m)' <=> Adding(m)) /\ (Popping(m)' <=> Popping(m))
      BY <1>0, <2>2 DEF TypeOK, Adding, Popping
    <3> QED
      BY <1>e, <2>1, <2>2, <3>1 DEF Unserved
  <2>3. CASE m = sem[t]
    <3>1. Adding(m) /\ ~Adding(m)' /\ ~Popping(m)'
      BY <1>0, <2>3 DEF TypeOK, LockInv, Locked, LockedLabels, Adding, Popping
    <3>2. S[m] < 0 /\ S[m] \in Int
      BY <1>0, <1>m, <2>3 DEF BranchInv, TypeOK
    <3> QED
      BY <1>s, <1>a, <1>q, <2>1, <2>3, <3>1, <3>2 DEF Unserved
  <2> QED
    BY <2>2, <2>3
<1> QED
  BY <1>1, <1>2, <1>3, <1>4, <1>5, <1>6, <1>7, <1>8, <1>9 DEF IInv

LEMMA AcqMaskKeepsIInv ==
    ASSUME IInv, NEW t \in Threads, AcqMask(t)
    PROVE  IInv'
<1> USE SemaphoreAssumption DEF AcqMask, At, Goto, Return, CompareAndSwap, Unlock
<1>0. TypeOK /\ ArgInv /\ LockInv /\ QueueInv /\ PoppedInv /\ SignalInv /\ WaitInv /\ BranchInv /\ NegativeSCountsQueue
  BY DEF IInv
<1>m. sem[t] \in Sems
  BY <1>0 DEF TypeOK, ArgInv
<1>1. TypeOK'
  BY <1>0, <1>m DEF TypeOK, ArgInv, AcqLabels, RelLabels
<1>2. ArgInv'
  BY <1>0, <1>m DEF ArgInv, TypeOK
<1>3. LockInv'
  BY <1>0, <1>m DEF LockInv, TypeOK, ArgInv, Locked, LockedLabels
<1>4. QueueInv'
  BY <1>0, <1>m DEF QueueInv, TypeOK, ArgInv
<1>5. PoppedInv'
  BY <1>0, <1>m DEF PoppedInv, TypeOK, ArgInv, InQueue
<1>6. SignalInv'
  BY <1>0, <1>m DEF SignalInv, TypeOK, ArgInv
<1>7. WaitInv'
  BY <1>0, <1>m DEF WaitInv, TypeOK, ArgInv, InQueue, Popped
<1>8. BranchInv'
  BY <1>0, <1>m DEF BranchInv, TypeOK, ArgInv, Locked, LockedLabels, LockInv
<1>9. NegativeSCountsQueue'
  BY <1>0, <1>m DEF NegativeSCountsQueue, Unserved, TypeOK, ArgInv, Adding, Popping, Locked, LockedLabels, LockInv
<1> QED
  BY <1>1, <1>2, <1>3, <1>4, <1>5, <1>6, <1>7, <1>8, <1>9 DEF IInv

LEMMA AcqDropKeepsIInv ==
    ASSUME IInv, NEW t \in Threads, AcqDrop(t)
    PROVE  IInv'
<1> USE SemaphoreAssumption DEF AcqDrop, At, Goto, Return, CompareAndSwap, Unlock
<1>0. TypeOK /\ ArgInv /\ LockInv /\ QueueInv /\ PoppedInv /\ SignalInv /\ WaitInv /\ BranchInv /\ NegativeSCountsQueue
  BY DEF IInv
<1>m. sem[t] \in Sems
  BY <1>0 DEF TypeOK, ArgInv
<1>1. TypeOK'
  BY <1>0, <1>m DEF TypeOK, ArgInv, AcqLabels, RelLabels
<1>2. ArgInv'
  BY <1>0, <1>m DEF ArgInv, TypeOK
<1>3. LockInv'
  BY <1>0, <1>m DEF LockInv, TypeOK, ArgInv, Locked, LockedLabels
<1>4. QueueInv'
  BY <1>0, <1>m DEF QueueInv, TypeOK, ArgInv
<1>5. PoppedInv'
  BY <1>0, <1>m DEF PoppedInv, TypeOK, ArgInv, InQueue
<1>6. SignalInv'
  BY <1>0, <1>m DEF SignalInv, TypeOK, ArgInv
<1>7. WaitInv'
  BY <1>0, <1>m DEF WaitInv, TypeOK, ArgInv, InQueue, Popped
<1>8. BranchInv'
  BY <1>0, <1>m DEF BranchInv, TypeOK, ArgInv, Locked, LockedLabels, LockInv
<1>9. NegativeSCountsQueue'
  BY <1>0, <1>m DEF NegativeSCountsQueue, Unserved, TypeOK, ArgInv, Adding, Popping, Locked, LockedLabels, LockInv
<1> QED
  BY <1>1, <1>2, <1>3, <1>4, <1>5, <1>6, <1>7, <1>8, <1>9 DEF IInv

LEMMA AcqWaitKeepsIInv ==
    ASSUME IInv, NEW t \in Threads, AcqWait(t)
    PROVE  IInv'
<1> USE SemaphoreAssumption DEF AcqWait, At, Goto, Return, CompareAndSwap, Unlock
<1>0. TypeOK /\ ArgInv /\ LockInv /\ QueueInv /\ PoppedInv /\ SignalInv /\ WaitInv /\ BranchInv /\ NegativeSCountsQueue
  BY DEF IInv
<1>m. sem[t] \in Sems
  BY <1>0 DEF TypeOK, ArgInv
<1>1. TypeOK'
  BY <1>0, <1>m DEF TypeOK, ArgInv, AcqLabels, RelLabels
<1>2. ArgInv'
  BY <1>0, <1>m DEF ArgInv, TypeOK
<1>3. LockInv'
  BY <1>0, <1>m DEF LockInv, TypeOK, ArgInv, Locked, LockedLabels
<1>4. QueueInv'
  BY <1>0, <1>m DEF QueueInv, TypeOK, ArgInv
<1>5. PoppedInv'
  BY <1>0, <1>m DEF PoppedInv, TypeOK, ArgInv, InQueue
<1>6. SignalInv'
  BY <1>0, <1>m DEF SignalInv, TypeOK, ArgInv
<1>7. WaitInv'
  BY <1>0, <1>m DEF WaitInv, TypeOK, ArgInv, InQueue, Popped
<1>8. BranchInv'
  BY <1>0, <1>m DEF BranchInv, TypeOK, ArgInv, Locked, LockedLabels, LockInv
<1>9. NegativeSCountsQueue'
  BY <1>0, <1>m DEF NegativeSCountsQueue, Unserved, TypeOK, ArgInv, Adding, Popping, Locked, LockedLabels, LockInv
<1> QED
  BY <1>1, <1>2, <1>3, <1>4, <1>5, <1>6, <1>7, <1>8, <1>9 DEF IInv

LEMMA CallReleaseKeepsIInv ==
    ASSUME IInv, NEW t \in Threads, NEW m \in Sems, CallRelease(t, m)
    PROVE  IInv'
<1> USE SemaphoreAssumption DEF CallRelease, At, Goto, Return, CompareAndSwap, Unlock
<1>0. TypeOK /\ ArgInv /\ LockInv /\ QueueInv /\ PoppedInv /\ SignalInv /\ WaitInv /\ BranchInv /\ NegativeSCountsQueue
  BY DEF IInv
<1>1. TypeOK'
  BY <1>0 DEF TypeOK, ArgInv, AcqLabels, RelLabels
<1>2. ArgInv'
  BY <1>0 DEF ArgInv, TypeOK
<1>3. LockInv'
  BY <1>0 DEF LockInv, TypeOK, ArgInv, Locked, LockedLabels
<1>4. QueueInv'
  BY <1>0 DEF QueueInv, TypeOK, ArgInv
<1>5. PoppedInv'
  BY <1>0 DEF PoppedInv, TypeOK, ArgInv, InQueue
<1>6. SignalInv'
  BY <1>0 DEF SignalInv, TypeOK, ArgInv
<1>7. WaitInv'
  BY <1>0 DEF WaitInv, TypeOK, ArgInv, InQueue, Popped
<1>8. BranchInv'
  BY <1>0 DEF BranchInv, TypeOK, ArgInv, Locked, LockedLabels, LockInv
<1>9. NegativeSCountsQueue'
  BY <1>0 DEF NegativeSCountsQueue, Unserved, TypeOK, ArgInv, Adding, Popping, Locked, LockedLabels, LockInv
<1> QED
  BY <1>1, <1>2, <1>3, <1>4, <1>5, <1>6, <1>7, <1>8, <1>9 DEF IInv

LEMMA RelCasKeepsIInv ==
    ASSUME IInv, NEW t \in Threads, RelCas(t)
    PROVE  IInv'
<1> USE SemaphoreAssumption DEF RelCas, At, Goto, Return, CompareAndSwap, Unlock
<1>0. TypeOK /\ ArgInv /\ LockInv /\ QueueInv /\ PoppedInv /\ SignalInv /\ WaitInv /\ BranchInv /\ NegativeSCountsQueue
  BY DEF IInv
<1>m. sem[t] \in Sems
  BY <1>0 DEF TypeOK, ArgInv
<1>1. TypeOK'
  BY <1>0, <1>m DEF TypeOK, ArgInv, AcqLabels, RelLabels
<1>2. ArgInv'
  BY <1>0, <1>m DEF ArgInv, TypeOK
<1>3. LockInv'
  BY <1>0, <1>m DEF LockInv, TypeOK, ArgInv, Locked, LockedLabels
<1>4. QueueInv'
  BY <1>0, <1>m DEF QueueInv, TypeOK, ArgInv
<1>5. PoppedInv'
  BY <1>0, PoppedStays
<1>6. SignalInv'
  BY <1>0, <1>m DEF SignalInv, TypeOK, ArgInv
<1>7. WaitInv'
  BY <1>0, <1>m DEF WaitInv, TypeOK, ArgInv, InQueue, Popped
<1>8. BranchInv'
  BY <1>0, <1>m DEF BranchInv, TypeOK, ArgInv, Locked, LockedLabels, LockInv
<1>9. NegativeSCountsQueue'
  BY <1>0, <1>m DEF NegativeSCountsQueue, Unserved, TypeOK, ArgInv, Adding, Popping, Locked, LockedLabels, LockInv
<1> QED
  BY <1>1, <1>2, <1>3, <1>4, <1>5, <1>6, <1>7, <1>8, <1>9 DEF IInv

LEMMA RelIncKeepsIInv ==
    ASSUME IInv, NEW t \in Threads, RelInc(t)
    PROVE  IInv'
<1> USE SemaphoreAssumption DEF RelInc, At, Goto, Return, CompareAndSwap, Unlock
<1>0. TypeOK /\ ArgInv /\ LockInv /\ QueueInv /\ PoppedInv /\ SignalInv /\ WaitInv /\ BranchInv /\ NegativeSCountsQueue
  BY DEF IInv
<1>m. sem[t] \in Sems
  BY <1>0 DEF TypeOK, ArgInv
<1>1. TypeOK'
  BY <1>0, <1>m DEF TypeOK, ArgInv, AcqLabels, RelLabels
<1>2. ArgInv'
  BY <1>0, <1>m DEF ArgInv, TypeOK
<1>3. LockInv'
  BY <1>0, <1>m DEF LockInv, TypeOK, ArgInv, Locked, LockedLabels
<1>4. QueueInv'
  BY <1>0, <1>m DEF QueueInv, TypeOK, ArgInv
<1>5. PoppedInv'
  <2>1. \E l \in {"relPop", "relFree"} : lpc' = [lpc EXCEPT ![t] = l]
    OBVIOUS
  <2>2. PICK l \in {"relPop", "relFree"} : lpc' = [lpc EXCEPT ![t] = l]
    BY <2>1
  <2>3. lpc[t] \notin {"acqWait", "relDrop", "relKill"} /\ l \notin {"relDrop", "relKill"}
    OBVIOUS
  <2>4. sem' = sem /\ UNCHANGED <<gthread, queue, pending>>
    OBVIOUS
  <2> QED
    BY <1>0, <2>2, <2>3, <2>4, PoppedStays
<1>6. SignalInv'
  BY <1>0, <1>m DEF SignalInv, TypeOK, ArgInv
<1>7. WaitInv'
  BY <1>0, <1>m DEF WaitInv, TypeOK, ArgInv, InQueue, Popped
<1>8. BranchInv'
  BY <1>0, <1>m DEF BranchInv, TypeOK, ArgInv, Locked, LockedLabels, LockInv
<1>9. NegativeSCountsQueue'
  BY <1>0, <1>m DEF NegativeSCountsQueue, Unserved, TypeOK, ArgInv, Adding, Popping, Locked, LockedLabels, LockInv
<1> QED
  BY <1>1, <1>2, <1>3, <1>4, <1>5, <1>6, <1>7, <1>8, <1>9 DEF IInv

LEMMA RelFreeKeepsIInv ==
    ASSUME IInv, NEW t \in Threads, RelFree(t)
    PROVE  IInv'
<1> USE SemaphoreAssumption DEF RelFree, At, Goto, Return, CompareAndSwap, Unlock
<1>0. TypeOK /\ ArgInv /\ LockInv /\ QueueInv /\ PoppedInv /\ SignalInv /\ WaitInv /\ BranchInv /\ NegativeSCountsQueue
  BY DEF IInv
<1>m. sem[t] \in Sems
  BY <1>0 DEF TypeOK, ArgInv
<1>1. TypeOK'
  BY <1>0, <1>m DEF TypeOK, ArgInv, AcqLabels, RelLabels
<1>2. ArgInv'
  BY <1>0, <1>m DEF ArgInv, TypeOK
<1>3. LockInv'
  BY <1>0, <1>m DEF LockInv, TypeOK, ArgInv, Locked, LockedLabels
<1>4. QueueInv'
  BY <1>0, <1>m DEF QueueInv, TypeOK, ArgInv
<1>5. PoppedInv'
  BY <1>0, PoppedStays
<1>6. SignalInv'
  BY <1>0, <1>m DEF SignalInv, TypeOK, ArgInv
<1>7. WaitInv'
  BY <1>0, <1>m DEF WaitInv, TypeOK, ArgInv, InQueue, Popped
<1>8. BranchInv'
  BY <1>0, <1>m DEF BranchInv, TypeOK, ArgInv, Locked, LockedLabels, LockInv
<1>9. NegativeSCountsQueue'
  BY <1>0, <1>m DEF NegativeSCountsQueue, Unserved, TypeOK, ArgInv, Adding, Popping, Locked, LockedLabels, LockInv
<1> QED
  BY <1>1, <1>2, <1>3, <1>4, <1>5, <1>6, <1>7, <1>8, <1>9 DEF IInv

LEMMA RelPopKeepsIInv ==
    ASSUME IInv, NEW t \in Threads, RelPop(t)
    PROVE  IInv'
<1> DEFINE q == queue[sem[t]]
           g == Head(q)
<1>0. TypeOK /\ ArgInv /\ LockInv /\ QueueInv /\ PoppedInv /\ SignalInv /\ WaitInv /\ BranchInv /\ NegativeSCountsQueue
  BY DEF IInv
<1>m. sem[t] \in Sems /\ ~killed /\ lpc[t] = "relPop"
  BY <1>0 DEF TypeOK, ArgInv, RelPop, At
(* The queue is not empty: the thread is the one that holds the word, and  *)
(* its S counts one more than it leaves behind.                            *)
<1>l. Popping(sem[t]) /\ ~Adding(sem[t])
  BY <1>0, <1>m DEF LockInv, Locked, LockedLabels, Adding, Popping
<1>n. S[sem[t]] \in Int /\ S[sem[t]] <= 0 /\ Len(q) = 1 - S[sem[t]] /\ q \in Seq(Threads)
  BY <1>0, <1>m, <1>l DEF NegativeSCountsQueue, Unserved, BranchInv, TypeOK
<1>e. q # <<>>
  BY <1>n
<1>f. /\ g = q[1] /\ g \in Threads
      /\ Tail(q) \in Seq(Threads)
      /\ Len(q) \in Nat /\ Len(q) >= 1 /\ Len(Tail(q)) = Len(q) - 1
      /\ \A k \in 1..Len(q) - 1 : Tail(q)[k] = q[k + 1]
  BY <1>n, <1>e, TailFacts
<1>s. /\ gthread' = [gthread EXCEPT ![t] = g]
      /\ queue' = [queue EXCEPT ![sem[t]] = Tail(q)]
      /\ lpc' = [lpc EXCEPT ![t] = "relDrop"]
      /\ UNCHANGED <<S, hold, masked, pending, killed, sem>>
  BY <1>e DEF RelPop, Goto
<1>w. /\ queue'[sem[t]] = Tail(q)
      /\ \A m \in Sems : m # sem[t] => queue'[m] = queue[m]
  BY <1>0, <1>m, <1>s DEF TypeOK
(* The thread it pops is asleep: it holds the word no more.                *)
<1>g. /\ g # t /\ sem[g] = sem[t] /\ g \notin pending
      /\ lpc[g] \in {"acqMask", "acqDrop", "acqWait"}
      /\ \A k \in 1..Len(q) : q[k] = g => k = 1
  BY <1>0, <1>m, <1>f DEF QueueInv
<1>a. lpc[g] = "acqWait"
  BY <1>0, <1>m, <1>f, <1>g DEF LockInv, Locked, LockedLabels
<1>u. \A r \in Threads : gthread[r] # g
  <2> SUFFICES ASSUME NEW r \in Threads, gthread[r] = g
               PROVE  FALSE
    OBVIOUS
  <2>1. ~InQueue(g, sem[g])
    BY <1>0, <1>f, SemaphoreAssumption DEF PoppedInv
  <2>2. InQueue(g, sem[t])
    BY <1>f DEF InQueue
  <2> QED
    BY <1>g, <2>1, <2>2
<1> HIDE DEF q, g
<1>k. \A k \in 1..Len(q) - 1 : k + 1 \in 1..Len(q) /\ Tail(q)[k] = q[k + 1]
  BY <1>f
<1>1. TypeOK'
  BY <1>0, <1>m, <1>f, <1>s DEF TypeOK, AcqLabels, RelLabels
<1>2. ArgInv'
  BY <1>0, <1>m, <1>s DEF ArgInv, TypeOK
<1>3. LockInv'
  BY <1>0, <1>m, <1>s DEF LockInv, TypeOK, Locked, LockedLabels
<1>4. QueueInv'
  <2> SUFFICES ASSUME NEW m \in Sems
               PROVE  /\ \A k \in 1..Len(queue'[m]) :
                            /\ sem'[queue'[m][k]] = m
                            /\ lpc'[queue'[m][k]] \in {"acqMask", "acqDrop", "acqWait"}
                            /\ queue'[m][k] \notin pending'
                      /\ \A k, l \in 1..Len(queue'[m]) : queue'[m][k] = queue'[m][l] => k = l
    BY DEF QueueInv
  <2>1. \A n \in Sems : \A k \in 1..Len(queue[n]) : queue[n][k] # t
    BY <1>0, <1>m DEF QueueInv
  <2>2. CASE m # sem[t]
    BY <1>0, <1>s, <1>w, <2>1, <2>2 DEF QueueInv, TypeOK
  <2>3. CASE m = sem[t]
    <3>1. \A k \in 1..Len(q) :
             /\ sem'[q[k]] = m /\ lpc'[q[k]] \in {"acqMask", "acqDrop", "acqWait"}
             /\ q[k] \notin pending'
      BY <1>0, <1>s, <2>1, <2>3 DEF QueueInv, TypeOK, q
    <3>2. \A k, l \in 1..Len(q) : q[k] = q[l] => k = l
      BY <1>0, <2>3 DEF QueueInv, q
    <3>3. \A k \in 1..Len(queue'[m]) : k \in 1..Len(q) - 1 /\ queue'[m][k] = q[k + 1]
      BY <1>f, <1>w, <2>3
    <3> QED
      BY <1>f, <1>k, <3>1, <3>2, <3>3
  <2> QED
    BY <2>2, <2>3
(* Who is off a queue stays off it, and the popped thread gets off it.     *)
<1>o. ASSUME NEW v \in Threads, NEW m \in Sems,
             NEW k \in 1..Len(queue'[m]), queue'[m][k] = v
      PROVE  InQueue(v, m)
  <2>1. CASE m # sem[t]
    BY <1>w, <1>o, <2>1 DEF InQueue
  <2>2. CASE m = sem[t]
    <3>1. k \in 1..Len(q) - 1 /\ Tail(q)[k] = v
      BY <1>w, <1>f, <1>o, <2>2
    <3> QED
      BY <1>k, <2>2, <3>1 DEF InQueue, q
  <2> QED
    BY <2>1, <2>2
<1>p. ASSUME NEW k \in 1..Len(queue'[sem[t]]), queue'[sem[t]][k] = g
      PROVE  FALSE
  <2>1. k \in 1..Len(q) - 1 /\ Tail(q)[k] = g
    BY <1>f, <1>w, <1>p
  <2>2. k + 1 \in 1..Len(q) /\ q[k + 1] = g
    BY <1>k, <2>1
  <2> QED
    BY <1>f, <1>g, <2>1, <2>2
<1>5. PoppedInv'
  <2> SUFFICES ASSUME NEW r \in Threads
               PROVE  /\ gthread'[r] # NoThread <=> lpc'[r] \in {"relDrop", "relKill"}
                      /\ gthread'[r] # NoThread =>
                            /\ lpc'[gthread'[r]] = "acqWait"
                            /\ gthread'[r] \notin pending'
                            /\ ~InQueue(gthread[r], sem[gthread[r]])'
                            /\ \A u \in Threads : gthread'[u] = gthread'[r] => u = r
    BY DEF PoppedInv
  <2>1. CASE r = t
    <3>1. gthread'[r] = g /\ lpc'[r] = "relDrop" /\ g # NoThread
      BY <1>0, <1>f, <1>s, <2>1, SemaphoreAssumption DEF TypeOK
    <3>2. lpc'[g] = "acqWait" /\ g \notin pending'
      BY <1>0, <1>f, <1>g, <1>a, <1>s DEF TypeOK
    <3>3. ~InQueue(gthread[r], sem[gthread[r]])'
      BY <1>g, <1>p, <1>s, <3>1 DEF InQueue
    <3>4. \A u \in Threads : gthread'[u] = g => u = t
      BY <1>0, <1>s, <1>u DEF TypeOK
    <3> QED
      BY <2>1, <3>1, <3>2, <3>3, <3>4
  <2>2. CASE r # t
    <3>1. gthread'[r] = gthread[r] /\ lpc'[r] = lpc[r]
      BY <1>0, <1>s, <2>2 DEF TypeOK
    <3>2. gthread[r] # NoThread <=> lpc[r] \in {"relDrop", "relKill"}
      BY <1>0 DEF PoppedInv
    <3>3. ASSUME gthread[r] # NoThread
          PROVE  /\ lpc'[gthread[r]] = "acqWait" /\ gthread[r] \notin pending'
                 /\ ~InQueue(gthread[r], sem[gthread[r]])'
                 /\ \A u \in Threads : gthread'[u] = gthread[r] => u = r
      <4>1. gthread[r] \in Threads /\ gthread[r] # t /\ lpc[gthread[r]] = "acqWait"
        BY <1>0, <1>m, <3>3 DEF PoppedInv, TypeOK
      <4>2. sem[gthread[r]] \in Sems /\ ~InQueue(gthread[r], sem[gthread[r]])
        BY <1>0, <3>3, <4>1 DEF PoppedInv, ArgInv, TypeOK
      <4>3. ~InQueue(gthread[r], sem[gthread[r]])'
        <5>1. gthread'[r] = gthread[r] /\ sem'[gthread[r]] = sem[gthread[r]]
          BY <1>s, <3>1
        <5>2. ASSUME NEW k \in 1..Len(queue'[sem[gthread[r]]]),
                     queue'[sem[gthread[r]]][k] = gthread[r]
              PROVE  FALSE
          BY <1>o, <4>1, <4>2, <5>2
        <5> QED
          BY <5>1, <5>2 DEF InQueue
      <4>4. gthread[r] # g
        BY <1>u
      <4> QED
        BY <1>0, <1>s, <3>3, <4>1, <4>3, <4>4 DEF PoppedInv, TypeOK
    <3> QED
      BY <3>1, <3>2, <3>3
  <2> QED
    BY <2>1, <2>2
<1>6. SignalInv'
  BY <1>0, <1>m, <1>s DEF SignalInv, TypeOK
<1>7. WaitInv'
  <2> SUFFICES ASSUME NEW v \in Threads, lpc'[v] \in {"acqMask", "acqDrop", "acqWait"}
               PROVE  InQueue(v, sem[v])' \/ Popped(v)' \/ v \in pending'
    BY DEF WaitInv
  <2>1. v # t /\ lpc'[v] = lpc[v] /\ sem'[v] = sem[v] /\ sem[v] \in Sems
    BY <1>0, <1>s DEF TypeOK, ArgInv
  <2>2. InQueue(v, sem[v]) \/ Popped(v) \/ v \in pending
    BY <1>0, <2>1 DEF WaitInv
  <2>3. CASE v \in pending
    BY <1>s, <2>3
  <2>4. CASE Popped(v)
    <3>1. PICK r \in Threads : gthread[r] = v
      BY <2>4 DEF Popped
    <3>2. r # t
      BY <1>0, <1>m, <3>1, SemaphoreAssumption DEF PoppedInv
    <3> QED
      BY <1>0, <1>s, <3>1, <3>2 DEF Popped, TypeOK
  <2>5. CASE v = g
    BY <1>0, <1>s, <2>5 DEF Popped, TypeOK
  <2>6. CASE InQueue(v, sem[v]) /\ v # g
    <3>1. CASE sem[v] # sem[t]
      BY <1>w, <2>1, <2>6, <3>1 DEF InQueue
    <3>2. CASE sem[v] = sem[t]
      <4>1. PICK k \in 1..Len(q) : q[k] = v
        BY <2>6, <3>2 DEF InQueue, q
      <4>2. k - 1 \in 1..Len(q) - 1 /\ k \in Int
        BY <1>f, <2>6, <4>1
      <4>3. Tail(q)[k - 1] = v
        BY <1>f, <4>1, <4>2
      <4> QED
        BY <1>f, <1>w, <2>1, <3>2, <4>2, <4>3 DEF InQueue
    <3> QED
      BY <3>1, <3>2
  <2> QED
    BY <2>2, <2>3, <2>4, <2>5, <2>6
<1>8. BranchInv'
  BY <1>0, <1>s DEF BranchInv, TypeOK
<1>9. NegativeSCountsQueue'
  <2> SUFFICES ASSUME NEW m \in Sems
               PROVE  Len(queue'[m]) = Unserved(m)'
    BY DEF NegativeSCountsQueue
  <2>1. CASE m # sem[t]
    <3>1. (Adding(m)' <=> Adding(m)) /\ (Popping(m)' <=> Popping(m))
      BY <1>0, <1>s, <2>1 DEF TypeOK, Adding, Popping
    <3> QED
      BY <1>0, <1>s, <1>w, <2>1, <3>1 DEF NegativeSCountsQueue, Unserved
  <2>2. CASE m = sem[t]
    <3>1. ~Adding(m)' /\ ~Popping(m)'
      BY <1>0, <1>m, <1>s, <2>2 DEF TypeOK, LockInv, Locked, LockedLabels, Adding, Popping
    <3> QED
      BY <1>f, <1>n, <1>s, <1>w, <2>2, <3>1 DEF Unserved
  <2> QED
    BY <2>1, <2>2
<1> QED
  BY <1>1, <1>2, <1>3, <1>4, <1>5, <1>6, <1>7, <1>8, <1>9 DEF IInv

LEMMA RelDropKeepsIInv ==
    ASSUME IInv, NEW t \in Threads, RelDrop(t)
    PROVE  IInv'
<1> USE SemaphoreAssumption DEF RelDrop, At, Goto, Return, CompareAndSwap, Unlock
<1>0. TypeOK /\ ArgInv /\ LockInv /\ QueueInv /\ PoppedInv /\ SignalInv /\ WaitInv /\ BranchInv /\ NegativeSCountsQueue
  BY DEF IInv
<1>m. sem[t] \in Sems
  BY <1>0 DEF TypeOK, ArgInv
<1>1. TypeOK'
  BY <1>0, <1>m DEF TypeOK, ArgInv, AcqLabels, RelLabels
<1>2. ArgInv'
  BY <1>0, <1>m DEF ArgInv, TypeOK
<1>3. LockInv'
  BY <1>0, <1>m DEF LockInv, TypeOK, ArgInv, Locked, LockedLabels
<1>4. QueueInv'
  BY <1>0, <1>m DEF QueueInv, TypeOK, ArgInv
<1>5. PoppedInv'
  BY <1>0, <1>m DEF PoppedInv, TypeOK, ArgInv, InQueue
<1>6. SignalInv'
  BY <1>0, <1>m DEF SignalInv, TypeOK, ArgInv
<1>7. WaitInv'
  BY <1>0, <1>m DEF WaitInv, TypeOK, ArgInv, InQueue, Popped
<1>8. BranchInv'
  BY <1>0, <1>m DEF BranchInv, TypeOK, ArgInv, Locked, LockedLabels, LockInv
<1>9. NegativeSCountsQueue'
  BY <1>0, <1>m DEF NegativeSCountsQueue, Unserved, TypeOK, ArgInv, Adding, Popping, Locked, LockedLabels, LockInv
<1> QED
  BY <1>1, <1>2, <1>3, <1>4, <1>5, <1>6, <1>7, <1>8, <1>9 DEF IInv

LEMMA RelKillKeepsIInv ==
    ASSUME IInv, NEW t \in Threads, RelKill(t)
    PROVE  IInv'
<1> DEFINE g == gthread[t]
<1>0. TypeOK /\ ArgInv /\ LockInv /\ QueueInv /\ PoppedInv /\ SignalInv /\ WaitInv /\ BranchInv /\ NegativeSCountsQueue
  BY DEF IInv
<1>m. sem[t] \in Sems /\ ~killed /\ lpc[t] = "relKill"
  BY <1>0 DEF TypeOK, ArgInv, RelKill, At
<1>g. g \in Threads /\ g # t /\ lpc[g] = "acqWait" /\ g \notin pending /\ g \in masked
  BY <1>0, <1>m, SemaphoreAssumption DEF PoppedInv, SignalInv, TypeOK
<1>s. /\ pending' = pending \cup {g} /\ killed' = killed
      /\ gthread' = [gthread EXCEPT ![t] = NoThread]
      /\ lpc' = [lpc EXCEPT ![t] = "out"] /\ sem' = [sem EXCEPT ![t] = NoSem]
      /\ UNCHANGED <<S, hold, queue, masked>>
  BY <1>g DEF RelKill, Return
<1> HIDE DEF g
<1>1. TypeOK'
  BY <1>0, <1>m, <1>g, <1>s DEF TypeOK, AcqLabels, RelLabels
<1>2. ArgInv'
  BY <1>0, <1>m, <1>s, SemaphoreAssumption DEF ArgInv, TypeOK
<1>3. LockInv'
  <2>1. \A m \in Sems : Locked(m)' = Locked(m)
    BY <1>0, <1>m, <1>s, SemaphoreAssumption DEF TypeOK, Locked, LockedLabels
  <2> QED
    BY <1>0, <1>s, <2>1 DEF LockInv
<1>q. \A m \in Sems : ~InQueue(g, m)
  BY <1>0, <1>g, <1>m, SemaphoreAssumption DEF PoppedInv, QueueInv, InQueue, TypeOK, g
<1>4. QueueInv'
  <2>1. \A m \in Sems : \A k \in 1..Len(queue[m]) : queue[m][k] # t /\ queue[m][k] # g
    BY <1>0, <1>m, <1>q DEF QueueInv, InQueue
  <2> QED
    BY <1>0, <1>s, <2>1 DEF QueueInv, TypeOK
<1>5. PoppedInv'
  <2> SUFFICES ASSUME NEW r \in Threads
               PROVE  /\ gthread'[r] # NoThread <=> lpc'[r] \in {"relDrop", "relKill"}
                      /\ gthread'[r] # NoThread =>
                            /\ lpc'[gthread'[r]] = "acqWait"
                            /\ gthread'[r] \notin pending'
                            /\ ~InQueue(gthread[r], sem[gthread[r]])'
                            /\ \A u \in Threads : gthread'[u] = gthread'[r] => u = r
    BY DEF PoppedInv
  <2>1. CASE r = t
    BY <1>0, <1>s, <2>1 DEF TypeOK
  <2>2. CASE r # t /\ gthread[r] = NoThread
    BY <1>0, <1>s, <2>2 DEF PoppedInv, TypeOK
  <2>3. CASE r # t /\ gthread[r] # NoThread
    <3>1. gthread[r] \in Threads /\ gthread[r] # g /\ gthread[r] # t
      BY <1>0, <1>m, <2>3 DEF PoppedInv, TypeOK, g
    <3> QED
      BY <1>0, <1>s, <2>3, <3>1 DEF PoppedInv, TypeOK, InQueue
  <2> QED
    BY <2>1, <2>2, <2>3
<1>6. SignalInv'
  <2>1. ~killed'
    BY <1>m, <1>s
  <2>2. \A u \in pending' : lpc'[u] = "acqWait"
    BY <1>0, <1>m, <1>g, <1>s DEF SignalInv, TypeOK
  <2>3. \A u \in Threads : lpc'[u] \in {"acqDrop", "acqWait"} => u \in masked'
    BY <1>0, <1>s DEF SignalInv, TypeOK
  <2> QED
    BY <2>1, <2>2, <2>3 DEF SignalInv
<1>7. WaitInv'
  <2> SUFFICES ASSUME NEW u \in Threads, lpc'[u] \in {"acqMask", "acqDrop", "acqWait"}
               PROVE  InQueue(u, sem[u])' \/ Popped(u)' \/ u \in pending'
    BY DEF WaitInv
  <2>1. u # t /\ lpc'[u] = lpc[u] /\ sem'[u] = sem[u]
    BY <1>0, <1>s DEF TypeOK
  <2>2. InQueue(u, sem[u]) \/ Popped(u) \/ u \in pending
    BY <1>0, <2>1 DEF WaitInv
  <2>3. CASE InQueue(u, sem[u])
    BY <1>s, <2>1, <2>3 DEF InQueue
  <2>4. CASE Popped(u)
    BY <1>0, <1>s, <2>4 DEF Popped, TypeOK, g
  <2>5. CASE u \in pending
    BY <1>s, <2>5
  <2> QED
    BY <2>2, <2>3, <2>4, <2>5
<1>8. BranchInv'
  BY <1>0, <1>s DEF BranchInv, TypeOK
<1>9. NegativeSCountsQueue'
  BY <1>0, <1>m, <1>s, SemaphoreAssumption DEF NegativeSCountsQueue, Unserved, TypeOK, Adding, Popping
<1> QED
  BY <1>1, <1>2, <1>3, <1>4, <1>5, <1>6, <1>7, <1>8, <1>9 DEF IInv

(* Every step of every thread keeps the invariant.                         *)
LEMMA LibStepKeepsIInv ==
    ASSUME IInv, NEW t \in Threads, LibStep(t)
    PROVE  IInv'
BY AcqCasKeepsIInv, AcqDecKeepsIInv, AcqFreeKeepsIInv,
   AcqAddKeepsIInv, AcqMaskKeepsIInv, AcqDropKeepsIInv,
   AcqWaitKeepsIInv, RelCasKeepsIInv, RelIncKeepsIInv,
   RelFreeKeepsIInv, RelPopKeepsIInv, RelDropKeepsIInv,
   RelKillKeepsIInv
DEF LibStep, AcqStep, RelStep

LEMMA NextKeepsIInv ==
    ASSUME IInv, [Next]_semVars
    PROVE  IInv'
<1>1. ASSUME NEW t \in Threads, NEW m \in Sems, CallAcquire(t, m)
      PROVE  IInv'
  BY <1>1, CallAcquireKeepsIInv
<1>2. ASSUME NEW t \in Threads, NEW m \in Sems, CallRelease(t, m)
      PROVE  IInv'
  BY <1>2, CallReleaseKeepsIInv
<1>3. ASSUME NEW t \in Threads, LibStep(t)
      PROVE  IInv'
  BY <1>3, LibStepKeepsIInv
<1>4. CASE UNCHANGED semVars
  BY <1>4 DEF semVars, IInv, TypeOK, ArgInv, LockInv, Locked, QueueInv, PoppedInv, InQueue,
              SignalInv, WaitInv, Popped, BranchInv, NegativeSCountsQueue, Unserved,
              Adding, Popping
<1> QED
  BY <1>1, <1>2, <1>3, <1>4 DEF Next

THEOREM IInvAlways == Spec => []IInv
<1>1. Init => IInv
  BY InitIInv
<1>2. IInv /\ [Next]_semVars => IInv'
  BY NextKeepsIInv
<1> QED
  BY <1>1, <1>2, PTL DEF Spec

-----------------------------------------------------------------------------
(***************************************************************************)
(* What the invariant says to the callers.                                 *)
(***************************************************************************)

(* mutex->hold is a lock: 1 exactly while one thread is between its        *)
(* compare-and-swap and its store of 0 (pa3.c:141-151, 169-181).           *)
THEOREM HoldIsALockAlways == Spec => []HoldIsALock
<1>1. IInv => HoldIsALock
  <2> SUFFICES ASSUME IInv, NEW m \in Sems
               PROVE  hold[m] = Cardinality(Locked(m))
    BY DEF HoldIsALock
  <2>1. /\ hold[m] \in {0, 1}
        /\ \A t, u \in Locked(m) : t = u
        /\ hold[m] = 1 <=> Locked(m) # {}
    BY DEF IInv, TypeOK, LockInv
  <2>2. CASE Locked(m) = {}
    BY <2>1, <2>2, FS_EmptySet
  <2>3. CASE Locked(m) # {}
    <3>1. PICK t \in Locked(m) : Locked(m) = {t}
      BY <2>1, <2>3
    <3>2. Cardinality({t}) = 1
      BY FS_Singleton
    <3> QED
      BY <2>1, <2>3, <3>1, <3>2
  <2> QED
    BY <2>2, <2>3
<1> QED
  BY <1>1, IInvAlways, PTL

(* The thread asleep in sigwaitinfo (pa3.c:149) is owed exactly one signal. *)
THEOREM WakeUpComesOnceAlways == Spec => []WakeUpComesOnce
<1>1. IInv => WakeUpComesOnce
  <2> SUFFICES ASSUME IInv, NEW t \in Threads, lpc[t] = "acqWait"
               PROVE  /\ Queued(t) \/ Popped(t) \/ t \in pending
                      /\ ~(Queued(t) /\ Popped(t))
                      /\ ~(t \in pending /\ (Queued(t) \/ Popped(t)))
                      /\ \A r1, r2 \in Threads :
                            gthread[r1] = t /\ gthread[r2] = t => r1 = r2
    BY DEF WakeUpComesOnce
  <2>1. sem[t] \in Sems
    BY DEF IInv, TypeOK, ArgInv
  <2>2. Queued(t) <=> InQueue(t, sem[t])
    BY <2>1 DEF IInv, QueueInv, Queued, InQueue
  <2>3. Queued(t) => t \notin pending
    BY <2>1, <2>2 DEF IInv, QueueInv, InQueue
  <2>4. Popped(t) => t \notin pending /\ ~InQueue(t, sem[t])
    BY SemaphoreAssumption DEF IInv, PoppedInv, Popped
  <2>5. \A r1, r2 \in Threads : gthread[r1] = t /\ gthread[r2] = t => r1 = r2
    BY SemaphoreAssumption DEF IInv, PoppedInv
  <2>6. Queued(t) \/ Popped(t) \/ t \in pending
    BY <2>2 DEF IInv, WaitInv
  <2> QED
    BY <2>2, <2>3, <2>4, <2>5, <2>6
<1> QED
  BY <1>1, IInvAlways, PTL

(* The signal of pthread_kill (pa3.c:178) finds its thread asleep, and     *)
(* never ends the process.                                                 *)
THEOREM SignalsWakeSleepersAlways == Spec => []SignalsWakeSleepers
<1>1. IInv => SignalsWakeSleepers
  BY DEF IInv, SignalInv, SignalsWakeSleepers
<1> QED
  BY <1>1, IInvAlways, PTL

(* The node that release_mutex reads after the store to hold (pa3.c:175-   *)
(* 178) is in the frame of a thread that has not left acquire_mutex.       *)
THEOREM GthreadIsInItsFrameAlways == Spec => []GthreadIsInItsFrame
<1>1. IInv => GthreadIsInItsFrame
  BY DEF IInv, PoppedInv, GthreadIsInItsFrame
<1> QED
  BY <1>1, IInvAlways, PTL

(* A releaser that sees S <= 0 (pa3.c:171) has somebody to wake: the       *)
(* branch of pa3.c:173 that would return with hold set is never taken.     *)
THEOREM NegativeSCountsQueueAlways == Spec => []NegativeSCountsQueue
<1>1. IInv => NegativeSCountsQueue
  BY DEF IInv
<1> QED
  BY <1>1, IInvAlways, PTL

-----------------------------------------------------------------------------
(* For the callers: the threads that have decremented S of m and have not  *)
(* been let through.                                                       *)
Waiting(m) ==
    {t \in Threads : sem[t] = m /\ lpc[t] \in {"acqAdd", "acqMask", "acqDrop", "acqWait"}}

(* They are at least as many as the permits that S is short of: those in   *)
(* the queue are different threads, and one may be about to join it.       *)
LEMMA WaitersOweS ==
    ASSUME IInv, NEW m \in Sems
    PROVE  /\ IsFiniteSet(Waiting(m)) /\ Cardinality(Waiting(m)) \in Nat
           /\ Cardinality(Waiting(m)) >= -S[m]
<1> DEFINE q == queue[m]
           W == Waiting(m)
<1>1. S[m] \in Int /\ Len(q) \in Nat /\ Len(q) = Unserved(m)
  BY DEF IInv, TypeOK, NegativeSCountsQueue
<1>2. IsFiniteSet(W) /\ Cardinality(W) \in Nat
  BY SemaphoreAssumption, FS_Subset, FS_CardinalityType DEF Waiting
<1>3. /\ q \in [1..Len(q) -> W]
      /\ \A k, l \in 1..Len(q) : q[k] = q[l] => k = l
      /\ \A k \in 1..Len(q) : lpc[q[k]] # "acqAdd"
  <2>1. q \in [1..Len(q) -> Threads]
    BY DEF IInv, TypeOK
  <2>2. \A k \in 1..Len(q) : q[k] \in W /\ lpc[q[k]] # "acqAdd"
    BY <2>1 DEF IInv, QueueInv, Waiting
  <2>3. \A k, l \in 1..Len(q) : q[k] = q[l] => k = l
    BY DEF IInv, QueueInv
  <2> HIDE DEF q, W
  <2> QED
    BY <2>1, <2>2, <2>3
<1>4. IsFiniteSet(1..Len(q)) /\ Cardinality(1..Len(q)) = Len(q)
  BY <1>1, FS_Interval
<1> HIDE DEF q, W
<1>5. Len(q) <= Cardinality(W)
  <2>1. q \in Injection(1..Len(q), W)
    BY <1>3 DEF Injection, IsInjective
  <2> QED
    BY <1>2, <1>4, <2>1, FS_Injection
<1>6. CASE Adding(m)
  <2>1. PICK a \in Threads : sem[a] = m /\ lpc[a] = "acqAdd"
    BY <1>6 DEF Adding
  <2>2. a \in W
    BY <2>1 DEF Waiting, W
  <2>3. IsFiniteSet(W \ {a}) /\ Cardinality(W \ {a}) = Cardinality(W) - 1
    BY <1>2, <2>2, FS_RemoveElement
  <2>4. q \in Injection(1..Len(q), W \ {a})
    BY <1>3, <2>1 DEF Injection, IsInjective
  <2>5. Len(q) <= Cardinality(W) - 1
    BY <1>4, <2>3, <2>4, FS_Injection
  <2> QED
    BY <1>1, <1>2, <1>6, <2>5 DEF Unserved, W
<1>7. CASE ~Adding(m)
  BY <1>1, <1>2, <1>5, <1>7 DEF Unserved, W
<1> QED
  BY <1>6, <1>7

-----------------------------------------------------------------------------
(* The mutex of pa3.c implements a first-come, first-served counting       *)
(* semaphore, for any number of threads and of instances and for every     *)
(* caller: an acquire takes effect at the decrement of S, a release at its *)
(* increment, and everything else a thread does is invisible but for the   *)
(* return from the call.                                                   *)

\* What FifoSemaphore sees of the state: waiters, op and free.
Line == [m \in Sems |-> FifoWaiters(m)]
Ops == [t \in Threads |-> FifoOp(t)]
Frees == [m \in Sems |-> FifoFree(m)]

(* One thread at a time is between its compare-and-swap and its unlock.    *)
LEMMA LockedAlone ==
    ASSUME IInv, NEW t \in Threads, NEW u \in Threads,
           lpc[t] \in LockedLabels, lpc[u] \in LockedLabels, sem[u] = sem[t]
    PROVE  u = t
<1>1. sem[t] \in Sems
  BY DEF IInv, TypeOK, ArgInv, LockedLabels
<1>2. t \in Locked(sem[t]) /\ u \in Locked(sem[t])
  BY DEF Locked
<1> QED
  BY <1>1, <1>2 DEF IInv, LockInv

(* Where nobody is about to link or unlink, the line is the queue.         *)
LEMMA LineIsQueue ==
    ASSUME NEW m, Adders(m) = {}, Poppers(m) = {}
    PROVE  FifoWaiters(m) = queue[m]
BY DEF FifoWaiters

(* The only member of a set is the one that is chosen.                     *)
LEMMA TheOneOfOne ==
    ASSUME NEW T, NEW t, T = {t}
    PROVE  T # {} /\ TheOne(T) = t
BY DEF TheOne

(* A thread that has decremented S below 0 is in line before it is linked  *)
(* (pa3.c:143-145).                                                        *)
LEMMA AdderIsInLine ==
    ASSUME IInv, NEW t \in Threads, lpc[t] = "acqAdd"
    PROVE  FifoWaiters(sem[t]) = Append(queue[sem[t]], t)
<1>1. Adders(sem[t]) = {t}
  BY LockedAlone DEF Adders, LockedLabels
<1> QED
  BY <1>1, TheOneOfOne DEF FifoWaiters

(* The thread a releaser is about to unlink has left the line (pa3.c:171). *)
LEMMA PoppedIsOutOfLine ==
    ASSUME IInv, NEW t \in Threads, lpc[t] = "relPop"
    PROVE  FifoWaiters(sem[t]) = Tail(queue[sem[t]])
<1>1. t \in Poppers(sem[t])
  BY DEF Poppers
<1>2. Adders(sem[t]) = {}
  BY LockedAlone DEF Adders, LockedLabels
<1> QED
  BY <1>1, <1>2 DEF FifoWaiters

(* Who is about to unlink the first node finds one.                        *)
LEMMA PoppersFindSomebody ==
    ASSUME IInv, NEW t \in Threads, lpc[t] = "relPop"
    PROVE  queue[sem[t]] # <<>>
<1> DEFINE m == sem[t]
<1>1. m \in Sems /\ S[m] \in Int /\ S[m] <= 0
  BY DEF IInv, TypeOK, ArgInv, BranchInv
<1>2. Popping(m) /\ ~Adding(m)
  BY LockedAlone DEF Popping, Adding, LockedLabels
<1>3. Len(queue[m]) = 1 - S[m]
  BY <1>1, <1>2 DEF IInv, NegativeSCountsQueue, Unserved
<1>4. Len(<<>>) = 0
  BY EmptySeq
<1> QED
  BY <1>1, <1>3, <1>4

(* LineIsQueue, in the next state.                                         *)
LEMMA NextLineIsQueue ==
    ASSUME NEW m, Adders(m)' = {}, Poppers(m)' = {}
    PROVE  FifoWaiters(m)' = queue'[m]
BY DEF FifoWaiters

-----------------------------------------------------------------------------
(* A step of thread t that neither begins nor ends a link or an unlink     *)
(* leaves the line alone, and what the other threads do.                   *)
LEMMA QuietStep ==
    ASSUME NEW t \in Threads, queue' = queue,
           \A u \in Threads \ {t} : lpc'[u] = lpc[u] /\ sem'[u] = sem[u],
           lpc[t] \notin {"acqAdd", "relPop"}, lpc'[t] \notin {"acqAdd", "relPop"}
    PROVE  /\ \A m : FifoWaiters(m)' = FifoWaiters(m)
           /\ Line' = Line
           /\ \A u \in Threads \ {t} : FifoOp(u)' = FifoOp(u)
<1>1. \A m : Adders(m)' = Adders(m) /\ Poppers(m)' = Poppers(m)
  BY DEF Adders, Poppers
<1>2. \A m : FifoWaiters(m)' = FifoWaiters(m)
  BY <1>1 DEF FifoWaiters
<1>3. Line' = Line
  BY <1>2 DEF Line
<1>4. ASSUME NEW u \in Threads \ {t} PROVE FifoOp(u)' = FifoOp(u)
  <2>1. InLine(u)' = InLine(u)
    BY <1>2 DEF InLine
  <2> QED
    BY <2>1 DEF FifoOp
<1> QED
  BY <1>2, <1>3, <1>4

(* If the others go on doing what they do, only t shows.                   *)
LEMMA OpsUpdate ==
    ASSUME NEW t \in Threads, \A u \in Threads \ {t} : FifoOp(u)' = FifoOp(u)
    PROVE  Ops' = [Ops EXCEPT ![t] = FifoOp(t)']
BY DEF Ops

(* Permits only change with S.                                             *)
LEMMA FreesStay ==
    ASSUME S' = S
    PROVE  Frees' = Frees
BY DEF Frees, FifoFree

(* What t does is told from its statement alone, unless it is queueing.    *)
LEMMA PlainOp ==
    ASSUME NEW t
    PROVE  /\ lpc[t] = "out" => FifoOp(t) = "idle"
           /\ lpc[t] \in {"acqCas", "acqDec"} => FifoOp(t) = "acquire"
           /\ lpc[t] \in {"relCas", "relInc"} => FifoOp(t) = "release"
           /\ lpc[t] \in {"acqFree", "relFree", "relPop", "relDrop", "relKill"} =>
                 FifoOp(t) = "done"
BY DEF FifoOp

(* PlainOp, in the next state.                                             *)
LEMMA NextPlainOp ==
    ASSUME NEW t
    PROVE  /\ lpc'[t] = "out" => FifoOp(t)' = "idle"
           /\ lpc'[t] \in {"acqCas", "acqDec"} => FifoOp(t)' = "acquire"
           /\ lpc'[t] \in {"relCas", "relInc"} => FifoOp(t)' = "release"
           /\ lpc'[t] \in {"acqFree", "relFree", "relPop", "relDrop", "relKill"} =>
                 FifoOp(t)' = "done"
BY DEF FifoOp

-----------------------------------------------------------------------------
(* The steps that only t itself can tell from nothing.                     *)
LEMMA Stutters ==
    ASSUME NEW t \in Threads, Frees' = Frees, Line' = Line, sem' = sem,
           \A u \in Threads \ {t} : FifoOp(u)' = FifoOp(u), FifoOp(t)' = FifoOp(t)
    PROVE  UNCHANGED Fifo!vars
<1>1. Ops' = Ops
  BY DEF Ops
<1> QED
  BY <1>1 DEF Fifo!vars, Frees, Line, Ops

(* Entering the library is a call.                                         *)
LEMMA CallRefines ==
    ASSUME IInv, NEW t \in Threads, NEW m \in Sems, CallAcquire(t, m) \/ CallRelease(t, m)
    PROVE  Fifo!Call(t, m, "acquire") \/ Fifo!Call(t, m, "release")
<1> USE DEF CallAcquire, CallRelease, At
<1>0. TypeOK
  BY DEF IInv
<1>1. /\ Line' = Line
      /\ \A u \in Threads \ {t} : FifoOp(u)' = FifoOp(u)
  BY <1>0, QuietStep DEF TypeOK
<1>2. Frees' = Frees
  BY FreesStay
<1>3. Ops' = [Ops EXCEPT ![t] = FifoOp(t)']
  BY <1>1, OpsUpdate
<1>4. Ops[t] = "idle"
  BY PlainOp DEF Ops
<1>5. FifoOp(t)' = "acquire" \/ FifoOp(t)' = "release"
  BY <1>0, NextPlainOp DEF TypeOK
<1>6. sem' = [sem EXCEPT ![t] = m]
  OBVIOUS
<1> QED
  BY <1>1, <1>2, <1>3, <1>4, <1>5, <1>6 DEF Fifo!Call, Line, Ops, Frees

(* A sleeper with a signal has left the line, so that its wait is over.    *)
LEMMA SignalledIsServed ==
    ASSUME IInv, NEW t \in Threads, t \in pending
    PROVE  FifoOp(t) = "done"
<1> DEFINE m == sem[t]
<1>1. lpc[t] = "acqWait" /\ m \in Sems
  BY DEF IInv, TypeOK, SignalInv, ArgInv
<1>2. /\ queue[m] \in Seq(Threads)
      /\ \A k \in 1..Len(queue[m]) : queue[m][k] # t
  BY <1>1 DEF IInv, TypeOK, QueueInv
<1>3. ~InLine(t)
  <2>1. CASE Adders(m) # {}
    <3>1. PICK u \in Threads : sem[u] = m /\ lpc[u] = "acqAdd"
      BY <2>1 DEF Adders
    <3>2. FifoWaiters(m) = Append(queue[m], u) /\ u # t
      BY <1>1, <3>1, AdderIsInLine
    <3> HIDE DEF m
    <3>3. \A k \in 1..Len(queue[m]) + 1 : Append(queue[m], u)[k] # t
      BY <1>2, <3>2, AppendFacts
    <3> QED
      BY <1>2, <3>2, <3>3, AppendFacts DEF InLine, m
  <2>2. CASE Adders(m) = {} /\ Poppers(m) # {}
    <3>1. PICK u \in Threads : sem[u] = m /\ lpc[u] = "relPop"
      BY <2>2 DEF Poppers
    <3>2. FifoWaiters(m) = Tail(queue[m])
      BY <3>1, PoppedIsOutOfLine
    <3>3. queue[m] # <<>>
      BY <1>1, <3>1, PoppersFindSomebody
    <3> HIDE DEF m
    <3>4. \A k \in 1..Len(Tail(queue[m])) : Tail(queue[m])[k] # t
      BY <1>2, <3>3, TailFacts
    <3> QED
      BY <3>2, <3>4 DEF InLine, m
  <2>3. CASE Adders(m) = {} /\ Poppers(m) = {}
    BY <1>2, <2>3, LineIsQueue DEF InLine
  <2> QED
    BY <2>1, <2>2, <2>3
<1> QED
  BY <1>1, <1>3 DEF FifoOp

(* What ends a call is a return.                                           *)
LEMMA ReturnRefines ==
    ASSUME IInv, NEW t \in Threads,
           AcqFree(t) \/ AcqWait(t) \/ RelFree(t) \/ RelKill(t)
    PROVE  Fifo!Return(t)
<1> USE DEF AcqFree, AcqWait, RelFree, RelKill, At, Return
<1>0. TypeOK
  BY DEF IInv
<1>1. /\ Line' = Line
      /\ \A u \in Threads \ {t} : FifoOp(u)' = FifoOp(u)
  BY <1>0, QuietStep DEF TypeOK
<1>2. Frees' = Frees
  BY FreesStay
<1>3. Ops' = [Ops EXCEPT ![t] = FifoOp(t)']
  BY <1>1, OpsUpdate
<1>4. Ops[t] = "done"
  <2>1. FifoOp(t) = "done"
    BY PlainOp, SignalledIsServed
  <2> QED
    BY <2>1 DEF Ops
<1>5. FifoOp(t)' = "idle"
  BY <1>0, NextPlainOp DEF TypeOK
<1>6. sem' = [sem EXCEPT ![t] = NoSem]
  OBVIOUS
<1> QED
  BY <1>1, <1>2, <1>3, <1>4, <1>5, <1>6 DEF Fifo!Return, Line, Ops, Frees

(* Getting the lock, blocking the signal and giving the lock back do not   *)
(* show.                                                                   *)
LEMMA QuietRefines ==
    ASSUME IInv, NEW t \in Threads,
           AcqCas(t) \/ AcqMask(t) \/ AcqDrop(t) \/ RelCas(t) \/ RelDrop(t)
    PROVE  UNCHANGED Fifo!vars
<1> USE DEF AcqCas, AcqMask, AcqDrop, RelCas, RelDrop, At, Goto
<1>0. TypeOK
  BY DEF IInv
<1>1. /\ \A m : FifoWaiters(m)' = FifoWaiters(m)
      /\ Line' = Line
      /\ \A u \in Threads \ {t} : FifoOp(u)' = FifoOp(u)
  BY <1>0, QuietStep DEF TypeOK
<1>2. Frees' = Frees
  BY FreesStay
<1>3. FifoOp(t)' = FifoOp(t)
  <2>1. CASE AcqCas(t) \/ RelCas(t) \/ RelDrop(t)
    BY <1>0, <2>1, PlainOp, NextPlainOp DEF TypeOK
  <2>2. CASE AcqMask(t) \/ AcqDrop(t)
    <3>1. /\ lpc[t] \in {"acqMask", "acqDrop"}
          /\ lpc'[t] \in {"acqDrop", "acqWait"}
      BY <1>0, <2>2 DEF TypeOK
    <3>2. InLine(t)' = InLine(t)
      BY <1>1, <2>2 DEF InLine
    <3> QED
      BY <3>1, <3>2 DEF FifoOp
  <2> QED
    BY <2>1, <2>2
<1>4. sem' = sem
  OBVIOUS
<1> QED
  BY <1>1, <1>2, <1>3, <1>4, Stutters

-----------------------------------------------------------------------------
(* Who holds the lock of m and is not at a link or an unlink finds the     *)
(* line equal to the queue.                                                *)
LEMMA HolderSeesQueue ==
    ASSUME IInv, NEW t \in Threads, lpc[t] \in {"acqDec", "relInc"}
    PROVE  /\ Adders(sem[t]) = {} /\ Poppers(sem[t]) = {}
           /\ FifoWaiters(sem[t]) = queue[sem[t]]
<1>1. Adders(sem[t]) = {} /\ Poppers(sem[t]) = {}
  BY LockedAlone DEF Adders, Poppers, LockedLabels
<1> QED
  BY <1>1, LineIsQueue

(* A step of t on m leaves the lines of the other instances alone.         *)
LEMMA OtherLines ==
    ASSUME TypeOK, NEW t \in Threads, NEW n, n # sem[t],
           \A u \in Threads \ {t} : lpc'[u] = lpc[u],
           sem' = sem, queue'[n] = queue[n]
    PROVE  FifoWaiters(n)' = FifoWaiters(n)
<1>1. Adders(n)' = Adders(n) /\ Poppers(n)' = Poppers(n)
  BY DEF Adders, Poppers
<1> QED
  BY <1>1 DEF FifoWaiters

(* Another thread goes on doing what it does as long as it stays in line,  *)
(* or out of it.                                                           *)
LEMMA OtherOps ==
    ASSUME NEW u \in Threads, lpc'[u] = lpc[u], lpc[u] # "out" => InLine(u)' = InLine(u)
    PROVE  FifoOp(u)' = FifoOp(u)
<1>1. CASE lpc[u] = "out"
  BY <1>1, PlainOp, NextPlainOp
<1>2. CASE lpc[u] # "out"
  <2>1. InLine(u)' = InLine(u)
    BY <1>2
  <2> QED
    BY <2>1 DEF FifoOp
<1> QED
  BY <1>1, <1>2

(* Linking a node makes the queue what the line is already.                *)
LEMMA AcqAddRefines ==
    ASSUME IInv, NEW t \in Threads, AcqAdd(t)
    PROVE  UNCHANGED Fifo!vars
<1>0. TypeOK /\ sem[t] \in Sems /\ lpc[t] = "acqAdd"
  BY DEF IInv, TypeOK, ArgInv, AcqAdd, At
<1>m. PICK m \in Sems : m = sem[t]
  BY <1>0
<1>s. /\ lpc' = [lpc EXCEPT ![t] = "acqMask"] /\ sem' = sem /\ S' = S
      /\ queue' = [queue EXCEPT ![m] = Append(queue[m], t)]
  BY <1>m DEF AcqAdd, Goto
<1>1. FifoWaiters(m)' = FifoWaiters(m)
  <2>1. Adders(m) = {t} /\ Poppers(m) = {}
    BY <1>0, <1>m, LockedAlone DEF Adders, Poppers, LockedLabels
  <2>2. Adders(m)' = {} /\ Poppers(m)' = {}
    BY <1>0, <1>m, <1>s, <2>1 DEF Adders, Poppers, TypeOK
  <2>3. FifoWaiters(m)' = queue'[m]
    BY <2>2, NextLineIsQueue
  <2>4. queue'[m] = Append(queue[m], t)
    BY <1>0, <1>s DEF TypeOK
  <2> QED
    BY <1>0, <1>m, <2>3, <2>4, AdderIsInLine
<1>2. \A n \in Sems : FifoWaiters(n)' = FifoWaiters(n)
  <2> SUFFICES ASSUME NEW n \in Sems, n # m PROVE FifoWaiters(n)' = FifoWaiters(n)
    BY <1>1
  <2>1. queue'[n] = queue[n] /\ \A u \in Threads \ {t} : lpc'[u] = lpc[u]
    BY <1>0, <1>s DEF TypeOK
  <2> QED
    BY <1>0, <1>m, <1>s, <2>1, OtherLines
<1>3. \A u \in Threads : lpc[u] # "out" => InLine(u)' = InLine(u)
  <2> SUFFICES ASSUME NEW u \in Threads, lpc[u] # "out" PROVE InLine(u)' = InLine(u)
    OBVIOUS
  <2>1. sem[u] \in Sems /\ sem'[u] = sem[u]
    BY <1>s DEF IInv, TypeOK, ArgInv
  <2>2. FifoWaiters(sem[u])' = FifoWaiters(sem[u])
    BY <1>2, <2>1
  <2> QED
    BY <1>s, <2>2 DEF InLine
<1>4. \A u \in Threads \ {t} : FifoOp(u)' = FifoOp(u)
  BY <1>0, <1>s, <1>3, OtherOps DEF TypeOK
<1>5. FifoOp(t)' = FifoOp(t)
  <2>1. lpc'[t] = "acqMask" /\ InLine(t)' = InLine(t)
    BY <1>0, <1>s, <1>3 DEF TypeOK
  <2> QED
    BY <1>0, <2>1 DEF FifoOp
<1>6. Frees' = Frees
  BY <1>s, FreesStay
<1>7. Line' = Line
  BY <1>2 DEF Line
<1> QED
  BY <1>s, <1>4, <1>5, <1>6, <1>7, Stutters

(* Unlinking the first node makes the queue what the line is already.      *)
LEMMA RelPopRefines ==
    ASSUME IInv, NEW t \in Threads, RelPop(t)
    PROVE  UNCHANGED Fifo!vars
<1>0. TypeOK /\ sem[t] \in Sems /\ lpc[t] = "relPop"
  BY DEF IInv, TypeOK, ArgInv, RelPop, At
<1>m. PICK m \in Sems : m = sem[t]
  BY <1>0
<1>s. /\ lpc' = [lpc EXCEPT ![t] = "relDrop"] /\ sem' = sem /\ S' = S
      /\ queue' = [queue EXCEPT ![m] = Tail(queue[m])]
  BY <1>0, <1>m, PoppersFindSomebody DEF RelPop, Goto
<1>1. FifoWaiters(m)' = FifoWaiters(m)
  <2>1. Adders(m) = {} /\ Poppers(m) = {t}
    BY <1>0, <1>m, LockedAlone DEF Adders, Poppers, LockedLabels
  <2>2. Adders(m)' = {} /\ Poppers(m)' = {}
    BY <1>0, <1>m, <1>s, <2>1 DEF Adders, Poppers, TypeOK
  <2>3. FifoWaiters(m)' = queue'[m]
    BY <2>2, NextLineIsQueue
  <2>4. queue'[m] = Tail(queue[m])
    BY <1>0, <1>s DEF TypeOK
  <2> QED
    BY <1>0, <1>m, <2>3, <2>4, PoppedIsOutOfLine
<1>2. \A n \in Sems : FifoWaiters(n)' = FifoWaiters(n)
  <2> SUFFICES ASSUME NEW n \in Sems, n # m PROVE FifoWaiters(n)' = FifoWaiters(n)
    BY <1>1
  <2>1. queue'[n] = queue[n] /\ \A u \in Threads \ {t} : lpc'[u] = lpc[u]
    BY <1>0, <1>s DEF TypeOK
  <2> QED
    BY <1>0, <1>m, <1>s, <2>1, OtherLines
<1>3. \A u \in Threads : lpc[u] # "out" => InLine(u)' = InLine(u)
  <2> SUFFICES ASSUME NEW u \in Threads, lpc[u] # "out" PROVE InLine(u)' = InLine(u)
    OBVIOUS
  <2>1. sem[u] \in Sems /\ sem'[u] = sem[u]
    BY <1>s DEF IInv, TypeOK, ArgInv
  <2>2. FifoWaiters(sem[u])' = FifoWaiters(sem[u])
    BY <1>2, <2>1
  <2> QED
    BY <1>s, <2>2 DEF InLine
<1>4. \A u \in Threads \ {t} : FifoOp(u)' = FifoOp(u)
  BY <1>0, <1>s, <1>3, OtherOps DEF TypeOK
<1>5. FifoOp(t)' = FifoOp(t)
  BY <1>0, <1>s, PlainOp, NextPlainOp DEF TypeOK
<1>6. Frees' = Frees
  BY <1>s, FreesStay
<1>7. Line' = Line
  BY <1>2 DEF Line
<1> QED
  BY <1>s, <1>4, <1>5, <1>6, <1>7, Stutters

-----------------------------------------------------------------------------
(* The decrement of S takes a permit if there is one.                      *)
LEMMA TakeRefines ==
    ASSUME IInv, NEW t \in Threads, AcqDec(t), S[sem[t]] > 0
    PROVE  Fifo!Take(t)
<1>0. TypeOK /\ sem[t] \in Sems /\ S[sem[t]] \in Int /\ lpc[t] = "acqDec"
  BY DEF IInv, TypeOK, ArgInv, AcqDec, At
<1>m. PICK m \in Sems : m = sem[t]
  BY <1>0
<1>n. ~(S[sem[t]] - 1 < 0)
  BY <1>0
<1>s. /\ lpc' = [lpc EXCEPT ![t] = "acqFree"] /\ sem' = sem /\ queue' = queue
      /\ S' = [S EXCEPT ![m] = @ - 1]
  BY <1>m, <1>n DEF AcqDec, Goto
<1>1. /\ Line' = Line
      /\ \A u \in Threads \ {t} : FifoOp(u)' = FifoOp(u)
  BY <1>0, <1>s, QuietStep DEF TypeOK
<1>2. Frees' = [Frees EXCEPT ![m] = @ - 1] /\ Frees[m] > 0
  <2>1. S'[m] = S[m] - 1 /\ \A n \in Sems \ {m} : S'[n] = S[n]
    BY <1>0, <1>s DEF TypeOK
  <2>2. FifoFree(m) = S[m] /\ FifoFree(m)' = S[m] - 1
    BY <1>0, <1>m, <2>1 DEF FifoFree
  <2>3. \A n \in Sems \ {m} : FifoFree(n)' = FifoFree(n)
    BY <2>1 DEF FifoFree
  <2> QED
    BY <1>m, <2>2, <2>3 DEF Frees
<1>3. Ops' = [Ops EXCEPT ![t] = FifoOp(t)']
  BY <1>1, OpsUpdate
<1>4. Ops[t] = "acquire" /\ FifoOp(t)' = "done"
  BY <1>0, <1>s, PlainOp, NextPlainOp DEF Ops, TypeOK
<1> QED
  BY <1>m, <1>s, <1>1, <1>2, <1>3, <1>4 DEF Fifo!Take, Line, Ops, Frees

(* A decrement below 0 is a place at the end of the line.                  *)
LEMMA QueueRefines ==
    ASSUME IInv, NEW t \in Threads, AcqDec(t), ~(S[sem[t]] > 0)
    PROVE  Fifo!Queue(t)
<1>0. TypeOK /\ sem[t] \in Sems /\ S[sem[t]] \in Int /\ lpc[t] = "acqDec"
  BY DEF IInv, TypeOK, ArgInv, AcqDec, At
<1>m. PICK m \in Sems : m = sem[t]
  BY <1>0
<1>n. S[sem[t]] - 1 < 0
  BY <1>0
<1>s. /\ lpc' = [lpc EXCEPT ![t] = "acqAdd"] /\ sem' = sem /\ queue' = queue
      /\ S' = [S EXCEPT ![m] = @ - 1]
  BY <1>m, <1>n DEF AcqDec, Goto
<1>q. queue[m] \in Seq(Threads) /\ Len(queue[m]) \in Nat
  BY <1>0 DEF TypeOK
<1>1. FifoWaiters(m) = queue[m] /\ FifoWaiters(m)' = Append(queue[m], t)
  <2>1. Adders(m) = {} /\ FifoWaiters(m) = queue[m]
    BY <1>0, <1>m, HolderSeesQueue
  <2>2. Adders(m)' = {t}
    BY <1>0, <1>m, <1>s, <2>1 DEF Adders, TypeOK
  <2>3. Adders(m)' # {} /\ TheOne(Adders(m)') = t
    BY <2>2, TheOneOfOne
  <2> QED
    BY <1>s, <2>1, <2>3 DEF FifoWaiters
<1>2. \A n \in Sems \ {m} : FifoWaiters(n)' = FifoWaiters(n)
  BY <1>0, <1>m, <1>s, OtherLines DEF TypeOK
<1>3. Line' = [Line EXCEPT ![m] = Append(@, t)]
  BY <1>1, <1>2 DEF Line
<1>a. /\ Len(Append(queue[m], t)) = Len(queue[m]) + 1
      /\ \A k \in 1..Len(queue[m]) : Append(queue[m], t)[k] = queue[m][k]
      /\ Append(queue[m], t)[Len(queue[m]) + 1] = t
  BY <1>q, AppendFacts
<1>4. \A u \in Threads \ {t} : lpc[u] # "out" => InLine(u)' = InLine(u)
  <2> SUFFICES ASSUME NEW u \in Threads \ {t}, lpc[u] # "out" PROVE InLine(u)' = InLine(u)
    OBVIOUS
  <2>1. sem[u] \in Sems /\ sem'[u] = sem[u]
    BY <1>s DEF IInv, TypeOK, ArgInv
  <2>2. CASE sem[u] # m
    <3>1. FifoWaiters(sem[u])' = FifoWaiters(sem[u])
      BY <1>2, <1>s, <2>1, <2>2
    <3> QED
      BY <1>s, <3>1 DEF InLine
  <2>3. CASE sem[u] = m
    <3>1. InLine(u) <=> \E k \in 1..Len(queue[m]) : queue[m][k] = u
      BY <1>1, <2>3 DEF InLine
    <3>2. InLine(u)' <=> \E k \in 1..Len(Append(queue[m], t)) : Append(queue[m], t)[k] = u
      BY <1>1, <1>s, <2>3 DEF InLine
    <3>3. \A k \in 1..Len(queue[m]) + 1 : k \in 1..Len(queue[m]) \/ k = Len(queue[m]) + 1
      BY <1>q
    <3>4. 1..Len(queue[m]) \subseteq 1..Len(queue[m]) + 1
      BY <1>q
    <3>5. (\E k \in 1..Len(Append(queue[m], t)) : Append(queue[m], t)[k] = u)
             <=> \E k \in 1..Len(queue[m]) : queue[m][k] = u
      BY <1>a, <3>3, <3>4
    <3>6. InLine(u) \in BOOLEAN /\ InLine(u)' \in BOOLEAN
      BY DEF InLine
    <3> QED
      BY <3>1, <3>2, <3>5, <3>6
  <2> QED
    BY <2>2, <2>3
<1>5. \A u \in Threads \ {t} : FifoOp(u)' = FifoOp(u)
  BY <1>0, <1>s, <1>4, OtherOps DEF TypeOK
<1>6. Ops' = [Ops EXCEPT ![t] = FifoOp(t)']
  BY <1>5, OpsUpdate
<1>7. Ops[t] = "acquire"
  BY <1>0, PlainOp DEF Ops
<1>8. FifoOp(t)' = "waiting"
  <2>1. Len(queue[m]) + 1 \in 1..Len(queue[m]) + 1
    BY <1>q
  <2>2. InLine(t)'
    BY <1>1, <1>a, <1>m, <1>s, <2>1 DEF InLine
  <2>3. lpc'[t] = "acqAdd"
    BY <1>0, <1>s DEF TypeOK
  <2> QED
    BY <2>2, <2>3 DEF FifoOp
<1>9. Frees' = Frees /\ Frees[m] = 0
  <2>1. S'[m] = S[m] - 1 /\ \A n \in Sems \ {m} : S'[n] = S[n]
    BY <1>0, <1>s DEF TypeOK
  <2>2. FifoFree(m) = 0 /\ FifoFree(m)' = 0
    BY <1>0, <1>m, <2>1 DEF FifoFree
  <2>3. \A n \in Sems \ {m} : FifoFree(n)' = FifoFree(n)
    BY <2>1 DEF FifoFree
  <2> QED
    BY <2>2, <2>3 DEF Frees
<1> QED
  BY <1>m, <1>s, <1>3, <1>6, <1>7, <1>8, <1>9 DEF Fifo!Queue, Line, Ops, Frees
-----------------------------------------------------------------------------
(* The increment of S frees a permit when nobody is in line.               *)
LEMMA FreeRefines ==
    ASSUME IInv, NEW t \in Threads, RelInc(t), S[sem[t]] + 1 > 0
    PROVE  Fifo!Free(t)
<1>0. TypeOK /\ sem[t] \in Sems /\ S[sem[t]] \in Int /\ lpc[t] = "relInc"
  BY DEF IInv, TypeOK, ArgInv, RelInc, At
<1>m. PICK m \in Sems : m = sem[t]
  BY <1>0
<1>n. ~(S[sem[t]] + 1 <= 0) /\ S[m] >= 0
  BY <1>0, <1>m
<1>s. /\ lpc' = [lpc EXCEPT ![t] = "relFree"] /\ sem' = sem /\ queue' = queue
      /\ S' = [S EXCEPT ![m] = @ + 1]
  BY <1>m, <1>n DEF RelInc, Goto
<1>1. /\ Line' = Line
      /\ \A u \in Threads \ {t} : FifoOp(u)' = FifoOp(u)
  BY <1>0, <1>s, QuietStep DEF TypeOK
<1>2. Line[m] = <<>>
  <2>1. ~Adding(m) /\ ~Popping(m) /\ FifoWaiters(m) = queue[m]
    BY <1>0, <1>m, HolderSeesQueue DEF Adding, Popping, Adders, Poppers
  <2>2. Len(queue[m]) = 0
    BY <1>0, <1>m, <1>n, <2>1 DEF IInv, NegativeSCountsQueue, Unserved
  <2>3. queue[m] \in Seq(Threads)
    BY <1>0 DEF TypeOK
  <2>4. queue[m] = <<>>
    BY <2>2, <2>3, EmptySeq
  <2> QED
    BY <2>1, <2>4 DEF Line
<1>3. Frees' = [Frees EXCEPT ![m] = @ + 1]
  <2>1. S'[m] = S[m] + 1 /\ \A n \in Sems \ {m} : S'[n] = S[n]
    BY <1>0, <1>s DEF TypeOK
  <2>2. FifoFree(m) = S[m] /\ FifoFree(m)' = S[m] + 1
    BY <1>0, <1>m, <1>n, <2>1 DEF FifoFree
  <2>3. \A n \in Sems \ {m} : FifoFree(n)' = FifoFree(n)
    BY <2>1 DEF FifoFree
  <2> QED
    BY <2>2, <2>3 DEF Frees
<1>4. Ops' = [Ops EXCEPT ![t] = FifoOp(t)']
  BY <1>1, OpsUpdate
<1>5. Ops[t] = "release" /\ FifoOp(t)' = "done"
  BY <1>0, <1>s, PlainOp, NextPlainOp DEF Ops, TypeOK
<1> QED
  BY <1>m, <1>s, <1>1, <1>2, <1>3, <1>4, <1>5 DEF Fifo!Free, Line, Ops, Frees

(* Otherwise it serves the first in line, who has left it with this step.  *)
LEMMA HandOverRefines ==
    ASSUME IInv, NEW t \in Threads, RelInc(t), ~(S[sem[t]] + 1 > 0)
    PROVE  Fifo!HandOver(t)
<1>0. TypeOK /\ sem[t] \in Sems /\ S[sem[t]] \in Int /\ lpc[t] = "relInc"
  BY DEF IInv, TypeOK, ArgInv, RelInc, At
<1>m. PICK m \in Sems : m = sem[t]
  BY <1>0
<1>n. S[sem[t]] + 1 <= 0 /\ S[m] < 0
  BY <1>0, <1>m
<1>s. /\ lpc' = [lpc EXCEPT ![t] = "relPop"] /\ sem' = sem /\ queue' = queue
      /\ S' = [S EXCEPT ![m] = @ + 1]
  BY <1>m, <1>n DEF RelInc, Goto
<1>l. \A u \in Threads \ {t} : lpc'[u] = lpc[u]
  BY <1>0, <1>s DEF TypeOK
<1>a. /\ Adders(m) = {} /\ Poppers(m) = {} /\ ~Adding(m) /\ ~Popping(m)
      /\ FifoWaiters(m) = queue[m]
  BY <1>0, <1>m, HolderSeesQueue DEF Adding, Popping, Adders, Poppers
<1>q. queue[m] \in Seq(Threads) /\ queue[m] # <<>>
  <2>1. Len(queue[m]) = -S[m]
    BY <1>0, <1>m, <1>n, <1>a DEF IInv, NegativeSCountsQueue, Unserved
  <2>2. Len(<<>>) = 0
    BY EmptySeq
  <2>3. queue[m] # <<>>
    BY <1>0, <1>m, <1>n, <2>1, <2>2
  <2> QED
    BY <1>0, <2>3 DEF TypeOK
<1>h. PICK h \in Threads : h = queue[m][1]
  BY <1>q, TailFacts
<1>f. /\ Head(queue[m]) = h
      /\ Len(queue[m]) \in Nat /\ Len(queue[m]) >= 1
      /\ Len(Tail(queue[m])) = Len(queue[m]) - 1
      /\ \A k \in 1..Len(queue[m]) - 1 : Tail(queue[m])[k] = queue[m][k + 1]
  BY <1>q, <1>h, TailFacts
<1>w. /\ sem[h] = m /\ lpc[h] \in {"acqMask", "acqDrop", "acqWait"} /\ h # t
      /\ \A k \in 1..Len(queue[m]) : queue[m][k] = h => k = 1
  <2>1. 1 \in 1..Len(queue[m])
    BY <1>f
  <2> QED
    BY <1>0, <1>h, <2>1 DEF IInv, QueueInv
<1>1. FifoWaiters(m)' = Tail(queue[m])
  <2>1. Adders(m)' = {}
    BY <1>0, <1>m, <1>s, <1>l, <1>a DEF Adders, TypeOK
  <2>2. t \in Poppers(m)'
    BY <1>0, <1>m, <1>s DEF Poppers, TypeOK
  <2> QED
    BY <1>s, <2>1, <2>2 DEF FifoWaiters
<1>2. \A n \in Sems \ {m} : FifoWaiters(n)' = FifoWaiters(n)
  BY <1>0, <1>m, <1>s, <1>l, OtherLines
<1>3. Line' = [Line EXCEPT ![m] = Tail(@)] /\ Line[m] # <<>>
  BY <1>1, <1>2, <1>a, <1>q DEF Line
<1>4. \A u \in Threads \ {t, h} : lpc[u] # "out" => InLine(u)' = InLine(u)
  <2> SUFFICES ASSUME NEW u \in Threads \ {t, h}, lpc[u] # "out"
               PROVE  InLine(u)' = InLine(u)
    OBVIOUS
  <2>1. sem[u] \in Sems /\ sem'[u] = sem[u]
    BY <1>s DEF IInv, TypeOK, ArgInv
  <2>2. CASE sem[u] # m
    <3>1. FifoWaiters(sem[u])' = FifoWaiters(sem[u])
      BY <1>2, <1>s, <2>1, <2>2
    <3> QED
      BY <1>s, <3>1 DEF InLine
  <2>3. CASE sem[u] = m
    <3>1. InLine(u) <=> \E k \in 1..Len(queue[m]) : queue[m][k] = u
      BY <1>a, <2>3 DEF InLine
    <3>2. InLine(u)' <=> \E k \in 1..Len(Tail(queue[m])) : Tail(queue[m])[k] = u
      BY <1>1, <1>s, <2>3 DEF InLine
    <3>3. ASSUME NEW k \in 1..Len(queue[m]), queue[m][k] = u
          PROVE  \E l \in 1..Len(Tail(queue[m])) : Tail(queue[m])[l] = u
      <4>1. k # 1
        BY <1>h, <3>3
      <4>2. k - 1 \in 1..Len(queue[m]) - 1 /\ (k - 1) + 1 = k
        BY <1>f, <4>1
      <4>3. Tail(queue[m])[k - 1] = u
        BY <1>f, <3>3, <4>2
      <4> QED
        BY <1>f, <4>2, <4>3
    <3>4. ASSUME NEW k \in 1..Len(Tail(queue[m])), Tail(queue[m])[k] = u
          PROVE  \E l \in 1..Len(queue[m]) : queue[m][l] = u
      <4>1. k \in 1..Len(queue[m]) - 1 /\ k + 1 \in 1..Len(queue[m])
        BY <1>f
      <4> QED
        BY <1>f, <3>4, <4>1
    <3>5. InLine(u) \in BOOLEAN /\ InLine(u)' \in BOOLEAN
      BY DEF InLine
    <3> QED
      BY <3>1, <3>2, <3>3, <3>4, <3>5
  <2> QED
    BY <2>2, <2>3
<1>5. \A u \in Threads \ {t, h} : FifoOp(u)' = FifoOp(u)
  BY <1>l, <1>4, OtherOps
<1>6. FifoOp(h)' = "done"
  <2>1. ~InLine(h)'
    <3>1. InLine(h)' <=> \E k \in 1..Len(Tail(queue[m])) : Tail(queue[m])[k] = h
      BY <1>1, <1>s, <1>w DEF InLine
    <3>2. ASSUME NEW k \in 1..Len(Tail(queue[m])) PROVE Tail(queue[m])[k] # h
      <4>1. k \in 1..Len(queue[m]) - 1 /\ k + 1 \in 1..Len(queue[m]) /\ k + 1 # 1
        BY <1>f
      <4> QED
        BY <1>f, <1>w, <4>1
    <3> QED
      BY <3>1, <3>2
  <2>2. lpc'[h] \in {"acqMask", "acqDrop", "acqWait"}
    BY <1>l, <1>w
  <2> QED
    BY <2>1, <2>2 DEF FifoOp
<1>7. Ops[t] = "release" /\ FifoOp(t)' = "done"
  BY <1>0, <1>s, PlainOp, NextPlainOp DEF Ops, TypeOK
<1>8. Ops' = [Ops EXCEPT ![t] = "done", ![h] = "done"]
  BY <1>5, <1>6, <1>7, <1>w DEF Ops
<1>9. Frees' = Frees
  <2>1. S'[m] = S[m] + 1 /\ \A n \in Sems \ {m} : S'[n] = S[n]
    BY <1>0, <1>s DEF TypeOK
  <2>2. FifoFree(m) = 0 /\ FifoFree(m)' = 0
    BY <1>0, <1>m, <1>n, <2>1 DEF FifoFree
  <2>3. \A n \in Sems \ {m} : FifoFree(n)' = FifoFree(n)
    BY <2>1 DEF FifoFree
  <2> QED
    BY <2>2, <2>3 DEF Frees
<1>10. Head(Line[m]) = h
  BY <1>a, <1>f DEF Line
<1> QED
  BY <1>m, <1>s, <1>3, <1>7, <1>8, <1>9, <1>10 DEF Fifo!HandOver, Line, Ops, Frees

-----------------------------------------------------------------------------
(* Nobody waits and nothing is taken at the start.                         *)
LEMMA InitIsFifo ==
    ASSUME Init
    PROVE  Fifo!Init
<1>1. Line = [m \in Sems |-> <<>>]
  <2>1. \A m : Adders(m) = {} /\ Poppers(m) = {}
    BY DEF Init, Adders, Poppers
  <2>2. \A m \in Sems : FifoWaiters(m) = <<>>
    BY <2>1, LineIsQueue DEF Init
  <2> QED
    BY <2>2 DEF Line
<1>2. Ops = [t \in Threads |-> "idle"]
  <2>1. \A t \in Threads : FifoOp(t) = "idle"
    BY PlainOp DEF Init
  <2> QED
    BY <2>1 DEF Ops
<1>3. Frees = Permits
  <2>1. Permits \in [Sems -> Nat] /\ S = Permits
    BY SemaphoreAssumption DEF Init
  <2>2. \A m \in Sems : FifoFree(m) = Permits[m]
    BY <2>1 DEF FifoFree
  <2> QED
    BY <2>1, <2>2 DEF Frees
<1> QED
  BY <1>1, <1>2, <1>3 DEF Init, Fifo!Init, Line, Ops, Frees

(* A step that changes nothing does not show.                              *)
LEMMA StutterRefines ==
    ASSUME UNCHANGED semVars
    PROVE  UNCHANGED Fifo!vars
<1> USE DEF semVars
<1>1. \A m : Adders(m)' = Adders(m) /\ Poppers(m)' = Poppers(m)
  BY DEF Adders, Poppers
<1>2. \A m : FifoWaiters(m)' = FifoWaiters(m)
  BY <1>1 DEF FifoWaiters
<1>3. \A t : InLine(t)' = InLine(t)
  BY <1>2 DEF InLine
<1>4. \A t \in Threads : FifoOp(t)' = FifoOp(t)
  BY <1>3 DEF FifoOp
<1>5. Line' = Line /\ Ops' = Ops /\ Frees' = Frees
  BY <1>2, <1>4, FreesStay DEF Line, Ops
<1> QED
  BY <1>5 DEF Fifo!vars, Line, Ops, Frees

(* Every step is a step of the abstract semaphore, or does not show.       *)
LEMMA LibStepRefines ==
    ASSUME IInv, NEW t \in Threads, LibStep(t)
    PROVE  \/ Fifo!Take(t) \/ Fifo!Queue(t) \/ Fifo!Free(t) \/ Fifo!HandOver(t) \/ Fifo!Return(t)
           \/ UNCHANGED Fifo!vars
<1>1. CASE AcqCas(t) \/ AcqMask(t) \/ AcqDrop(t) \/ RelCas(t) \/ RelDrop(t)
  BY <1>1, QuietRefines
<1>2. CASE AcqFree(t) \/ AcqWait(t) \/ RelFree(t) \/ RelKill(t)
  BY <1>2, ReturnRefines
<1>3. CASE AcqDec(t)
  BY <1>3, TakeRefines, QueueRefines
<1>4. CASE AcqAdd(t)
  BY <1>4, AcqAddRefines
<1>5. CASE RelInc(t)
  BY <1>5, FreeRefines, HandOverRefines
<1>6. CASE RelPop(t)
  BY <1>6, RelPopRefines
<1> QED
  BY <1>1, <1>2, <1>3, <1>4, <1>5, <1>6 DEF LibStep, AcqStep, RelStep

LEMMA NextIsFifo ==
    ASSUME IInv, [Next]_semVars
    PROVE  [Fifo!Next]_Fifo!vars
<1>1. CASE UNCHANGED semVars
  BY <1>1, StutterRefines
<1>2. ASSUME NEW t \in Threads, NEW m \in Sems, CallAcquire(t, m) \/ CallRelease(t, m)
      PROVE  Fifo!Next
  BY <1>2, CallRefines DEF Fifo!Next
<1>3. ASSUME NEW t \in Threads, LibStep(t)
      PROVE  Fifo!Next \/ UNCHANGED Fifo!vars
  BY <1>3, LibStepRefines DEF Fifo!Next
<1> QED
  BY <1>1, <1>2, <1>3 DEF Next

(* The mutex is a first-come, first-served counting semaphore: acquire and *)
(* release (pa3.c:137-183) take effect in one step each, and nobody who    *)
(* comes later is served earlier.                                          *)
THEOREM FifoAlways == Spec => FifoSpec
<1>1. Init => Fifo!Init
  BY InitIsFifo
<1>2. IInv /\ [Next]_semVars => [Fifo!Next]_Fifo!vars
  BY NextIsFifo
<1>3. Spec => []IInv
  BY IInvAlways
<1> QED
  BY <1>1, <1>2, <1>3, PTL DEF Spec, FifoSpec, Fifo!Spec
=============================================================================
