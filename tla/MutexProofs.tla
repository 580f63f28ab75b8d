----------------------------- MODULE MutexProofs -----------------------------
(***************************************************************************)
(* Mutual exclusion of the mutex under its callers, for every number of    *)
(* threads and of mutexes.  The invariant of the library (SemaphoreProofs) *)
(* carries over, as every step of a caller is a step of the library or     *)
(* leaves it alone; what is new is that S counts the users of a mutex.     *)
(***************************************************************************)
EXTENDS MutexUse, SemaphoreProofs

(* The call a thread is in agrees with the mutex it wants or holds.        *)
CallInv ==
    /\ crit \in [Threads -> Sems \cup {NoSem}]
    /\ \A t \in Threads :
          /\ lpc[t] \in AcqLabels => crit[t] = sem[t]
          /\ lpc[t] \in RelLabels => crit[t] = NoSem

(* The threads that have decremented S of m and not incremented it again.  *)
Users(m) ==
    {t \in Threads :
        \/ crit[t] = m /\ lpc[t] \notin {"acqCas", "acqDec"}
        \/ sem[t] = m /\ lpc[t] \in {"relCas", "relInc"}}

CountInv == \A m \in Sems : S[m] = Permits[m] - Cardinality(Users(m))

UseInv == IInv /\ CallInv /\ CountInv

LEMMA UsersIsFinite ==
    ASSUME NEW m
    PROVE  IsFiniteSet(Users(m)) /\ Cardinality(Users(m)) \in Nat
BY SemaphoreAssumption, FS_Subset, FS_CardinalityType DEF Users

LEMMA InitUseInv == UseInit => UseInv
<1> SUFFICES ASSUME UseInit PROVE UseInv
  OBVIOUS
<1>1. IInv
  BY InitIInv DEF UseInit
<1>2. CallInv
  BY DEF UseInit, Init, CallInv, AcqLabels, RelLabels
<1>3. CountInv
  <2> SUFFICES ASSUME NEW m \in Sems
               PROVE  S[m] = Permits[m] - Cardinality(Users(m))
    BY DEF CountInv
  <2>1. Users(m) = {}
    BY SemaphoreAssumption DEF UseInit, Init, Users
  <2> QED
    BY <2>1, FS_EmptySet, SemaphoreAssumption DEF UseInit, Init
<1> QED
  BY <1>1, <1>2, <1>3 DEF UseInv

(* A step that leaves S and the users alone keeps the count.               *)
LEMMA SameUsers ==
    ASSUME CountInv, S' = S, \A m \in Sems : Users(m)' = Users(m)
    PROVE  CountInv'
BY DEF CountInv

(* The decrement makes its thread a user, the increment ends it.           *)
LEMMA AcqDecCounts ==
    ASSUME UseInv, NEW t \in Threads, AcqDec(t), UNCHANGED crit
    PROVE  CountInv'
<1>n. PICK n \in Sems : n = sem[t]
  BY DEF UseInv, IInv, TypeOK, ArgInv, AcqDec, At
<1>1. TypeOK /\ sem[t] = n /\ lpc[t] = "acqDec" /\ crit[t] = n
  BY <1>n DEF UseInv, IInv, TypeOK, CallInv, AcqDec, At, AcqLabels
<1>2. /\ S' = [S EXCEPT ![n] = @ - 1] /\ sem' = sem
      /\ lpc'[t] \notin {"acqCas", "acqDec", "relCas", "relInc"}
      /\ \A u \in Threads : u # t => lpc'[u] = lpc[u]
  BY <1>1 DEF AcqDec, Goto, TypeOK
<1>3. Users(n)' = Users(n) \cup {t} /\ t \notin Users(n)
  BY <1>1, <1>2 DEF Users
<1>4. \A m \in Sems : m # n => Users(m)' = Users(m)
  BY <1>1, <1>2 DEF Users
<1>5. Cardinality(Users(n))' = Cardinality(Users(n)) + 1
  BY <1>3, UsersIsFinite, FS_AddElement
<1>6. \A m \in Sems : S[m] = Permits[m] - Cardinality(Users(m)) /\ Permits[m] \in Nat
  BY SemaphoreAssumption DEF UseInv, CountInv
<1>7. S'[n] = Permits[n] - Cardinality(Users(n))'
  BY <1>1, <1>2, <1>5, <1>6, UsersIsFinite DEF TypeOK
<1>8. \A m \in Sems : m # n => S'[m] = Permits[m] - Cardinality(Users(m))'
  BY <1>1, <1>2, <1>4, <1>6 DEF TypeOK
<1> QED
  <2> SUFFICES ASSUME NEW m \in Sems
               PROVE  (S[m] = Permits[m] - Cardinality(Users(m)))'
    BY DEF CountInv
  <2>1. CASE m = n
    BY <1>7, <2>1
  <2>2. CASE m # n
    BY <1>8, <2>2
  <2> QED
    BY <2>1, <2>2

LEMMA RelIncCounts ==
    ASSUME UseInv, NEW t \in Threads, RelInc(t), UNCHANGED crit
    PROVE  CountInv'
<1>n. PICK n \in Sems : n = sem[t]
  BY DEF UseInv, IInv, TypeOK, ArgInv, RelInc, At
<1>1. TypeOK /\ sem[t] = n /\ lpc[t] = "relInc" /\ crit[t] = NoSem
  BY <1>n DEF UseInv, IInv, TypeOK, CallInv, RelInc, At, RelLabels
<1>2. /\ S' = [S EXCEPT ![n] = @ + 1] /\ sem' = sem
      /\ lpc'[t] \notin {"acqCas", "acqDec", "relCas", "relInc"}
      /\ \A u \in Threads : u # t => lpc'[u] = lpc[u]
  BY <1>1 DEF RelInc, Goto, TypeOK
<1>3. Users(n)' = Users(n) \ {t} /\ t \in Users(n)
  BY <1>1, <1>2, SemaphoreAssumption DEF Users
<1>4. \A m \in Sems : m # n => Users(m)' = Users(m)
  BY <1>1, <1>2, SemaphoreAssumption DEF Users
<1>5. Cardinality(Users(n))' = Cardinality(Users(n)) - 1
  BY <1>3, UsersIsFinite, FS_RemoveElement
<1>6. \A m \in Sems : S[m] = Permits[m] - Cardinality(Users(m)) /\ Permits[m] \in Nat
  BY SemaphoreAssumption DEF UseInv, CountInv
<1>7. S'[n] = Permits[n] - Cardinality(Users(n))'
  BY <1>1, <1>2, <1>5, <1>6, UsersIsFinite DEF TypeOK
<1>8. \A m \in Sems : m # n => S'[m] = Permits[m] - Cardinality(Users(m))'
  BY <1>1, <1>2, <1>4, <1>6 DEF TypeOK
<1> QED
  <2> SUFFICES ASSUME NEW m \in Sems
               PROVE  (S[m] = Permits[m] - Cardinality(Users(m)))'
    BY DEF CountInv
  <2>1. CASE m = n
    BY <1>7, <2>1
  <2>2. CASE m # n
    BY <1>8, <2>2
  <2> QED
    BY <2>1, <2>2

(* The library keeps CallInv and, but for those two steps, the users.      *)
LEMMA LibraryKeepsUseInv ==
    ASSUME UseInv, NEW t \in Threads, Library(t)
    PROVE  UseInv'
<1> USE DEF At, Goto, Return
<1>0. IInv /\ TypeOK /\ CallInv /\ CountInv /\ LibStep(t) /\ crit' = crit
  BY DEF UseInv, IInv, Library
<1>1. IInv'
  BY <1>0, LibStepKeepsIInv
<1>2. CallInv'
  <2>1. \A u \in Threads : u # t => lpc'[u] = lpc[u] /\ sem'[u] = sem[u]
    BY <1>0 DEF TypeOK, LibStep, AcqStep, RelStep, AcqCas, AcqDec, AcqFree, AcqAdd, AcqMask,
                AcqDrop, AcqWait, RelCas, RelInc, RelFree, RelPop, RelDrop, RelKill
  <2>2. \/ lpc'[t] = "out"
        \/ sem' = sem /\ lpc[t] \in AcqLabels /\ lpc'[t] \in AcqLabels
        \/ sem' = sem /\ lpc[t] \in RelLabels /\ lpc'[t] \in RelLabels
    BY <1>0 DEF TypeOK, LibStep, AcqStep, RelStep, AcqCas, AcqDec, AcqFree, AcqAdd, AcqMask,
                AcqDrop, AcqWait, RelCas, RelInc, RelFree, RelPop, RelDrop, RelKill,
                AcqLabels, RelLabels
  <2> QED
    BY <1>0, <2>1, <2>2 DEF CallInv, AcqLabels, RelLabels
<1>3. CountInv'
  <2>1. CASE AcqDec(t)
    BY <1>0, <2>1, AcqDecCounts
  <2>2. CASE RelInc(t)
    BY <1>0, <2>2, RelIncCounts
  <2>3. CASE AcqCas(t) \/ AcqFree(t) \/ AcqAdd(t) \/ AcqMask(t) \/ AcqDrop(t) \/ AcqWait(t)
    <3>1. S' = S
      BY <2>3 DEF AcqCas, AcqFree, AcqAdd, AcqMask, AcqDrop, AcqWait
    <3>2. \A m \in Sems : Users(m)' = Users(m)
      BY <1>0, <2>3, SemaphoreAssumption
         DEF TypeOK, Users, AcqCas, AcqFree, AcqAdd, AcqMask, AcqDrop, AcqWait
    <3> QED
      BY <1>0, <3>1, <3>2, SameUsers
  <2>4. CASE RelCas(t) \/ RelFree(t) \/ RelPop(t) \/ RelDrop(t) \/ RelKill(t)
    <3>1. S' = S
      BY <2>4 DEF RelCas, RelFree, RelPop, RelDrop, RelKill
    <3>2. lpc[t] \in RelLabels /\ crit[t] = NoSem
      BY <1>0, <2>4 DEF CallInv, RelLabels, RelCas, RelFree, RelPop, RelDrop, RelKill
    <3>3. \A m \in Sems : Users(m)' = Users(m)
      BY <1>0, <2>4, <3>2, SemaphoreAssumption
         DEF TypeOK, Users, RelCas, RelFree, RelPop, RelDrop, RelKill
    <3> QED
      BY <1>0, <3>1, <3>3, SameUsers
  <2> QED
    BY <1>0, <2>1, <2>2, <2>3, <2>4 DEF LibStep, AcqStep, RelStep
<1> QED
  BY <1>1, <1>2, <1>3 DEF UseInv

LEMMA NextKeepsUseInv ==
    ASSUME UseInv, [UseNext]_vars
    PROVE  UseInv'
<1>0. IInv /\ TypeOK /\ CallInv /\ CountInv
  BY DEF UseInv, IInv
<1>1. ASSUME NEW t \in Threads, NEW m \in Sems, Acquire(t, m)
      PROVE  UseInv'
  <2>1. CallAcquire(t, m) /\ crit[t] = NoSem /\ crit' = [crit EXCEPT ![t] = m]
    BY <1>1 DEF Acquire
  <2>2. IInv'
    BY <1>0, <2>1, CallAcquireKeepsIInv
  <2>3. CallInv'
    <3>1. /\ lpc'[t] = "acqCas" /\ sem'[t] = m
          /\ \A u \in Threads : u # t => lpc'[u] = lpc[u] /\ sem'[u] = sem[u]
      BY <1>0, <2>1 DEF CallAcquire, TypeOK
    <3>2. /\ crit'[t] = m
          /\ \A u \in Threads : u # t => crit'[u] = crit[u]
      BY <1>0, <2>1 DEF CallInv
    <3> QED
      BY <1>0, <2>1, <3>1, <3>2 DEF CallInv, AcqLabels, RelLabels
  <2>4. \A n \in Sems : Users(n)' = Users(n)
    BY <1>0, <2>1, SemaphoreAssumption DEF Users, CallAcquire, At, TypeOK
  <2> QED
    BY <1>0, <2>1, <2>2, <2>3, <2>4, SameUsers DEF UseInv, CallAcquire
<1>2. ASSUME NEW t \in Threads, Release(t)
      PROVE  UseInv'
  <2>1. /\ CallRelease(t, crit[t]) /\ crit[t] \in Sems /\ crit' = [crit EXCEPT ![t] = NoSem]
        /\ crit[t] # NoSem
    BY <1>0, <1>2 DEF Release, CallInv
  <2>2. IInv'
    BY <1>0, <2>1, CallReleaseKeepsIInv
  <2>3. CallInv'
    <3>1. /\ lpc'[t] = "relCas" /\ sem'[t] = crit[t]
          /\ \A u \in Threads : u # t => lpc'[u] = lpc[u] /\ sem'[u] = sem[u]
      BY <1>0, <2>1 DEF CallRelease, TypeOK
    <3>2. /\ crit'[t] = NoSem
          /\ \A u \in Threads : u # t => crit'[u] = crit[u]
      BY <1>0, <2>1 DEF CallInv
    <3> QED
      BY <1>0, <2>1, <3>1, <3>2 DEF CallInv, AcqLabels, RelLabels
  <2>4. \A n \in Sems : Users(n)' = Users(n)
    BY <1>0, <2>1, SemaphoreAssumption DEF Users, CallRelease, At, TypeOK
  <2> QED
    BY <1>0, <2>1, <2>2, <2>3, <2>4, SameUsers DEF UseInv, CallRelease
<1>3. ASSUME NEW t \in Threads, Library(t)
      PROVE  UseInv'
  BY <1>3, LibraryKeepsUseInv
<1>4. CASE UNCHANGED vars
  <2>1. IInv'
    BY <1>0, <1>4, NextKeepsIInv DEF vars, semVars
  <2> QED
    BY <1>0, <1>4, <2>1 DEF vars, semVars, UseInv, CallInv, CountInv, Users
<1> QED
  BY <1>1, <1>2, <1>3, <1>4 DEF UseNext

THEOREM UseInvAlways == UseSpec => []UseInv
<1>1. UseInit => UseInv
  BY InitUseInv
<1>2. UseInv /\ [UseNext]_vars => UseInv'
  BY NextKeepsUseInv
<1> QED
  BY <1>1, <1>2, PTL DEF UseSpec

(* The threads that wait for m are users of m that are not in their        *)
(* critical sections: there is room for no more than Permits[m] others.    *)
LEMMA UseInvExcludes ==
    ASSUME UseInv, NEW m \in Sems
    PROVE  Cardinality(InCS(m)) <= Permits[m]
<1> DEFINE W == Users(m) \ InCS(m)
<1>0. IInv /\ TypeOK /\ CallInv
  BY DEF UseInv, IInv
<1>1. /\ S[m] \in Int /\ Permits[m] \in Nat
      /\ S[m] = Permits[m] - Cardinality(Users(m))
  BY <1>0, SemaphoreAssumption DEF UseInv, CountInv, TypeOK
<1>2. InCS(m) \subseteq Users(m)
  BY DEF InCS, Users
<1>3. /\ IsFiniteSet(InCS(m)) /\ Cardinality(InCS(m)) \in Nat
      /\ IsFiniteSet(W) /\ Cardinality(W) \in Nat
      /\ Cardinality(Users(m)) = Cardinality(InCS(m)) + Cardinality(W)
  <2>1. IsFiniteSet(InCS(m)) /\ Cardinality(InCS(m)) \in Nat
    BY <1>2, UsersIsFinite, FS_Subset, FS_CardinalityType
  <2>2. Users(m) \cap InCS(m) = InCS(m)
    BY <1>2
  <2>3. IsFiniteSet(W) /\ Cardinality(W) = Cardinality(Users(m)) - Cardinality(InCS(m))
    BY <2>2, UsersIsFinite, FS_Difference
  <2> QED
    BY <2>1, <2>3, UsersIsFinite, FS_CardinalityType
<1>4. Waiting(m) \subseteq W
  BY <1>0 DEF Waiting, Users, InCS, CallInv, AcqLabels
<1>5. Cardinality(Waiting(m)) <= Cardinality(W)
  BY <1>3, <1>4, FS_Subset
<1> QED
  BY <1>0, <1>1, <1>3, <1>5, WaitersOweS

(* At most Permits[m] threads, one for a mutex, are between acquire_mutex  *)
(* and release_mutex: what tester.c:93-101 asserts of the lock.            *)
THEOREM MutualExclusionAlways == UseSpec => []MutualExclusion
<1>1. UseInv => MutualExclusion
  BY UseInvExcludes DEF MutualExclusion
<1> QED
  BY <1>1, UseInvAlways, PTL

=============================================================================
