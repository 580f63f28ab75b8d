----------------------------- MODULE VmProofs -----------------------------
(* The inductive invariant of the virtual memory simulator, for any number of processes,     *)
(* pages and frames.                                                                         *)
(*                                                                                           *)
(* Allocation, free and the two ways to handle a fault change one PTE: OnePteMoves says what *)
(* that does to the mappings of every frame. A fork changes them all: ForkedMappings says    *)
(* that it adds to a frame as many mappings as the parent had.                               *)
EXTENDS VmConsole, FiniteSetTheorems, TLAPS

\* What allocations, forks and switches preserve even where a frame that may be written is shared.
CountsInv == TypeOK /\ ProcessesAreOnce /\ PermissionsAreKept /\ MapcountsAreExact

LEMMA IInvCounts == IInv => CountsInv
BY DEF IInv, CountsInv

Mapped(p, v) == pagetable[p][v].pfn

LEMMA MappingsFinite == \A f : IsFiniteSet(Mappings(f))
<1>1. IsFiniteSet(Pids \X Vpns)
  <2>1. IsFiniteSet(Vpns)
    BY FS_Interval, SizesAssumption DEF Vpns
  <2> QED BY <2>1, FS_Product, PidsAssumption
<1>2. \A f : Mappings(f) \subseteq Pids \X Vpns
  BY DEF Mappings
<1> QED BY <1>1, <1>2, FS_Subset

LEMMA MappingsFiniteNext == \A f : IsFiniteSet(Mappings(f)')
<1>1. IsFiniteSet(Pids \X Vpns)
  <2>1. IsFiniteSet(Vpns)
    BY FS_Interval, SizesAssumption DEF Vpns
  <2> QED BY <2>1, FS_Product, PidsAssumption
<1>2. \A f : Mappings(f)' \subseteq Pids \X Vpns
  BY DEF Mappings
<1> QED BY <1>1, <1>2, FS_Subset

LEMMA UintMaxIsPositive == UintMax \in Nat /\ UintMax >= 1
<1>1. IsFiniteSet(Pids \X Vpns)
  <2>1. IsFiniteSet(Vpns)
    BY FS_Interval, SizesAssumption DEF Vpns
  <2> QED BY <2>1, FS_Product, PidsAssumption
<1>2. <<0, 0>> \in Pids \X Vpns
  <2>1. NrPtesPerPage * NrPtesPerPage >= 1
    BY SizesAssumption
  <2>2. 0 \in Vpns
    BY <2>1, SizesAssumption DEF Vpns
  <2> QED BY <2>2, PidsAssumption
<1>3. Cardinality(Pids \X Vpns) \in Nat /\ Cardinality(Pids \X Vpns) # 0
  BY <1>1, <1>2, FS_CardinalityType, FS_EmptySet
<1> QED BY <1>3, SizesAssumption

LEMMA PteType ==
  ASSUME TypeOK, NEW p \in Pids, NEW v, v \in DOMAIN pagetable[p]
  PROVE  v \in Vpns /\ pagetable[p][v] \in Pte
BY DEF TypeOK

\* A frame with no mapping is mapped by nobody, and one with a single mapping by one PTE.
LEMMA FreeIsUnmapped ==
  ASSUME TypeOK, MapcountsAreExact, ~exhausted, NEW f \in Frames, mapcounts[f] = 0
  PROVE  Mappings(f) = {}
BY MappingsFinite, FS_EmptySet DEF MapcountsAreExact

LEMMA SingleMapping ==
  ASSUME TypeOK, MapcountsAreExact, ~exhausted, NEW f \in Frames, mapcounts[f] = 1,
         NEW m \in Mappings(f), NEW n \in Mappings(f)
  PROVE  m = n
<1>1. Cardinality(Mappings(f)) = 1
  BY DEF MapcountsAreExact
<1>2. PICK x : Mappings(f) = {x}
  BY <1>1, MappingsFinite, FS_Singleton
<1> QED BY <1>2

\* The PTE of page v of the running process is the only one whose mapping may change.
OnlyPte(v) ==
    \A p \in Pids : \A w \in Vpns :
        (p # current \/ w # v)
        => /\ Valid(p, w)' <=> Valid(p, w)
           /\ Valid(p, w) => pagetable'[p][w] = pagetable[p][w]

LEMMA OnePteMoves ==
  ASSUME TypeOK, NEW v \in Vpns, OnlyPte(v), current' = current, NEW f \in Frames
  PROVE  Mappings(f)' = (Mappings(f) \ {<<current, v>>})
                        \cup (IF Valid(current, v)' /\ Mapped(current, v)' = f
                              THEN {<<current, v>>} ELSE {})
BY DEF OnlyPte, Mappings, Mapped, TypeOK

LEMMA OnePteCounts ==
  ASSUME TypeOK, NEW v \in Vpns, OnlyPte(v), current' = current, NEW f \in Frames
  PROVE  LET lost   == Valid(current, v) /\ Mapped(current, v) = f
             gained == Valid(current, v)' /\ Mapped(current, v)' = f
         IN  Cardinality(Mappings(f)') =
                Cardinality(Mappings(f)) - (IF lost THEN 1 ELSE 0) + (IF gained THEN 1 ELSE 0)
<1> DEFINE m == <<current, v>>
           rest == Mappings(f) \ {m}
<1>1. IsFiniteSet(Mappings(f)) /\ IsFiniteSet(rest)
  BY MappingsFinite, FS_RemoveElement
<1>2. Cardinality(rest) = Cardinality(Mappings(f)) - (IF m \in Mappings(f) THEN 1 ELSE 0)
  <2>1. CASE m \in Mappings(f)
    BY <2>1, MappingsFinite, FS_RemoveElement
  <2>2. CASE m \notin Mappings(f)
    <3>1. rest = Mappings(f)
      BY <2>2
    <3>2. Cardinality(Mappings(f)) \in Nat
      BY MappingsFinite, FS_CardinalityType
    <3> QED BY <2>2, <3>1, <3>2
  <2> QED BY <2>1, <2>2
<1>3. Cardinality(rest \cup {m}) = Cardinality(rest) + 1
  BY <1>1, FS_AddElement
<1>4. m \in Mappings(f) <=> Valid(current, v) /\ Mapped(current, v) = f
  BY DEF Mappings, Mapped, TypeOK
<1>5. Cardinality(Mappings(f)) \in Nat /\ Cardinality(rest) \in Nat
  BY <1>1, FS_CardinalityType
<1>6. CASE Valid(current, v)' /\ Mapped(current, v)' = f
  <2>1. Mappings(f)' = rest \cup {m}
    BY <1>6, OnePteMoves
  <2> QED BY <1>2, <1>3, <1>4, <1>5, <1>6, <2>1
<1>7. CASE ~(Valid(current, v)' /\ Mapped(current, v)' = f)
  <2>1. Mappings(f)' = rest
    BY <1>7, OnePteMoves
  <2> QED BY <1>2, <1>4, <1>5, <1>7, <2>1
<1> QED BY <1>6, <1>7

\* A PTE in a frame that no other PTE maps upsets nobody.
LEMMA AloneInItsFrame ==
  ASSUME WritableIsUnshared, SharersAreRelatives, UNCHANGED exhausted,
         NEW v \in Vpns, OnlyPte(v), NEW f, pagetable'[current][v].pfn = f,
         ~exhausted => \A p \in Pids : \A w \in Vpns :
                          Valid(p, w) /\ pagetable[p][w].pfn = f => p = current /\ w = v
  PROVE  WritableIsUnshared' /\ SharersAreRelatives'
<1>1. WritableIsUnshared'
  <2> SUFFICES ASSUME ~exhausted, NEW p \in Pids, NEW q \in Pids, NEW w \in Vpns, NEW x \in Vpns,
                      Valid(p, w)', Valid(q, x)', pagetable'[p][w].writable,
                      pagetable'[p][w].pfn = pagetable'[q][x].pfn
               PROVE  p = q /\ w = x
    BY DEF WritableIsUnshared
  <2>1. CASE (p # current \/ w # v) /\ (q # current \/ x # v)
    BY <2>1 DEF WritableIsUnshared, OnlyPte
  <2>2. CASE (p # current \/ w # v) /\ ~(q # current \/ x # v)
    BY <2>2 DEF OnlyPte
  <2>3. CASE ~(p # current \/ w # v) /\ (q # current \/ x # v)
    BY <2>3 DEF OnlyPte
  <2> QED BY <2>1, <2>2, <2>3
<1>2. SharersAreRelatives'
  <2> SUFFICES ASSUME ~exhausted, NEW p \in Pids, NEW q \in Pids, NEW w \in Vpns, NEW x \in Vpns,
                      Valid(p, w)', Valid(q, x)',
                      pagetable'[p][w].pfn = pagetable'[q][x].pfn
               PROVE  w = x /\ pagetable'[p][w].private = pagetable'[q][x].private
    BY DEF SharersAreRelatives
  <2>1. CASE (p # current \/ w # v) /\ (q # current \/ x # v)
    BY <2>1 DEF SharersAreRelatives, OnlyPte
  <2>2. CASE (p # current \/ w # v) /\ ~(q # current \/ x # v)
    BY <2>2 DEF OnlyPte
  <2>3. CASE ~(p # current \/ w # v) /\ (q # current \/ x # v)
    BY <2>3 DEF OnlyPte
  <2>4. CASE ~(p # current \/ w # v) /\ ~(q # current \/ x # v)
    BY <2>4
  <2> QED BY <2>1, <2>2, <2>3, <2>4
<1> QED BY <1>1, <1>2

---------------------------------------------------------------------------
(* The processes *)

\* A command that moves no process keeps the list.
LEMMA ListIsKept ==
  ASSUME ProcessesAreOnce, UNCHANGED <<current, processes>>,
         \A p \in Pids \ {current} : pagetable'[p] = pagetable[p]
  PROVE  ProcessesAreOnce'
BY DEF ProcessesAreOnce, Live

THEOREM InitIInv == Init => IInv
<1> SUFFICES ASSUME Init PROVE IInv
  OBVIOUS
<1>1. TypeOK
  BY PidsAssumption, SizesAssumption DEF Init, TypeOK, NoDirectories, Outcomes
<1>2. \A p \in Pids : \A v : ~Valid(p, v)
  BY DEF Init, Valid, NoDirectories
<1>3. ProcessesAreOnce
  BY DEF Init, ProcessesAreOnce, Live
<1>4. PermissionsAreKept
  BY DEF Init, PermissionsAreKept, NoDirectories
<1>5. MapcountsAreExact
  <2> SUFFICES ASSUME NEW f \in Frames PROVE mapcounts[f] = Cardinality(Mappings(f))
    BY DEF MapcountsAreExact
  <2>1. Mappings(f) = {}
    BY <1>2 DEF Mappings
  <2> QED BY <2>1, FS_EmptySet DEF Init
<1>6. WritableIsUnshared /\ SharersAreRelatives
  BY <1>2 DEF WritableIsUnshared, SharersAreRelatives
<1> QED BY <1>1, <1>3, <1>4, <1>5, <1>6 DEF IInv

---------------------------------------------------------------------------
(* Allocation *)

LEMMA WithPageType ==
  ASSUME TypeOK, NEW v \in Vpns, NEW rw, NEW f \in Frames
  PROVE  LET pt == WithPage(table, v, rw, f)
         IN  /\ DOMAIN pt \subseteq Vpns
             /\ pt \in [DOMAIN pt -> Pte]
             /\ v \in DOMAIN pt
             /\ pt[v] = [valid |-> TRUE, writable |-> rw # "r", private |-> rw # "r", pfn |-> f]
             /\ \A w \in DOMAIN pt : w # v => pt[w] = IF w \in DOMAIN table THEN table[w] ELSE ZeroPte
             /\ DOMAIN table \subseteq DOMAIN pt
<1>1. v \in Directory(v) /\ Directory(v) \subseteq Vpns
  BY DEF Directory
<1>2. ZeroPte \in Pte
  BY SizesAssumption DEF ZeroPte, Pte, Frames
<1>3. \A w \in DOMAIN table : w \in Vpns /\ table[w] \in Pte
  BY DEF TypeOK, table
<1>4. [valid |-> TRUE, writable |-> rw # "r", private |-> rw # "r", pfn |-> f] \in Pte
  BY DEF Pte
<1> QED BY <1>1, <1>2, <1>3, <1>4 DEF WithPage

LEMMA OldPfnType ==
  ASSUME TypeOK, NEW v
  PROVE  OldPfn(v) \in Frames
BY SizesAssumption DEF TypeOK, OldPfn, table, Pte, Frames

\* What an allocation does to the page tables, whatever the frame.
LEMMA AllocatedPte ==
  ASSUME TypeOK, NEW v \in Vpns, NEW rw, NEW f \in Frames, ~Translates(table, v, "read"),
         pagetable' = [pagetable EXCEPT ![current] = WithPage(table, v, rw, f)]
  PROVE  /\ OnlyPte(v)
         /\ ~Valid(current, v)
         /\ pagetable'[current][v].valid
         /\ pagetable'[current][v].pfn = f
         /\ v \in DOMAIN pagetable'[current]
         /\ \A p \in Pids \ {current} : pagetable'[p] = pagetable[p]
         /\ DOMAIN pagetable' = Pids
         /\ \A p \in Pids : /\ DOMAIN pagetable'[p] \subseteq Vpns
                            /\ pagetable'[p] \in [DOMAIN pagetable'[p] -> Pte]
         /\ PermissionsAreKept => PermissionsAreKept'
<1> DEFINE pt == WithPage(table, v, rw, f)
<1>1. pagetable'[current] = pt /\ \A p \in Pids \ {current} : pagetable'[p] = pagetable[p]
  BY DEF TypeOK
<1>2. /\ DOMAIN pt \subseteq Vpns
      /\ pt \in [DOMAIN pt -> Pte]
      /\ v \in DOMAIN pt
      /\ pt[v] = [valid |-> TRUE, writable |-> rw # "r", private |-> rw # "r", pfn |-> f]
      /\ \A w \in DOMAIN pt : w # v => pt[w] = IF w \in DOMAIN table THEN table[w] ELSE ZeroPte
      /\ DOMAIN table \subseteq DOMAIN pt
  BY WithPageType
<1> HIDE DEF pt
<1>3. OnlyPte(v)
  <2> SUFFICES ASSUME NEW p \in Pids, NEW w \in Vpns, p # current \/ w # v
               PROVE  /\ Valid(p, w)' <=> Valid(p, w)
                      /\ Valid(p, w) => pagetable'[p][w] = pagetable[p][w]
    BY DEF OnlyPte
  <2>1. CASE p # current
    BY <1>1, <2>1 DEF Valid
  <2>2. CASE p = current /\ w \in DOMAIN table
    BY <1>1, <1>2, <2>2 DEF Valid, table
  <2>3. CASE p = current /\ w \notin DOMAIN table
    BY <1>1, <1>2, <2>3 DEF Valid, table, ZeroPte
  <2> QED BY <2>1, <2>2, <2>3
<1>4. ~Valid(current, v)
  BY DEF Translates, Valid, table
<1>5. \A p \in Pids : /\ DOMAIN pagetable'[p] \subseteq Vpns
                      /\ pagetable'[p] \in [DOMAIN pagetable'[p] -> Pte]
  BY <1>1, <1>2 DEF TypeOK
<1>6. ASSUME PermissionsAreKept PROVE PermissionsAreKept'
  <2> SUFFICES ASSUME NEW p \in Pids, NEW w \in DOMAIN pagetable'[p], pagetable'[p][w].writable
               PROVE  pagetable'[p][w].valid /\ pagetable'[p][w].private
    BY DEF PermissionsAreKept
  <2>1. CASE p # current
    BY <1>1, <1>6, <2>1 DEF PermissionsAreKept
  <2>2. CASE p = current /\ w = v
    BY <1>1, <1>2, <2>2
  <2>3. CASE p = current /\ w # v /\ w \in DOMAIN table
    BY <1>1, <1>2, <1>6, <2>3 DEF PermissionsAreKept, table
  <2>4. CASE p = current /\ w # v /\ w \notin DOMAIN table
    BY <1>1, <1>2, <2>4 DEF ZeroPte
  <2> QED BY <2>1, <2>2, <2>3, <2>4
<1> QED BY <1>1, <1>2, <1>3, <1>4, <1>5, <1>6 DEF TypeOK

\* The state after an allocation that found a frame.
LEMMA AllocFrameKeeps ==
  ASSUME CountsInv, NEW v \in Vpns, NEW rw \in {"r", "rw"}, ~Translates(table, v, "read"),
         AllocFrame(v, rw), outcome' = "allocated", UNCHANGED <<current, processes, running>>
  PROVE  CountsInv' /\ (IInv => IInv')
<1>0. TypeOK /\ ProcessesAreOnce /\ PermissionsAreKept /\ MapcountsAreExact
  BY DEF CountsInv
<1>1. PICK f \in Frames :
        /\ FirstFree(f)
        /\ mapcounts' = [mapcounts EXCEPT ![f] = 1]
        /\ pagetable' = [pagetable EXCEPT ![current] = WithPage(table, v, rw, f)]
        /\ exhausted' = exhausted
  BY DEF AllocFrame
<1>2. mapcounts[f] = 0
  BY <1>1 DEF FirstFree, FreeFrames
<1>3. /\ OnlyPte(v)
      /\ ~Valid(current, v)
      /\ pagetable'[current][v].valid
      /\ pagetable'[current][v].pfn = f
      /\ v \in DOMAIN pagetable'[current]
      /\ \A p \in Pids \ {current} : pagetable'[p] = pagetable[p]
      /\ DOMAIN pagetable' = Pids
      /\ \A p \in Pids : /\ DOMAIN pagetable'[p] \subseteq Vpns
                         /\ pagetable'[p] \in [DOMAIN pagetable'[p] -> Pte]
      /\ PermissionsAreKept'
  <2>1. pagetable' = [pagetable EXCEPT ![current] = WithPage(table, v, rw, f)]
    BY <1>1
  <2> QED BY <1>0, <2>1, AllocatedPte
<1>4. TypeOK'
  <2>1. mapcounts' \in [Frames -> 0 .. UintMax]
    BY <1>0, <1>1, UintMaxIsPositive DEF TypeOK
  <2> QED BY <1>0, <1>1, <1>3, <2>1 DEF TypeOK, Outcomes
<1>5. ProcessesAreOnce'
  BY <1>0, <1>3, ListIsKept
<1>6. Valid(current, v)' /\ Mapped(current, v)' = f
  BY <1>3 DEF Valid, Mapped
<1>7. MapcountsAreExact'
  <2> SUFFICES ASSUME ~exhausted, NEW g \in Frames PROVE mapcounts'[g] = Cardinality(Mappings(g)')
    BY <1>1 DEF MapcountsAreExact
  <2>1. mapcounts[g] = Cardinality(Mappings(g)) /\ Cardinality(Mappings(g)) \in Nat
    BY <1>0, MappingsFinite, FS_CardinalityType DEF MapcountsAreExact
  <2>2. Cardinality(Mappings(g)') = Cardinality(Mappings(g)) + (IF f = g THEN 1 ELSE 0)
    BY <1>0, <1>3, <1>6, <2>1, OnePteCounts
  <2> QED BY <1>0, <1>1, <1>2, <2>1, <2>2 DEF TypeOK
<1>8. ~exhausted => \A p \in Pids : \A w \in Vpns : ~(Valid(p, w) /\ pagetable[p][w].pfn = f)
  <2> SUFFICES ASSUME ~exhausted, NEW p \in Pids, NEW w \in Vpns
               PROVE  ~(Valid(p, w) /\ pagetable[p][w].pfn = f)
    OBVIOUS
  <2>1. <<p, w>> \notin Mappings(f)
    BY <1>0, <1>2, FreeIsUnmapped
  <2> QED BY <2>1 DEF Mappings
<1>9. ASSUME IInv PROVE WritableIsUnshared' /\ SharersAreRelatives'
  BY <1>0, <1>1, <1>3, <1>8, <1>9, AloneInItsFrame DEF IInv
<1> QED BY <1>3, <1>4, <1>5, <1>7, <1>9 DEF CountsInv, IInv

\* Nothing is promised of the counts once a frame was wanted in vain.
LEMMA AllocNoFrameKeeps ==
  ASSUME CountsInv, NEW v \in Vpns, NEW rw \in {"r", "rw"}, ~Translates(table, v, "read"),
         AllocNoFrame(v, rw), outcome' = "allocated", UNCHANGED <<current, processes, running>>
  PROVE  CountsInv' /\ IInv'
<1>0. TypeOK /\ ProcessesAreOnce /\ PermissionsAreKept
  BY DEF CountsInv
<1>1. OldPfn(v) \in Frames
  BY <1>0, OldPfnType
<1>2. /\ \A p \in Pids \ {current} : pagetable'[p] = pagetable[p]
      /\ DOMAIN pagetable' = Pids
      /\ \A p \in Pids : /\ DOMAIN pagetable'[p] \subseteq Vpns
                         /\ pagetable'[p] \in [DOMAIN pagetable'[p] -> Pte]
      /\ PermissionsAreKept'
  BY <1>0, <1>1, AllocatedPte DEF AllocNoFrame
<1>3. TypeOK'
  BY <1>0, <1>2 DEF TypeOK, Outcomes, AllocNoFrame
<1>4. ProcessesAreOnce'
  BY <1>0, <1>2, ListIsKept
<1>5. MapcountsAreExact' /\ WritableIsUnshared' /\ SharersAreRelatives'
  BY DEF AllocNoFrame, MapcountsAreExact, WritableIsUnshared, SharersAreRelatives
<1> QED BY <1>2, <1>3, <1>4, <1>5 DEF CountsInv, IInv

---------------------------------------------------------------------------
(* Free *)

LEMMA DecrementIsExact == \A n \in 1 .. UintMax : Decrement(n) = n - 1
BY SizesAssumption DEF Decrement

LEMMA DecrementType == \A n \in 0 .. UintMax : Decrement(n) \in 0 .. UintMax
BY SizesAssumption DEF Decrement

LEMMA FreeKeepsIInv ==
  ASSUME IInv, NEW v \in Vpns, Free(v)
  PROVE  IInv'
<1>0. /\ TypeOK /\ ProcessesAreOnce /\ PermissionsAreKept
      /\ MapcountsAreExact /\ WritableIsUnshared /\ SharersAreRelatives
  BY DEF IInv
<1> DEFINE f == table[v].pfn
<1>1. /\ current \in Pids
      /\ v \in DOMAIN pagetable[current]
      /\ Valid(current, v) /\ Mapped(current, v) = f
      /\ f \in Frames
  BY <1>0 DEF Free, Translates, table, Valid, Mapped, TypeOK, Pte
<1>2. /\ pagetable' = [pagetable EXCEPT ![current][v] = ZeroPte]
      /\ mapcounts' = [mapcounts EXCEPT ![f] = Decrement(@)]
      /\ UNCHANGED <<current, processes, running, exhausted>>
      /\ outcome' = "freed"
  BY DEF Free
<1> HIDE DEF f
<1>3. ZeroPte \in Pte
  BY SizesAssumption DEF ZeroPte, Pte, Frames
<1>4. /\ DOMAIN pagetable' = Pids
      /\ \A p \in Pids \ {current} : pagetable'[p] = pagetable[p]
      /\ DOMAIN pagetable'[current] = DOMAIN pagetable[current]
      /\ pagetable'[current][v] = ZeroPte
      /\ \A w \in DOMAIN pagetable[current] : w # v => pagetable'[current][w] = pagetable[current][w]
      /\ pagetable'[current] \in [DOMAIN pagetable[current] -> Pte]
  BY <1>0, <1>1, <1>2, <1>3 DEF TypeOK
<1>5. OnlyPte(v)
  BY <1>1, <1>4 DEF OnlyPte, Valid
<1>6. ~Valid(current, v)'
  BY <1>2, <1>4 DEF Valid, ZeroPte
<1>7. TypeOK'
  <2>1. mapcounts' \in [Frames -> 0 .. UintMax]
    BY <1>0, <1>1, <1>2, DecrementType DEF TypeOK
  <2>2. \A p \in Pids : /\ DOMAIN pagetable'[p] \subseteq Vpns
                        /\ pagetable'[p] \in [DOMAIN pagetable'[p] -> Pte]
    BY <1>0, <1>4 DEF TypeOK
  <2> QED BY <1>0, <1>2, <1>4, <2>1, <2>2 DEF TypeOK, Outcomes
<1>8. ProcessesAreOnce'
  BY <1>0, <1>2, <1>4, ListIsKept
<1>9. PermissionsAreKept'
  <2> SUFFICES ASSUME NEW p \in Pids, NEW w \in DOMAIN pagetable'[p], pagetable'[p][w].writable
               PROVE  pagetable'[p][w].valid /\ pagetable'[p][w].private
    BY DEF PermissionsAreKept
  <2>1. CASE p = current /\ w = v
    BY <1>4, <2>1 DEF ZeroPte
  <2>2. CASE ~(p = current /\ w = v)
    BY <1>0, <1>4, <2>2 DEF PermissionsAreKept
  <2> QED BY <2>1, <2>2
<1>10. MapcountsAreExact'
  <2> SUFFICES ASSUME ~exhausted, NEW g \in Frames PROVE mapcounts'[g] = Cardinality(Mappings(g)')
    BY <1>2 DEF MapcountsAreExact
  <2>1. mapcounts[g] = Cardinality(Mappings(g)) /\ Cardinality(Mappings(g)) \in Nat
    BY <1>0, MappingsFinite, FS_CardinalityType DEF MapcountsAreExact
  <2>2. Cardinality(Mappings(g)') = Cardinality(Mappings(g)) - (IF f = g THEN 1 ELSE 0)
    BY <1>0, <1>1, <1>2, <1>5, <1>6, <2>1, OnePteCounts
  <2>3. Cardinality(Mappings(g)') \in Nat
    BY MappingsFiniteNext, FS_CardinalityType
  <2>4. CASE f = g
    BY <1>0, <1>1, <1>2, <2>1, <2>2, <2>3, <2>4, DecrementIsExact DEF TypeOK
  <2>5. CASE f # g
    BY <1>0, <1>1, <1>2, <2>1, <2>2, <2>5 DEF TypeOK
  <2> QED BY <2>4, <2>5
<1>11. \A p \in Pids : \A w \in Vpns :
          Valid(p, w)' => Valid(p, w) /\ pagetable'[p][w] = pagetable[p][w]
  BY <1>5, <1>6, <1>2 DEF OnlyPte
<1>12. WritableIsUnshared'
  BY <1>0, <1>2, <1>11 DEF WritableIsUnshared
<1>13. SharersAreRelatives'
  BY <1>0, <1>2, <1>11 DEF SharersAreRelatives
<1> QED BY <1>7, <1>8, <1>9, <1>10, <1>12, <1>13 DEF IInv

---------------------------------------------------------------------------
(* Page faults *)

\* What a handled fault does to the page tables: the PTE of page v is writable, in frame f.
LEMMA FaultedPte ==
  ASSUME TypeOK, NEW v, Recoverable(v), NEW f \in Frames,
         MakeWritable(v, f)
  PROVE  /\ v \in Vpns
         /\ Valid(current, v)
         /\ OnlyPte(v)
         /\ v \in DOMAIN pagetable'[current]
         /\ pagetable'[current][v].valid
         /\ pagetable'[current][v].pfn = f
         /\ pagetable'[current][v].private = pagetable[current][v].private
         /\ DOMAIN pagetable' = Pids
         /\ \A p \in Pids \ {current} : pagetable'[p] = pagetable[p]
         /\ \A p \in Pids : /\ DOMAIN pagetable'[p] \subseteq Vpns
                            /\ pagetable'[p] \in [DOMAIN pagetable'[p] -> Pte]
         /\ PermissionsAreKept => PermissionsAreKept'
<1> DEFINE new == [pagetable[current][v] EXCEPT !.writable = TRUE, !.pfn = f]
<1>1. /\ current \in Pids /\ v \in DOMAIN pagetable[current] /\ v \in Vpns
      /\ pagetable[current][v] \in Pte
      /\ pagetable[current][v].valid /\ pagetable[current][v].private
  BY DEF TypeOK, Recoverable, table
<1>2. new \in Pte /\ new.valid /\ new.private /\ new.pfn = f
      /\ new.private = pagetable[current][v].private
  BY <1>1 DEF Pte
<1>0. /\ DOMAIN pagetable' = Pids
      /\ \A p \in Pids \ {current} : pagetable'[p] = pagetable[p]
      /\ pagetable'[current] = [pagetable[current] EXCEPT ![v] = new]
  BY <1>1 DEF MakeWritable, TypeOK
<1> HIDE DEF new
<1>3. /\ DOMAIN pagetable'[current] = DOMAIN pagetable[current]
      /\ pagetable'[current][v] = new
      /\ \A w \in DOMAIN pagetable[current] : w # v => pagetable'[current][w] = pagetable[current][w]
      /\ pagetable'[current] \in [DOMAIN pagetable[current] -> Pte]
  BY <1>0, <1>1, <1>2 DEF TypeOK
<1>4. OnlyPte(v)
  BY <1>0, <1>1, <1>3 DEF OnlyPte, Valid
<1>5. Valid(current, v)
  BY <1>1 DEF Valid
<1>6. \A p \in Pids : /\ DOMAIN pagetable'[p] \subseteq Vpns
                      /\ pagetable'[p] \in [DOMAIN pagetable'[p] -> Pte]
  BY <1>0, <1>3 DEF TypeOK
<1>7. ASSUME PermissionsAreKept PROVE PermissionsAreKept'
  <2> SUFFICES ASSUME NEW p \in Pids, NEW w \in DOMAIN pagetable'[p], pagetable'[p][w].writable
               PROVE  pagetable'[p][w].valid /\ pagetable'[p][w].private
    BY DEF PermissionsAreKept
  <2>1. CASE p = current /\ w = v
    BY <1>2, <1>3, <2>1
  <2>2. CASE ~(p = current /\ w = v)
    BY <1>0, <1>3, <1>7, <2>2 DEF PermissionsAreKept
  <2> QED BY <2>1, <2>2
<1> QED BY <1>0, <1>1, <1>2, <1>3, <1>4, <1>5, <1>6, <1>7

LEMMA ReclaimKeepsIInv ==
  ASSUME IInv, NEW v, Recoverable(v), Reclaim(v), UNCHANGED <<current, processes, running>>,
         outcome' \in Outcomes
  PROVE  IInv'
<1>0. /\ TypeOK /\ ProcessesAreOnce /\ PermissionsAreKept
      /\ MapcountsAreExact /\ WritableIsUnshared /\ SharersAreRelatives
  BY DEF IInv
<1> DEFINE f == table[v].pfn
<1>1. f \in Frames /\ Mapped(current, v) = f
  BY <1>0 DEF Recoverable, table, TypeOK, Pte, Mapped
<1>2. MakeWritable(v, f) /\ mapcounts[f] = 1 /\ UNCHANGED <<mapcounts, exhausted>>
  BY DEF Reclaim
<1> HIDE DEF f
<1>3. /\ v \in Vpns
      /\ Valid(current, v)
      /\ OnlyPte(v)
      /\ v \in DOMAIN pagetable'[current]
      /\ pagetable'[current][v].valid
      /\ pagetable'[current][v].pfn = f
      /\ pagetable'[current][v].private = pagetable[current][v].private
      /\ DOMAIN pagetable' = Pids
      /\ \A p \in Pids \ {current} : pagetable'[p] = pagetable[p]
      /\ \A p \in Pids : /\ DOMAIN pagetable'[p] \subseteq Vpns
                         /\ pagetable'[p] \in [DOMAIN pagetable'[p] -> Pte]
      /\ PermissionsAreKept'
  BY <1>0, <1>1, <1>2, FaultedPte
<1>4. TypeOK'
  BY <1>0, <1>2, <1>3 DEF TypeOK
<1>5. ProcessesAreOnce'
  BY <1>0, <1>3, ListIsKept
<1>6. Valid(current, v)' /\ Mapped(current, v)' = f
  BY <1>3 DEF Valid, Mapped
<1>7. MapcountsAreExact'
  <2> SUFFICES ASSUME ~exhausted, NEW g \in Frames PROVE mapcounts'[g] = Cardinality(Mappings(g)')
    BY <1>2 DEF MapcountsAreExact
  <2>1. mapcounts[g] = Cardinality(Mappings(g)) /\ Cardinality(Mappings(g)) \in Nat
    BY <1>0, MappingsFinite, FS_CardinalityType DEF MapcountsAreExact
  <2>2. Cardinality(Mappings(g)') = Cardinality(Mappings(g))
    BY <1>0, <1>1, <1>3, <1>6, <2>1, OnePteCounts
  <2> QED BY <1>2, <2>1, <2>2
\* Nobody else maps the frame, so that the page may be written where it is.
<1>8. ~exhausted => \A p \in Pids : \A w \in Vpns :
                       Valid(p, w) /\ pagetable[p][w].pfn = f => p = current /\ w = v
  <2> SUFFICES ASSUME ~exhausted, NEW p \in Pids, NEW w \in Vpns,
                      Valid(p, w), pagetable[p][w].pfn = f
               PROVE  p = current /\ w = v
    OBVIOUS
  <2>1. <<p, w>> \in Mappings(f) /\ <<current, v>> \in Mappings(f)
    BY <1>0, <1>1, <1>3 DEF Mappings, Mapped, TypeOK
  <2>2. <<p, w>> = <<current, v>>
    BY <1>0, <1>1, <1>2, <2>1, SingleMapping
  <2> QED BY <2>2
<1>9. WritableIsUnshared' /\ SharersAreRelatives'
  BY <1>0, <1>2, <1>3, <1>8, AloneInItsFrame
<1> QED BY <1>3, <1>4, <1>5, <1>7, <1>9 DEF IInv

\* A sum that fits an unsigned int does not wrap.
LEMMA IncrementIsExact ==
  ASSUME NEW n \in Nat, NEW k \in Nat, n + k =< UintMax
  PROVE  Increment(n, k) = n + k
BY SizesAssumption, SMT DEF Increment

LEMMA IncrementType ==
  ASSUME NEW n \in Nat, NEW k \in Nat
  PROVE  Increment(n, k) \in 0 .. UintMax
BY SizesAssumption, SMT DEF Increment

LEMMA CopyOnWriteKeepsIInv ==
  ASSUME IInv, NEW v, Recoverable(v), CopyOnWrite(v), UNCHANGED <<current, processes, running>>,
         outcome' \in Outcomes
  PROVE  IInv'
<1>0. /\ TypeOK /\ ProcessesAreOnce /\ PermissionsAreKept
      /\ MapcountsAreExact /\ WritableIsUnshared /\ SharersAreRelatives
  BY DEF IInv
<1> DEFINE old == table[v].pfn
           less == [mapcounts EXCEPT ![old] = Decrement(@)]
<1>1. old \in Frames /\ Mapped(current, v) = old
  BY <1>0 DEF Recoverable, table, TypeOK, Pte, Mapped
<1>2. PICK f \in Frames :
        /\ FirstFree(f)
        /\ MakeWritable(v, f)
        /\ mapcounts[old] # 1
        /\ mapcounts' = [less EXCEPT ![f] = Increment(@, 1)]
        /\ exhausted' = exhausted
  BY DEF CopyOnWrite
<1>a. mapcounts[f] = 0
  BY <1>2 DEF FirstFree, FreeFrames
<1>b. old # f => mapcounts' = [mapcounts EXCEPT ![old] = Decrement(@), ![f] = 1]
  <2> SUFFICES ASSUME old # f
               PROVE  mapcounts' = [mapcounts EXCEPT ![old] = Decrement(@), ![f] = 1]
    OBVIOUS
  <2>1. Increment(mapcounts[f], 1) = 1
    BY <1>a, UintMaxIsPositive, IncrementIsExact
  <2>2. less[f] = mapcounts[f]
    BY <1>0 DEF TypeOK
  <2>3. mapcounts' = [less EXCEPT ![f] = 1]
    BY <1>2, <2>1, <2>2
  <2> QED BY <2>3
<1> HIDE DEF old
<1>3. /\ v \in Vpns
      /\ Valid(current, v)
      /\ OnlyPte(v)
      /\ v \in DOMAIN pagetable'[current]
      /\ pagetable'[current][v].valid
      /\ pagetable'[current][v].pfn = f
      /\ pagetable'[current][v].private = pagetable[current][v].private
      /\ DOMAIN pagetable' = Pids
      /\ \A p \in Pids \ {current} : pagetable'[p] = pagetable[p]
      /\ \A p \in Pids : /\ DOMAIN pagetable'[p] \subseteq Vpns
                         /\ pagetable'[p] \in [DOMAIN pagetable'[p] -> Pte]
      /\ PermissionsAreKept'
  BY <1>0, <1>2, FaultedPte
<1>4. TypeOK'
  <2>1. mapcounts' \in [Frames -> 0 .. UintMax]
    <3>1. mapcounts[old] \in 0 .. UintMax
      BY <1>0, <1>1 DEF TypeOK
    <3>2. less \in [Frames -> 0 .. UintMax]
      BY <1>0, <1>1, <3>1, DecrementType DEF TypeOK
    <3>3. mapcounts' = [less EXCEPT ![f] = Increment(@, 1)]
      BY <1>2
    <3>4. less[f] \in Nat
      BY <3>2
    <3> HIDE DEF less
    <3>5. Increment(less[f], 1) \in 0 .. UintMax
      BY <3>4, IncrementType
    <3> QED BY <3>2, <3>3, <3>5
  <2> QED BY <1>0, <1>2, <1>3, <2>1 DEF TypeOK
<1>5. ProcessesAreOnce'
  BY <1>0, <1>3, ListIsKept
<1>6. Valid(current, v)' /\ Mapped(current, v)' = f
  BY <1>3 DEF Valid, Mapped
<1>7. MapcountsAreExact'
  <2> SUFFICES ASSUME ~exhausted, NEW g \in Frames PROVE mapcounts'[g] = Cardinality(Mappings(g)')
    BY <1>2 DEF MapcountsAreExact
  <2>1. mapcounts[g] = Cardinality(Mappings(g)) /\ Cardinality(Mappings(g)) \in Nat
    BY <1>0, MappingsFinite, FS_CardinalityType DEF MapcountsAreExact
  <2>2. Cardinality(Mappings(g)') = Cardinality(Mappings(g))
                    - (IF old = g THEN 1 ELSE 0) + (IF f = g THEN 1 ELSE 0)
    BY <1>0, <1>1, <1>3, <1>6, OnePteCounts
  <2>3. old # f
    <3>1. Mappings(f) = {}
      BY <1>0, <1>a, FreeIsUnmapped
    <3>2. <<current, v>> \in Mappings(old)
      BY <1>0, <1>1, <1>3 DEF Mappings, Mapped, TypeOK
    <3> QED BY <3>1, <3>2
  <2>4. Cardinality(Mappings(g)') \in Nat
    BY MappingsFiniteNext, FS_CardinalityType
  <2>5. CASE g = old
    <3>1. mapcounts'[g] = Decrement(mapcounts[g])
      BY <1>0, <1>1, <1>b, <2>3, <2>5 DEF TypeOK
    <3>2. mapcounts[g] \in 1 .. UintMax
      BY <1>0, <2>1, <2>2, <2>3, <2>4, <2>5 DEF TypeOK
    <3> QED BY <2>1, <2>2, <2>3, <2>5, <3>1, <3>2, DecrementIsExact
  <2>6. CASE g = f
    BY <1>0, <1>b, <1>a, <2>1, <2>2, <2>3, <2>6 DEF TypeOK
  <2>7. CASE g # old /\ g # f
    BY <1>0, <1>1, <1>b, <2>1, <2>2, <2>3, <2>7 DEF TypeOK
  <2> QED BY <2>5, <2>6, <2>7
<1>8. ~exhausted => \A p \in Pids : \A w \in Vpns : ~(Valid(p, w) /\ pagetable[p][w].pfn = f)
  <2> SUFFICES ASSUME ~exhausted, NEW p \in Pids, NEW w \in Vpns
               PROVE  ~(Valid(p, w) /\ pagetable[p][w].pfn = f)
    OBVIOUS
  <2>1. <<p, w>> \notin Mappings(f)
    BY <1>0, <1>a, FreeIsUnmapped
  <2> QED BY <2>1 DEF Mappings
<1>9. WritableIsUnshared' /\ SharersAreRelatives'
  BY <1>0, <1>2, <1>3, <1>8, AloneInItsFrame
<1> QED BY <1>3, <1>4, <1>5, <1>7, <1>9 DEF IInv

LEMMA CopyNowhereKeepsIInv ==
  ASSUME IInv, NEW v, Recoverable(v), CopyNowhere(v), UNCHANGED <<current, processes, running>>,
         outcome' \in Outcomes
  PROVE  IInv'
<1>0. TypeOK /\ ProcessesAreOnce /\ PermissionsAreKept
  BY DEF IInv
<1>1. table[v].pfn \in Frames
  BY <1>0 DEF Recoverable, table, TypeOK, Pte
<1>2. MakeWritable(v, table[v].pfn)
  BY DEF CopyNowhere
<1>3. /\ DOMAIN pagetable' = Pids
      /\ \A p \in Pids \ {current} : pagetable'[p] = pagetable[p]
      /\ \A p \in Pids : /\ DOMAIN pagetable'[p] \subseteq Vpns
                         /\ pagetable'[p] \in [DOMAIN pagetable'[p] -> Pte]
      /\ PermissionsAreKept'
  BY <1>0, <1>1, <1>2, FaultedPte
<1>4. TypeOK'
  BY <1>0, <1>3 DEF TypeOK, CopyNowhere
<1>5. ProcessesAreOnce'
  BY <1>0, <1>3, ListIsKept
<1>6. MapcountsAreExact' /\ WritableIsUnshared' /\ SharersAreRelatives'
  BY DEF CopyNowhere, MapcountsAreExact, WritableIsUnshared, SharersAreRelatives
<1> QED BY <1>3, <1>4, <1>5, <1>6 DEF IInv

LEMMA FaultKeepsIInv ==
  ASSUME IInv, NEW v, NEW rw, Fault(v, rw)
  PROVE  IInv'
<1>1. /\ Recoverable(v)
      /\ UNCHANGED <<current, processes, running>>
      /\ outcome' \in Outcomes
      /\ Reclaim(v) \/ CopyOnWrite(v) \/ CopyNowhere(v)
  BY DEF Fault, HandlePageFault, Outcomes
<1> QED BY <1>1, ReclaimKeepsIInv, CopyOnWriteKeepsIInv, CopyNowhereKeepsIInv

---------------------------------------------------------------------------
(* Switching and forking *)

LEMMA RotatedList ==
  ASSUME TypeOK, ProcessesAreOnce
  PROVE  /\ Rotated \in Seq(Pids)
         /\ Len(Rotated) = Len(processes) + 1
         /\ Len(processes) \in Nat
         /\ \A i \in 1 .. Len(Rotated) :
                Rotated[i] = IF i = Len(Rotated) THEN current ELSE processes[i]
         /\ \A i, j \in 1 .. Len(Rotated) : Rotated[i] = Rotated[j] => i = j
         /\ Live = {Rotated[i] : i \in 1 .. Len(Rotated)}
<1>1. /\ Rotated \in Seq(Pids)
      /\ Len(Rotated) = Len(processes) + 1
      /\ Len(processes) \in Nat
      /\ \A i \in 1 .. Len(Rotated) :
                Rotated[i] = IF i = Len(Rotated) THEN current ELSE processes[i]
  BY DEF TypeOK, Rotated
<1>2. DOMAIN processes = 1 .. Len(processes)
  BY DEF TypeOK
<1>3. \A i, j \in 1 .. Len(Rotated) : Rotated[i] = Rotated[j] => i = j
  BY <1>1, <1>2 DEF ProcessesAreOnce
<1>4. Live = {Rotated[i] : i \in 1 .. Len(Rotated)}
  BY <1>1, <1>2 DEF Live
<1> QED BY <1>1, <1>3, <1>4

\* A switch reorders the list and nothing else.
LEMMA SwitchKeepsLive ==
  ASSUME TypeOK, ProcessesAreOnce, NEW pid \in Pids, Switch(pid)
  PROVE  /\ pid \in Live
         /\ Live' = Live
         /\ processes' \in Seq(Pids)
         /\ \A j \in DOMAIN processes' : processes'[j] # current'
         /\ \A j, k \in DOMAIN processes' : processes'[j] = processes'[k] => j = k
<1>1. PICK i \in 1 .. Len(Rotated) :
        /\ FirstAt(Rotated, i, pid)
        /\ current' = pid
        /\ processes' = Unlinked(Rotated, i)
  BY DEF Switch
<1>2. /\ Rotated \in Seq(Pids)
      /\ Len(Rotated) = Len(processes) + 1
      /\ Len(processes) \in Nat
      /\ \A j, k \in 1 .. Len(Rotated) : Rotated[j] = Rotated[k] => j = k
      /\ Live = {Rotated[j] : j \in 1 .. Len(Rotated)}
  BY RotatedList
<1>3. /\ processes' \in Seq(Pids)
      /\ DOMAIN processes' = 1 .. Len(Rotated) - 1
      /\ \A j \in 1 .. Len(Rotated) - 1 :
            processes'[j] = IF j < i THEN Rotated[j] ELSE Rotated[j + 1]
  BY <1>1, <1>2 DEF Unlinked
<1>4. Rotated[i] = pid
  BY <1>1 DEF FirstAt
<1>5. \A j \in DOMAIN processes' : processes'[j] # current'
  BY <1>1, <1>2, <1>3, <1>4
<1>6. \A j, k \in DOMAIN processes' : processes'[j] = processes'[k] => j = k
  BY <1>2, <1>3
<1>7. Live' \subseteq Live
  <2>1. \A j \in DOMAIN processes' : processes'[j] \in Live
    BY <1>2, <1>3
  <2>2. current' \in Live
    BY <1>1, <1>2, <1>4
  <2> QED BY <2>1, <2>2 DEF Live
<1>8. Live \subseteq Live'
  <2> SUFFICES ASSUME NEW p \in Live PROVE p \in Live'
    OBVIOUS
  <2>0. PICK j \in 1 .. Len(Rotated) : p = Rotated[j]
    BY <1>2
  <2>a. current' \in Live' /\ \A k \in DOMAIN processes' : processes'[k] \in Live'
    BY DEF Live
  <2>1. CASE j < i
    <3>1. j \in DOMAIN processes' /\ processes'[j] = Rotated[j]
      BY <1>2, <1>3, <2>1
    <3> QED BY <3>1, <2>0, <2>a
  <2>2. CASE j = i
    BY <1>1, <1>4, <2>2, <2>0, <2>a
  <2>3. CASE j > i
    <3>1. j - 1 \in DOMAIN processes' /\ processes'[j - 1] = Rotated[j]
      BY <1>2, <1>3, <2>3
    <3> QED BY <3>1, <2>0, <2>a
  <2> QED BY <2>1, <2>2, <2>3, <1>2
<1> QED BY <1>2, <1>3, <1>4, <1>5, <1>6, <1>7, <1>8

LEMMA SwitchKeeps ==
  ASSUME CountsInv, NEW pid \in Pids, Switch(pid)
  PROVE  CountsInv' /\ (IInv => IInv')
<1>0. TypeOK /\ ProcessesAreOnce /\ PermissionsAreKept /\ MapcountsAreExact
  BY DEF CountsInv
<1>1. /\ current' = pid
      /\ outcome' = "switched"
      /\ UNCHANGED <<pagetable, mapcounts, running, exhausted>>
  BY DEF Switch
<1>2. /\ Live' = Live
      /\ processes' \in Seq(Pids)
      /\ \A j \in DOMAIN processes' : processes'[j] # current'
      /\ \A j, k \in DOMAIN processes' : processes'[j] = processes'[k] => j = k
  BY <1>0, SwitchKeepsLive
<1>3. TypeOK'
  BY <1>0, <1>1, <1>2 DEF TypeOK, Outcomes
<1>4. ProcessesAreOnce'
  BY <1>0, <1>1, <1>2 DEF ProcessesAreOnce
<1>5. PermissionsAreKept'
  BY <1>0, <1>1 DEF PermissionsAreKept
<1>7. ASSUME IInv PROVE WritableIsUnshared' /\ SharersAreRelatives'
  BY <1>1, <1>7 DEF IInv, WritableIsUnshared, SharersAreRelatives, Valid
<1>6. MapcountsAreExact'
  BY <1>0, <1>1 DEF MapcountsAreExact, Mappings, Valid
<1> QED BY <1>3, <1>4, <1>5, <1>6, <1>7 DEF CountsInv, IInv

\* What a fork does to the page tables.
LEMMA ForkedTables ==
  ASSUME TypeOK, ProcessesAreOnce, NEW pid \in Pids, Fork(pid)
  PROVE  /\ pid \notin Live
         /\ Live' = Live \cup {pid}
         /\ current \in Pids
         /\ DOMAIN pagetable' = Pids
         /\ \A p \in Pids \ {current, pid} : pagetable'[p] = pagetable[p]
         /\ \A p \in {current, pid} :
                /\ DOMAIN pagetable'[p] = DOMAIN pagetable[current]
                /\ pagetable'[p] \in [DOMAIN pagetable[current] -> Pte]
                /\ \A v \in DOMAIN pagetable[current] :
                       /\ pagetable'[p][v].valid = pagetable[current][v].valid
                       /\ pagetable'[p][v].private = pagetable[current][v].private
                       /\ pagetable'[p][v].pfn = pagetable[current][v].pfn
                       /\ ~pagetable'[p][v].writable
         /\ \A v : ~Valid(pid, v)
<1> DEFINE pt == Unwritable(table)
<1>1. pid \notin Live
  BY RotatedList DEF Fork
<1>2. current \in Pids /\ current \in Live
  BY DEF TypeOK, Live
<1>9. Live' = Live \cup {pid}
  <2>1. /\ current' = pid /\ processes' = Rotated
        /\ DOMAIN processes' = 1 .. Len(Rotated)
        /\ Live = {Rotated[i] : i \in 1 .. Len(Rotated)}
    BY RotatedList DEF Fork
  <2>2. {processes'[i] : i \in DOMAIN processes'} = Live
    BY <2>1
  <2> QED BY <2>1, <2>2 DEF Live
<1>3. /\ DOMAIN pagetable' = Pids
      /\ \A p \in Pids \ {current, pid} : pagetable'[p] = pagetable[p]
      /\ pagetable'[current] = pt /\ pagetable'[pid] = pt
  BY <1>1, <1>2 DEF Fork, TypeOK
<1>4. /\ DOMAIN pt = DOMAIN pagetable[current]
      /\ \A v \in DOMAIN pagetable[current] : pt[v] = [pagetable[current][v] EXCEPT !.writable = FALSE]
  BY DEF Unwritable, table
<1>5. \A v \in DOMAIN pagetable[current] : pagetable[current][v] \in Pte
  BY <1>2 DEF TypeOK
<1>6. \A v \in DOMAIN pagetable[current] :
         /\ pt[v] \in Pte
         /\ pt[v].valid = pagetable[current][v].valid
         /\ pt[v].private = pagetable[current][v].private
         /\ pt[v].pfn = pagetable[current][v].pfn
         /\ ~pt[v].writable
  BY <1>4, <1>5 DEF Pte
<1>7. pt \in [DOMAIN pagetable[current] -> Pte]
  <2>1. pt = [v \in DOMAIN pagetable[current] |-> pt[v]]
    BY DEF Unwritable, table
  <2> HIDE DEF pt
  <2> QED BY <1>6, <2>1
<1> HIDE DEF pt
<1>8. \A v : ~Valid(pid, v)
  BY <1>1 DEF ProcessesAreOnce, Valid, NoDirectories
<1> QED BY <1>1, <1>2, <1>3, <1>4, <1>6, <1>7, <1>8, <1>9

LEMMA ForkedMappings ==
  ASSUME TypeOK, ProcessesAreOnce, NEW pid \in Pids, Fork(pid), NEW f \in Frames
  PROVE  /\ Cardinality(MappingsOfCurrent(f)) \in Nat
         /\ Cardinality(Mappings(f)') = Cardinality(Mappings(f)) + Cardinality(MappingsOfCurrent(f))
         /\ Cardinality(Mappings(f)') =< UintMax
<1> DEFINE inherited == {pid} \X MappingsOfCurrent(f)
<1>0. /\ pid \notin Live
      /\ current \in Pids
      /\ \A p \in Pids \ {current, pid} : pagetable'[p] = pagetable[p]
      /\ \A p \in {current, pid} :
             /\ DOMAIN pagetable'[p] = DOMAIN pagetable[current]
             /\ \A v \in DOMAIN pagetable[current] :
                    /\ pagetable'[p][v].valid = pagetable[current][v].valid
                    /\ pagetable'[p][v].pfn = pagetable[current][v].pfn
      /\ \A v : ~Valid(pid, v)
  BY ForkedTables
<1>1. \A v \in Vpns : Valid(pid, v)' /\ pagetable'[pid][v].pfn = f <=> v \in MappingsOfCurrent(f)
  BY <1>0 DEF Valid, MappingsOfCurrent, table
<1>2. \A p \in Pids \ {pid} : \A v \in Vpns :
         Valid(p, v)' /\ pagetable'[p][v].pfn = f <=> Valid(p, v) /\ pagetable[p][v].pfn = f
  <2> SUFFICES ASSUME NEW p \in Pids \ {pid}, NEW v \in Vpns
               PROVE  Valid(p, v)' /\ pagetable'[p][v].pfn = f <=> Valid(p, v) /\ pagetable[p][v].pfn = f
    OBVIOUS
  <2>1. CASE p = current
    BY <1>0, <2>1 DEF Valid
  <2>2. CASE p # current
    BY <1>0, <2>2 DEF Valid
  <2> QED BY <2>1, <2>2
<1>3. MappingsOfCurrent(f) \subseteq Vpns
  BY DEF MappingsOfCurrent, TypeOK, table
<1>4. Mappings(f)' = Mappings(f) \cup inherited
  <2>1. \A p \in Pids, v \in Vpns : <<p, v>> \in Mappings(f)' <=> <<p, v>> \in Mappings(f) \cup inherited
    <3> SUFFICES ASSUME NEW p \in Pids, NEW v \in Vpns
                 PROVE  <<p, v>> \in Mappings(f)' <=> <<p, v>> \in Mappings(f) \cup inherited
      OBVIOUS
    <3>1. CASE p = pid
      BY <1>0, <1>1, <3>1 DEF Mappings
    <3>2. CASE p # pid
      BY <1>2, <3>2 DEF Mappings
    <3> QED BY <3>1, <3>2
  <2>2. inherited \subseteq Pids \X Vpns
    BY <1>3
  <2>3. Mappings(f)' \subseteq Pids \X Vpns /\ Mappings(f) \subseteq Pids \X Vpns
    BY DEF Mappings
  <2> QED BY <2>1, <2>2, <2>3
<1>5. Mappings(f) \cap inherited = {}
  BY <1>0 DEF Mappings
<1>6. IsFiniteSet(Vpns) /\ IsFiniteSet(Pids \X Vpns)
  <2>1. IsFiniteSet(Vpns)
    BY FS_Interval, SizesAssumption DEF Vpns
  <2> QED BY <2>1, FS_Product, PidsAssumption
<1>7. IsFiniteSet(MappingsOfCurrent(f))
  BY <1>3, <1>6, FS_Subset
<1>8. IsFiniteSet({pid}) /\ Cardinality({pid}) = 1
  BY FS_Singleton
<1>9. Cardinality(MappingsOfCurrent(f)) \in Nat
  BY <1>7, FS_CardinalityType
<1>10. IsFiniteSet(inherited) /\ Cardinality(inherited) = Cardinality(MappingsOfCurrent(f))
  BY <1>7, <1>8, <1>9, FS_Product
<1>11. Cardinality(Mappings(f) \cup inherited) = Cardinality(Mappings(f)) + Cardinality(inherited)
  <2> DEFINE both == Mappings(f) \cup inherited
  <2>1. IsFiniteSet(Mappings(f))
    BY MappingsFinite
  <2>2. Cardinality(both) = Cardinality(Mappings(f)) + Cardinality(inherited)
                            - Cardinality(Mappings(f) \cap inherited)
    BY <1>10, <2>1, FS_Union
  <2>3. Cardinality(Mappings(f) \cap inherited) = 0
    BY <1>5, FS_EmptySet
  <2>4. Cardinality(Mappings(f)) \in Nat
    BY <2>1, FS_CardinalityType
  <2> QED BY <1>9, <1>10, <2>2, <2>3, <2>4
<1>12. Cardinality(Mappings(f)') =< UintMax
  <2>1. Cardinality(Mappings(f)') =< Cardinality(Pids \X Vpns)
    BY <1>6, FS_Subset DEF Mappings
  <2>2. Cardinality(Mappings(f)') \in Nat /\ Cardinality(Pids \X Vpns) \in Nat
    BY <1>6, MappingsFiniteNext, FS_CardinalityType
  <2> QED BY <2>1, <2>2, SizesAssumption
<1> QED BY <1>4, <1>9, <1>10, <1>11, <1>12

LEMMA ForkKeeps ==
  ASSUME CountsInv, NEW pid \in Pids, Fork(pid)
  PROVE  CountsInv' /\ (IInv => IInv')
<1>0. TypeOK /\ ProcessesAreOnce /\ PermissionsAreKept /\ MapcountsAreExact
  BY DEF CountsInv
<1>1. /\ current' = pid
      /\ processes' = Rotated
      /\ outcome' = "switched"
      /\ running' = running
      /\ exhausted' = exhausted
      /\ mapcounts' = [f \in Frames |-> Increment(mapcounts[f], Cardinality(MappingsOfCurrent(f)))]
  BY DEF Fork
<1>2. /\ pid \notin Live
      /\ current \in Pids
      /\ DOMAIN pagetable' = Pids
      /\ \A p \in Pids \ {current, pid} : pagetable'[p] = pagetable[p]
      /\ \A p \in {current, pid} :
             /\ DOMAIN pagetable'[p] = DOMAIN pagetable[current]
             /\ pagetable'[p] \in [DOMAIN pagetable[current] -> Pte]
             /\ \A v \in DOMAIN pagetable[current] :
                    /\ pagetable'[p][v].valid = pagetable[current][v].valid
                    /\ pagetable'[p][v].private = pagetable[current][v].private
                    /\ pagetable'[p][v].pfn = pagetable[current][v].pfn
                    /\ ~pagetable'[p][v].writable
      /\ \A v : ~Valid(pid, v)
  BY <1>0, ForkedTables
<1>3. \A f \in Frames :
        /\ Cardinality(MappingsOfCurrent(f)) \in Nat
        /\ Cardinality(Mappings(f)') = Cardinality(Mappings(f)) + Cardinality(MappingsOfCurrent(f))
        /\ Cardinality(Mappings(f)') =< UintMax
  BY <1>0, ForkedMappings
<1>4. /\ Rotated \in Seq(Pids)
      /\ Len(Rotated) = Len(processes) + 1
      /\ Len(processes) \in Nat
      /\ \A i, j \in 1 .. Len(Rotated) : Rotated[i] = Rotated[j] => i = j
      /\ Live = {Rotated[i] : i \in 1 .. Len(Rotated)}
  BY <1>0, RotatedList
<1>5. TypeOK'
  <2>1. mapcounts' \in [Frames -> 0 .. UintMax]
    <3>1. \A f \in Frames : mapcounts[f] \in Nat
      BY <1>0, SizesAssumption DEF TypeOK
    <3>2. \A f \in Frames : Increment(mapcounts[f], Cardinality(MappingsOfCurrent(f))) \in 0 .. UintMax
      BY <1>3, <3>1, IncrementType
    <3> QED BY <1>1, <3>2
  <2>2. \A p \in Pids : /\ DOMAIN pagetable'[p] \subseteq Vpns
                        /\ pagetable'[p] \in [DOMAIN pagetable'[p] -> Pte]
    <3> SUFFICES ASSUME NEW p \in Pids
                 PROVE  /\ DOMAIN pagetable'[p] \subseteq Vpns
                        /\ pagetable'[p] \in [DOMAIN pagetable'[p] -> Pte]
      OBVIOUS
    <3>1. CASE p \in {current, pid}
      BY <1>0, <1>2, <3>1 DEF TypeOK
    <3>2. CASE p \notin {current, pid}
      BY <1>0, <1>2, <3>2 DEF TypeOK
    <3> QED BY <3>1, <3>2
  <2> QED BY <1>0, <1>1, <1>2, <1>4, <2>1, <2>2 DEF TypeOK, Outcomes
<1>6. ProcessesAreOnce'
  <2>1. Live' = Live \cup {pid}
    BY <1>0, ForkedTables
  <2>2. \A p \in Pids \ Live' : pagetable'[p] = NoDirectories
    BY <1>0, <1>2, <2>1 DEF ProcessesAreOnce, Live
  <2>3. DOMAIN processes' = 1 .. Len(Rotated)
    BY <1>1, <1>4
  <2> QED BY <1>1, <1>2, <1>4, <2>2, <2>3 DEF ProcessesAreOnce
<1>7. PermissionsAreKept'
  <2> SUFFICES ASSUME NEW p \in Pids, NEW w \in DOMAIN pagetable'[p], pagetable'[p][w].writable
               PROVE  pagetable'[p][w].valid /\ pagetable'[p][w].private
    BY DEF PermissionsAreKept
  <2>1. CASE p \in {current, pid}
    BY <1>2, <2>1
  <2>2. CASE p \notin {current, pid}
    BY <1>0, <1>2, <2>2 DEF PermissionsAreKept
  <2> QED BY <2>1, <2>2
<1>8. MapcountsAreExact'
  <2> SUFFICES ASSUME ~exhausted, NEW f \in Frames PROVE mapcounts'[f] = Cardinality(Mappings(f)')
    BY <1>1 DEF MapcountsAreExact
  <2>1. mapcounts[f] = Cardinality(Mappings(f)) /\ Cardinality(Mappings(f)) \in Nat
    BY <1>0, MappingsFinite, FS_CardinalityType DEF MapcountsAreExact
  <2>2. mapcounts'[f] = Increment(mapcounts[f], Cardinality(MappingsOfCurrent(f)))
    BY <1>1
  <2> QED BY <1>3, <2>1, <2>2, IncrementIsExact
\* The child's pages are its parent's, the others' are what they were.
<1> DEFINE origin(p) == IF p = pid THEN current ELSE p
<1>9. \A p \in Pids : \A v \in Vpns : Valid(p, v)' =>
        /\ origin(p) \in Pids
        /\ Valid(origin(p), v)
        /\ pagetable'[p][v].pfn = pagetable[origin(p)][v].pfn
        /\ pagetable'[p][v].private = pagetable[origin(p)][v].private
        /\ pagetable'[p][v].writable => /\ p \notin {current, pid}
                                        /\ pagetable[p][v].writable
  <2> SUFFICES ASSUME NEW p \in Pids, NEW v \in Vpns, Valid(p, v)'
               PROVE  /\ origin(p) \in Pids
                      /\ Valid(origin(p), v)
                      /\ pagetable'[p][v].pfn = pagetable[origin(p)][v].pfn
                      /\ pagetable'[p][v].private = pagetable[origin(p)][v].private
                      /\ pagetable'[p][v].writable => /\ p \notin {current, pid}
                                                      /\ pagetable[p][v].writable
    OBVIOUS
  <2>1. CASE p \in {current, pid}
    <3>1. origin(p) = current
      BY <2>1
    <3> QED BY <1>2, <2>1, <3>1 DEF Valid
  <2>2. CASE p \notin {current, pid}
    BY <1>2, <2>2 DEF Valid
  <2> QED BY <2>1, <2>2
<1> HIDE DEF origin
<1>10. ASSUME IInv PROVE WritableIsUnshared'
  <2> SUFFICES ASSUME ~exhausted, NEW p \in Pids, NEW q \in Pids, NEW w \in Vpns, NEW x \in Vpns,
                      Valid(p, w)', Valid(q, x)', pagetable'[p][w].writable,
                      pagetable'[p][w].pfn = pagetable'[q][x].pfn
               PROVE  p = q /\ w = x
    BY <1>1 DEF WritableIsUnshared
  <2>1. origin(p) = p /\ p \notin {current, pid} /\ pagetable[p][w].writable
    BY <1>9 DEF origin
  <2>2. p = origin(q) /\ w = x
    BY <1>9, <1>10, <2>1 DEF IInv, WritableIsUnshared
  <2> QED BY <2>1, <2>2 DEF origin
<1>11. ASSUME IInv PROVE SharersAreRelatives'
  BY <1>1, <1>9, <1>11 DEF IInv, SharersAreRelatives
<1> QED BY <1>5, <1>6, <1>7, <1>8, <1>10, <1>11 DEF CountsInv, IInv

---------------------------------------------------------------------------
(* The specification *)

LEMMA NextKeepsIInv == IInv /\ [Next]_vmVars => IInv'
<1> SUFFICES ASSUME IInv, [Next]_vmVars PROVE IInv'
  OBVIOUS
<1>1. \A v \in ScriptVpns : v \in Vpns
  BY ScriptAssumption
<1>2. ASSUME NEW v \in ScriptVpns, NEW rw \in {"r", "rw"}, Alloc(v, rw) PROVE IInv'
  BY <1>1, <1>2, IInvCounts, AllocFrameKeeps, AllocNoFrameKeeps DEF Alloc
<1>3. ASSUME NEW v \in ScriptVpns, Free(v) PROVE IInv'
  BY <1>1, <1>3, FreeKeepsIInv
<1>4. ASSUME NEW v \in ScriptVpns, NEW rw \in {"read", "write"}, Fault(v, rw) PROVE IInv'
  BY <1>4, FaultKeepsIInv
<1>5. ASSUME NEW pid \in Pids, Switch(pid) PROVE IInv'
  BY <1>5, IInvCounts, SwitchKeeps
<1>6. ASSUME NEW pid \in Pids, Fork(pid) PROVE IInv'
  BY <1>6, IInvCounts, ForkKeeps
\* The other commands change what is printed or whether the console goes on.
<1>7. ASSUME UNCHANGED <<current, processes, pagetable, mapcounts, exhausted>>,
             running' \in BOOLEAN, outcome' \in Outcomes
      PROVE  IInv'
  BY <1>7 DEF IInv, TypeOK, ProcessesAreOnce, Live, PermissionsAreKept, MapcountsAreExact,
              Mappings, WritableIsUnshared, SharersAreRelatives, Valid
<1>8. running \in BOOLEAN /\ outcome \in Outcomes
  BY DEF IInv, TypeOK
<1>9. ASSUME NEW v \in ScriptVpns, AllocAgain(v) \/ FreeNothing(v) PROVE IInv'
  BY <1>7, <1>8, <1>9 DEF AllocAgain, FreeNothing, Outcomes
<1>10. ASSUME NEW v \in ScriptVpns, NEW rw \in {"read", "write"}, Hit(v, rw) \/ Refuse(v, rw)
       PROVE  IInv'
  BY <1>7, <1>8, <1>10 DEF Hit, Refuse, Outcomes
<1>11. CASE Exit
  BY <1>7, <1>8, <1>11 DEF Exit
<1>12. CASE UNCHANGED vmVars
  BY <1>7, <1>8, <1>12 DEF vmVars
<1> QED BY <1>2, <1>3, <1>4, <1>5, <1>6, <1>9, <1>10, <1>11, <1>12 DEF Next, Command, Access

\* The invariant of the simulator holds in every reachable state.
THEOREM IInvAlways == Spec => []IInv
BY InitIInv, NextKeepsIInv, PTL DEF Spec

\* mapcounts counts the PTEs that map each frame, for any number of processes, pages and
\* frames, until a frame is wanted and there is none.
THEOREM MapcountsAreExactAlways == Spec => []MapcountsAreExact
<1>1. IInv => MapcountsAreExact
  BY DEF IInv
<1> QED BY IInvAlways, <1>1, PTL

\* Copy-on-write isolates the processes, until a frame is wanted and there is none.
THEOREM WritableIsUnsharedAlways == Spec => []WritableIsUnshared
<1>1. IInv => WritableIsUnshared
  BY DEF IInv
<1> QED BY IInvAlways, <1>1, PTL

\* Frames are shared by the same page of related processes only.
THEOREM SharersAreRelativesAlways == Spec => []SharersAreRelatives
<1>1. IInv => SharersAreRelatives
  BY DEF IInv
<1> QED BY IInvAlways, <1>1, PTL

\* No switch or fork loses a process or lists it twice.
THEOREM ProcessesAreOnceAlways == Spec => []ProcessesAreOnce
<1>1. IInv => ProcessesAreOnce
  BY DEF IInv
<1> QED BY IInvAlways, <1>1, PTL

---------------------------------------------------------------------------
(* The simulator implements separate address spaces, until a frame is first wanted in vain.  *)
(* SameSpace says when a step leaves what a process sees of its memory as it was: faults and *)
(* forks change PTEs in ways that only writable and pfn show. That a free frees a frame or   *)
(* none, and a fork takes none, needs the map counts to be exact. The commands are then      *)
(* mapped one by one to those of AddressSpaces.                                              *)

Space == [p \in Live |-> SpaceOf(p)]

LEMMA SameSpace ==
  ASSUME NEW p, ValidPages(p)' = ValidPages(p),
         \A v \in ValidPages(p) : pagetable'[p][v].private = pagetable[p][v].private
  PROVE  SpaceOf(p)' = SpaceOf(p)
BY DEF SpaceOf

LEMMA CurrentIsLive == current \in Live
BY DEF Live

LEMMA ValidIsTranslated ==
  ASSUME NEW v
  PROVE  Translates(table, v, "read") <=> v \in ValidPages(current)
BY DEF Translates, table, ValidPages

LEMMA InitRefines == Init => Spaces!Init
<1> SUFFICES ASSUME Init PROVE Spaces!Init
  OBVIOUS
<1>1. Live = {0} /\ current = 0
  BY DEF Init, Live
<1>3. (FreeFrames = {}) = FALSE
  <2>1. 0 \in FreeFrames
    BY SizesAssumption DEF Init, FreeFrames, Frames
  <2> QED BY <2>1
<1>2. SpaceOf(0) = Spaces!NoPages
  <2>1. pagetable[0] = NoDirectories
    BY PidsAssumption DEF Init
  <2>2. ValidPages(0) = {}
    BY <2>1 DEF ValidPages, NoDirectories
  <2> QED BY <2>2 DEF SpaceOf, Spaces!NoPages
<1> QED BY <1>1, <1>2, <1>3 DEF Init, Spaces!Init

\* Whether the memory is full: no step that takes no frame makes it so.
Full == FreeFrames = {}

LEMMA FreeIsUnmappedNext ==
  ASSUME TypeOK', MapcountsAreExact', ~exhausted', NEW f \in Frames, mapcounts'[f] = 0
  PROVE  Mappings(f)' = {}
BY MappingsFiniteNext, FS_EmptySet DEF MapcountsAreExact

LEMMA FullKept ==
  ASSUME UNCHANGED mapcounts
  PROVE  Full' = Full
BY DEF Full, FreeFrames

LEMMA FullAfterFree ==
  ASSUME IInv, ~exhausted, NEW v \in Vpns, Free(v), Full'
  PROVE  Full
<1>0. TypeOK /\ MapcountsAreExact
  BY DEF IInv
<1> DEFINE old == table[v].pfn
<1>1. Valid(current, v) /\ old \in Frames
  BY <1>0 DEF Free, Translates, Valid, table, TypeOK, Pte
<1>2. <<current, v>> \in Mappings(old)
  BY <1>0, <1>1 DEF Mappings, table, TypeOK
<1>3. mapcounts[old] # 0
  BY <1>0, <1>1, <1>2, FreeIsUnmapped
<1>4. mapcounts' = [mapcounts EXCEPT ![old] = Decrement(@)]
  BY DEF Free
<1> HIDE DEF old
<1>5. ASSUME NEW f \in FreeFrames PROVE f \in FreeFrames'
  <2>1. f \in Frames /\ mapcounts[f] = 0
    BY <1>5 DEF FreeFrames
  <2>2. mapcounts'[f] = 0
    BY <1>0, <1>3, <1>4, <2>1 DEF TypeOK
  <2> QED BY <2>1, <2>2 DEF FreeFrames
<1> QED BY <1>5 DEF Full

LEMMA FullAfterFork ==
  ASSUME IInv, IInv', ~exhausted, NEW pid \in Pids, Fork(pid)
  PROVE  Full' = Full
<1>0. /\ TypeOK /\ MapcountsAreExact /\ ProcessesAreOnce
      /\ TypeOK' /\ MapcountsAreExact' /\ ~exhausted'
  BY DEF IInv, Fork
<1>1. ASSUME NEW f \in Frames, mapcounts[f] = 0 PROVE mapcounts'[f] = 0
  <2>1. Mappings(f) = {}
    BY <1>0, <1>1, FreeIsUnmapped
  <2>2. \A v \in Vpns : ~(v \in DOMAIN table /\ table[v].valid /\ table[v].pfn = f)
    <3> SUFFICES ASSUME NEW v \in Vpns, v \in DOMAIN table, table[v].valid, table[v].pfn = f
                 PROVE  FALSE
      OBVIOUS
    <3>1. current \in Pids /\ Valid(current, v) /\ pagetable[current][v].pfn = f
      BY <1>0 DEF Valid, table, TypeOK
    <3>2. <<current, v>> \in Mappings(f)
      BY <3>1 DEF Mappings
    <3> QED BY <2>1, <3>2
  <2>3. DOMAIN table \subseteq Vpns
    BY <1>0 DEF table, TypeOK
  <2>4. MappingsOfCurrent(f) = {}
    BY <2>2, <2>3 DEF MappingsOfCurrent
  <2>5. Cardinality(MappingsOfCurrent(f)) = 0
    BY <2>4, FS_EmptySet
  <2>6. mapcounts'[f] = Increment(mapcounts[f], Cardinality(MappingsOfCurrent(f)))
    BY DEF Fork
  <2> QED BY <1>1, <2>5, <2>6, IncrementIsExact, UintMaxIsPositive
<1>2. ASSUME NEW f \in Frames, mapcounts'[f] = 0 PROVE mapcounts[f] = 0
  <2>1. Mappings(f)' = {}
    BY <1>0, <1>2, FreeIsUnmappedNext
  <2>2. \A p \in Pids \ {pid} : \A v \in Vpns :
           Valid(p, v) => Valid(p, v)' /\ pagetable'[p][v].pfn = pagetable[p][v].pfn
    BY <1>0, ForkedTables DEF Valid
  <2>3. \A v \in Vpns : ~Valid(pid, v)
    BY <1>0, ForkedTables
  <2>4. \A m \in Mappings(f) : m \in Mappings(f)'
    BY <2>2, <2>3 DEF Mappings
  <2>5. Mappings(f) = {}
    BY <2>1, <2>4
  <2>6. mapcounts[f] = Cardinality(Mappings(f))
    BY <1>0 DEF MapcountsAreExact
  <2> QED BY <2>5, <2>6, FS_EmptySet
<1>3. FreeFrames' = FreeFrames
  BY <1>1, <1>2 DEF FreeFrames
<1> QED BY <1>3 DEF Full

\* A command of the running process that moves no process.
LEMMA SpaceUpdate ==
  ASSUME UNCHANGED <<current, processes>>,
         \A p \in Live \ {current} : SpaceOf(p)' = SpaceOf(p)
  PROVE  Space' = [Space EXCEPT ![current] = SpaceOf(current)']
<1>1. Live' = Live
  BY DEF Live
<1> QED BY <1>1, CurrentIsLive DEF Space

LEMMA NewPte ==
  ASSUME NEW rw \in {"r", "rw"}, NEW f, NEW pte,
         pte = [valid |-> TRUE, writable |-> rw # "r", private |-> rw # "r", pfn |-> f]
  PROVE  pte.valid /\ (IF pte.private THEN "rw" ELSE "r") = rw
<1>1. pte.valid
  BY Zenon
<1>2. pte.private = (rw # "r")
  BY Zenon
<1>3. pte.private <=> rw # "r"
  BY <1>2, Zenon
<1> QED BY <1>1, <1>3

LEMMA AllocRefines ==
  ASSUME IInv, ~exhausted', NEW v \in ScriptVpns, NEW rw \in {"r", "rw"}, Alloc(v, rw)
  PROVE  Spaces!Alloc(v, rw)
<1>0. TypeOK /\ v \in Vpns
  BY ScriptAssumption DEF IInv
<1>1. PICK f \in Frames : pagetable' = [pagetable EXCEPT ![current] = WithPage(table, v, rw, f)]
  BY <1>0 DEF Alloc, AllocFrame, AllocNoFrame
<1>12. ~Full
  BY DEF Alloc, AllocFrame, AllocNoFrame, FirstFree, Full
<1> DEFINE pt == WithPage(table, v, rw, f)
<1>2. pagetable'[current] = pt /\ \A p \in Pids \ {current} : pagetable'[p] = pagetable[p]
  BY <1>0, <1>1 DEF TypeOK
<1>3. /\ v \in DOMAIN pt
      /\ pt[v] = [valid |-> TRUE, writable |-> rw # "r", private |-> rw # "r", pfn |-> f]
      /\ \A w \in DOMAIN pt : w # v => pt[w] = IF w \in DOMAIN table THEN table[w] ELSE ZeroPte
      /\ DOMAIN table \subseteq DOMAIN pt
  BY <1>0, WithPageType
<1> HIDE DEF pt
<1>4. pt[v].valid /\ (IF pt[v].private THEN "rw" ELSE "r") = rw
  <2>0. pt[v] = [valid |-> TRUE, writable |-> rw # "r", private |-> rw # "r", pfn |-> f]
    BY <1>3
  <2> QED BY <2>0, NewPte
<1>9. UNCHANGED <<current, processes, running>> /\ outcome' = "allocated"
  BY DEF Alloc
<1>5. ValidPages(current)' = ValidPages(current) \cup {v}
  <2>1. ValidPages(current)' = {w \in DOMAIN pt : pt[w].valid}
    BY <1>2, <1>9 DEF ValidPages
  <2>2. \A w \in DOMAIN pt : w # v =>
           (pt[w].valid <=> w \in DOMAIN table /\ table[w].valid)
    <3>1. ~ZeroPte.valid
      BY DEF ZeroPte
    <3> QED BY <1>3, <3>1
  <2> QED BY <1>3, <1>4, <2>1, <2>2 DEF ValidPages, table
<1>6. SpaceOf(current)' = [w \in ValidPages(current) \cup {v} |->
                              IF w = v THEN rw ELSE SpaceOf(current)[w]]
  <2>1. \A w \in ValidPages(current) \cup {v} :
           (IF pagetable'[current][w].private THEN "rw" ELSE "r")
               = IF w = v THEN rw ELSE SpaceOf(current)[w]
    <3> SUFFICES ASSUME NEW w \in ValidPages(current) \cup {v}
                 PROVE  (IF pagetable'[current][w].private THEN "rw" ELSE "r")
                            = IF w = v THEN rw ELSE SpaceOf(current)[w]
      OBVIOUS
    <3>1. CASE w = v
      BY <1>2, <1>4, <3>1
    <3>2. CASE w # v
      <4>1. w \in DOMAIN table /\ w \in ValidPages(current)
        BY <3>2 DEF ValidPages, table
      <4>2. pagetable'[current][w] = pagetable[current][w]
        BY <1>2, <1>3, <3>2, <4>1 DEF table
      <4> QED BY <3>2, <4>1, <4>2 DEF SpaceOf
    <3> QED BY <3>1, <3>2
  <2> QED BY <1>5, <1>9, <2>1 DEF SpaceOf
<1>7. v \notin ValidPages(current)
  BY ValidIsTranslated DEF Alloc
<1>8. \A p \in Live \ {current} : SpaceOf(p)' = SpaceOf(p)
  <2> SUFFICES ASSUME NEW p \in Live \ {current} PROVE SpaceOf(p)' = SpaceOf(p)
    OBVIOUS
  <2>1. pagetable'[p] = pagetable[p]
    BY <1>0, <1>2 DEF Live, TypeOK
  <2> QED BY <2>1 DEF SpaceOf, ValidPages
<1>10. Space' = [Space EXCEPT ![current] = SpaceOf(current)']
  BY <1>8, <1>9, SpaceUpdate
<1>11. Space[current] = SpaceOf(current) /\ DOMAIN SpaceOf(current) = ValidPages(current)
  BY CurrentIsLive DEF Space, SpaceOf
<1> QED BY <1>6, <1>7, <1>9, <1>10, <1>11, <1>12 DEF Spaces!Alloc, Spaces!Pages, Space, Full

LEMMA FreeRefines ==
  ASSUME IInv, ~exhausted', NEW v \in ScriptVpns, Free(v)
  PROVE  Spaces!Free(v)
<1>0. TypeOK /\ v \in Vpns
  BY ScriptAssumption DEF IInv
<1>1. v \in ValidPages(current)
  BY ValidIsTranslated DEF Free
<1>2. /\ \A p \in Pids \ {current} : pagetable'[p] = pagetable[p]
      /\ DOMAIN pagetable'[current] = DOMAIN pagetable[current]
      /\ pagetable'[current][v] = ZeroPte
      /\ \A w \in DOMAIN pagetable[current] : w # v => pagetable'[current][w] = pagetable[current][w]
  BY <1>0, <1>1 DEF Free, TypeOK, ValidPages
<1>3. UNCHANGED <<current, processes, running>> /\ outcome' = "freed"
  BY DEF Free
<1>4. ValidPages(current)' = ValidPages(current) \ {v}
  <2>1. ~ZeroPte.valid
    BY DEF ZeroPte
  <2> QED BY <1>2, <1>3, <2>1 DEF ValidPages
<1>5. SpaceOf(current)' = [w \in ValidPages(current) \ {v} |-> SpaceOf(current)[w]]
  <2>1. \A w \in ValidPages(current) \ {v} : pagetable'[current][w] = pagetable[current][w]
    BY <1>2 DEF ValidPages
  <2> QED BY <1>3, <1>4, <2>1 DEF SpaceOf
<1>6. \A p \in Live \ {current} : SpaceOf(p)' = SpaceOf(p)
  <2> SUFFICES ASSUME NEW p \in Live \ {current} PROVE SpaceOf(p)' = SpaceOf(p)
    OBVIOUS
  <2>1. pagetable'[p] = pagetable[p]
    BY <1>0, <1>2 DEF Live, TypeOK
  <2> QED BY <2>1 DEF SpaceOf, ValidPages
<1>7. Space' = [Space EXCEPT ![current] = SpaceOf(current)']
  BY <1>3, <1>6, SpaceUpdate
<1>8. Space[current] = SpaceOf(current) /\ DOMAIN SpaceOf(current) = ValidPages(current)
  BY CurrentIsLive DEF Space, SpaceOf
<1>9. Full' => Full
  BY <1>0, FullAfterFree DEF Free
<1> QED BY <1>1, <1>3, <1>5, <1>7, <1>8, <1>9 DEF Spaces!Free, Spaces!Pages, Space, Full

\* A step that keeps the processes, and every PTE's valid and private.
LEMMA SpaceKept ==
  ASSUME UNCHANGED <<current, processes>>,
         \A p \in Live : SpaceOf(p)' = SpaceOf(p)
  PROVE  Space' = Space
<1>1. Live' = Live
  BY DEF Live
<1> QED BY <1>1 DEF Space

\* What the access finds agrees with what the page was allocated for.
LEMMA Permission ==
  ASSUME IInv, NEW v, NEW rw \in {"read", "write"}
  PROVE  /\ Spaces!Permitted(v, rw) <=>
                v \in ValidPages(current) /\ (rw = "write" => pagetable[current][v].private)
         /\ Translates(table, v, rw) => Spaces!Permitted(v, rw)
         /\ Recoverable(v) => Spaces!Permitted(v, rw)
         /\ ~Translates(table, v, rw) /\ ~Recoverable(v) => ~Spaces!Permitted(v, rw)
<1>1. Space[current] = SpaceOf(current) /\ DOMAIN SpaceOf(current) = ValidPages(current)
  BY CurrentIsLive DEF Space, SpaceOf
<1>2. Spaces!Permitted(v, rw) <=>
          v \in ValidPages(current) /\ (rw = "write" => pagetable[current][v].private)
  BY <1>1 DEF Spaces!Permitted, Spaces!Pages, Space, SpaceOf
<1>3. \A w \in DOMAIN pagetable[current] :
          pagetable[current][w].writable => pagetable[current][w].private
  BY DEF IInv, TypeOK, PermissionsAreKept
<1>4. Translates(table, v, rw) => Spaces!Permitted(v, rw)
  BY <1>2, <1>3 DEF Translates, table, ValidPages
<1>5. Recoverable(v) => Spaces!Permitted(v, rw)
  BY <1>2 DEF Recoverable, table, ValidPages
<1>6. ~Translates(table, v, rw) /\ ~Recoverable(v) => ~Spaces!Permitted(v, rw)
  BY <1>2 DEF Translates, Recoverable, table, ValidPages
<1> QED BY <1>2, <1>4, <1>5, <1>6

\* A handled fault translates at the second try, and shows nothing else.
LEMMA FaultRefines ==
  ASSUME IInv, NEW v, NEW rw \in {"read", "write"}, Fault(v, rw)
  PROVE  Space' = Space /\ outcome' = "translated"
<1>0. TypeOK
  BY DEF IInv
<1>1. Recoverable(v) /\ UNCHANGED <<current, processes>>
  BY DEF Fault, HandlePageFault
<1>2. table[v].pfn \in Frames
  BY <1>0, <1>1 DEF Recoverable, table, TypeOK, Pte
<1>3. PICK f \in Frames : MakeWritable(v, f)
  BY <1>2 DEF Fault, HandlePageFault, Reclaim, CopyOnWrite, CopyNowhere
<1> DEFINE new == [pagetable[current][v] EXCEPT !.writable = TRUE, !.pfn = f]
<1>4. current \in Pids /\ v \in DOMAIN pagetable[current] /\ pagetable[current][v] \in Pte
      /\ pagetable[current][v].valid
  BY <1>0, <1>1 DEF TypeOK, Recoverable, table
<1>5. /\ \A p \in Pids \ {current} : pagetable'[p] = pagetable[p]
      /\ pagetable'[current] = [pagetable[current] EXCEPT ![v] = new]
  BY <1>0, <1>3, <1>4 DEF MakeWritable, TypeOK
<1>6. new.valid /\ new.writable /\ new.private = pagetable[current][v].private
  BY <1>4 DEF Pte
<1> HIDE DEF new
<1>7. /\ DOMAIN pagetable'[current] = DOMAIN pagetable[current]
      /\ pagetable'[current][v] = new
      /\ \A w \in DOMAIN pagetable[current] : w # v => pagetable'[current][w] = pagetable[current][w]
  BY <1>4, <1>5
<1>8. Translates(pagetable'[current], v, rw)
  BY <1>4, <1>6, <1>7 DEF Translates
<1>9. \A p \in Live : SpaceOf(p)' = SpaceOf(p)
  <2> SUFFICES ASSUME NEW p \in Live PROVE SpaceOf(p)' = SpaceOf(p)
    OBVIOUS
  <2>1. CASE p = current
    <3>1. ValidPages(p)' = ValidPages(p)
      BY <1>4, <1>6, <1>7, <2>1 DEF ValidPages
    <3>2. \A w \in ValidPages(p) : pagetable'[p][w].private = pagetable[p][w].private
      BY <1>6, <1>7, <2>1 DEF ValidPages
    <3> QED BY <3>1, <3>2, SameSpace
  <2>2. CASE p # current
    <3>1. pagetable'[p] = pagetable[p]
      BY <1>0, <1>5, <2>2 DEF Live, TypeOK
    <3> QED BY <3>1 DEF SpaceOf, ValidPages
  <2> QED BY <2>1, <2>2
<1> QED BY <1>1, <1>8, <1>9, SpaceKept DEF Fault

\* A fault takes a frame only if one is free, and only a write faults on a page that is there.
LEMMA FaultTakesFree ==
  ASSUME ~exhausted', NEW v, NEW rw \in {"read", "write"}, Fault(v, rw)
  PROVE  /\ Full => Full'
         /\ rw = "write"
<1>1. rw = "write"
  BY DEF Fault, HandlePageFault, Recoverable, Translates
<1>2. CASE Reclaim(v)
  BY <1>1, <1>2, FullKept DEF Reclaim
<1>3. CASE CopyOnWrite(v)
  BY <1>1, <1>3 DEF CopyOnWrite, FirstFree, Full
<1> QED BY <1>2, <1>3 DEF Fault, HandlePageFault, CopyNowhere

LEMMA AccessRefines ==
  ASSUME IInv, ~exhausted', NEW v \in ScriptVpns, NEW rw \in {"read", "write"}, Access(v, rw)
  PROVE  Spaces!Access(v, rw)
<1>1. CASE Hit(v, rw)
  <2>1. Space' = Space /\ Full' = Full
    BY <1>1, FullKept DEF Hit, Space, Live, SpaceOf, ValidPages
  <2> QED BY <1>1, <2>1, Permission DEF Hit, Spaces!Access, Space, Full
<1>2. CASE Fault(v, rw)
  <2>1. Space' = Space /\ outcome' = "translated"
    BY <1>2, FaultRefines
  <2>2. Spaces!Permitted(v, rw)
    BY <1>2, Permission DEF Fault, HandlePageFault
  <2>3. (Full => Full') /\ rw = "write"
    BY <1>2, FaultTakesFree
  <2> QED BY <1>2, <2>1, <2>2, <2>3 DEF Fault, Spaces!Access, Space, Full
<1>3. CASE Refuse(v, rw)
  <2>1. Space' = Space /\ Full' = Full
    BY <1>3, FullKept DEF Refuse, Space, Live, SpaceOf, ValidPages
  <2> QED BY <1>3, <2>1, Permission DEF Refuse, Spaces!Access, Space, Full
<1> QED BY <1>1, <1>2, <1>3 DEF Access

LEMMA SwitchRefines ==
  ASSUME IInv, NEW pid \in Pids, Switch(pid)
  PROVE  Spaces!Switch(pid)
<1>1. pid \in Live /\ Live' = Live
  BY SwitchKeepsLive DEF IInv
<1>2. /\ current' = pid
      /\ outcome' = "switched"
      /\ UNCHANGED <<pagetable, running>>
  BY DEF Switch
<1>3. Space' = Space
  BY <1>1, <1>2 DEF Space, SpaceOf, ValidPages
<1>4. Full' = Full
  BY FullKept DEF Switch
<1> QED BY <1>1, <1>2, <1>3, <1>4 DEF Spaces!Switch, Space, Full

LEMMA ForkRefines ==
  ASSUME IInv, IInv', ~exhausted', NEW pid \in Pids, Fork(pid)
  PROVE  Spaces!Fork(pid)
<1>0. TypeOK /\ ProcessesAreOnce
  BY DEF IInv
<1>1. /\ current' = pid
      /\ outcome' = "switched"
      /\ UNCHANGED running
  BY DEF Fork
<1>2. /\ pid \notin Live
      /\ Live' = Live \cup {pid}
      /\ current \in Pids
      /\ \A p \in Pids \ {current, pid} : pagetable'[p] = pagetable[p]
      /\ \A p \in {current, pid} :
             /\ DOMAIN pagetable'[p] = DOMAIN pagetable[current]
             /\ \A v \in DOMAIN pagetable[current] :
                    /\ pagetable'[p][v].valid = pagetable[current][v].valid
                    /\ pagetable'[p][v].private = pagetable[current][v].private
  BY <1>0, ForkedTables
<1>3. \A p \in {current, pid} : SpaceOf(p)' = SpaceOf(current)
  <2> SUFFICES ASSUME NEW p \in {current, pid} PROVE SpaceOf(p)' = SpaceOf(current)
    OBVIOUS
  <2>1. ValidPages(p)' = ValidPages(current)
    BY <1>2 DEF ValidPages
  <2>2. \A v \in ValidPages(current) : pagetable'[p][v].private = pagetable[current][v].private
    BY <1>2 DEF ValidPages
  <2> QED BY <2>1, <2>2 DEF SpaceOf
<1>4. \A p \in Live \ {current} : SpaceOf(p)' = SpaceOf(p)
  <2> SUFFICES ASSUME NEW p \in Live \ {current} PROVE SpaceOf(p)' = SpaceOf(p)
    OBVIOUS
  <2>1. pagetable'[p] = pagetable[p]
    BY <1>0, <1>2 DEF Live, TypeOK
  <2> QED BY <2>1 DEF SpaceOf, ValidPages
<1>5. Space' = [p \in Live \cup {pid} |-> IF p = pid THEN SpaceOf(current) ELSE SpaceOf(p)]
  BY <1>2, <1>3, <1>4 DEF Space
<1>6. /\ DOMAIN Space = Live
      /\ Space[current] = SpaceOf(current)
      /\ \A p \in Live : Space[p] = SpaceOf(p)
  BY CurrentIsLive DEF Space
<1>7. Space' = [p \in DOMAIN Space \cup {pid} |-> IF p = pid THEN Space[current] ELSE Space[p]]
  BY <1>2, <1>5, <1>6
<1>8. Full' = Full
  BY FullAfterFork DEF Fork
<1> QED BY <1>1, <1>2, <1>6, <1>7, <1>8 DEF Spaces!Fork, Space, Full

LEMMA NextRefines ==
  IInv /\ IInv' /\ [Next]_vmVars => [exhausted' \/ Spaces!Next]_(Spaces!spaceVars)
<1> SUFFICES ASSUME IInv, IInv', [Next]_vmVars, ~exhausted'
             PROVE  [Spaces!Next]_(Spaces!spaceVars)
  OBVIOUS
<1>1. ASSUME running, NEW v \in ScriptVpns, NEW rw \in {"r", "rw"}, Alloc(v, rw)
      PROVE  Spaces!Next
  BY <1>1, AllocRefines DEF Spaces!Next, Spaces!Modes
<1>2. ASSUME running, NEW v \in ScriptVpns, Free(v) PROVE Spaces!Next
  BY <1>2, FreeRefines DEF Spaces!Next
<1>3. ASSUME running, NEW v \in ScriptVpns, NEW rw \in {"read", "write"}, Access(v, rw)
      PROVE  Spaces!Next
  BY <1>3, AccessRefines DEF Spaces!Next
<1>4. ASSUME running, NEW pid \in Pids, Switch(pid) PROVE Spaces!Next
  BY <1>4, SwitchRefines DEF Spaces!Next
<1>5. ASSUME running, NEW pid \in Pids, Fork(pid) PROVE Spaces!Next
  BY <1>5, ForkRefines DEF Spaces!Next
<1>6. ASSUME UNCHANGED <<current, processes, pagetable, mapcounts>>
      PROVE  Space' = Space /\ Full' = Full
  BY <1>6, FullKept DEF Space, Live, SpaceOf, ValidPages
<1>7. Spaces!Pages = ValidPages(current)
  BY CurrentIsLive DEF Spaces!Pages, Space, SpaceOf
<1>8. ASSUME running, NEW v \in ScriptVpns, AllocAgain(v) PROVE Spaces!Next
  <2>1. Space' = Space /\ Full' = Full /\ v \in Spaces!Pages
    BY <1>6, <1>7, <1>8, ValidIsTranslated DEF AllocAgain
  <2> QED BY <1>8, <2>1 DEF AllocAgain, Spaces!AllocAgain, Spaces!Next, Space, Full
<1>9. ASSUME running, NEW v \in ScriptVpns, FreeNothing(v) PROVE Spaces!Next
  <2>1. Space' = Space /\ Full' = Full /\ v \notin Spaces!Pages
    BY <1>6, <1>7, <1>9, ValidIsTranslated DEF FreeNothing
  <2> QED BY <1>9, <2>1 DEF FreeNothing, Spaces!FreeNothing, Spaces!Next, Space, Full
<1>10. ASSUME running, Exit PROVE Spaces!Next
  <2>1. Space' = Space /\ Full' = Full
    BY <1>6, <1>10 DEF Exit
  <2> QED BY <1>10, <2>1 DEF Exit, Spaces!Exit, Spaces!Next, Space, Full
<1>11. CASE UNCHANGED vmVars
  <2>1. Space' = Space /\ Full' = Full
    BY <1>6, <1>11 DEF vmVars
  <2> QED BY <1>11, <2>1 DEF vmVars, Spaces!spaceVars, Space, Full
<1> QED BY <1>1, <1>2, <1>3, <1>4, <1>5, <1>8, <1>9, <1>10, <1>11 DEF Next, Command

\* The simulator implements separate address spaces: what a process may do to a page never
\* depends on how its frames are shared, nor on what other processes do, and a page is had for
\* as long as a frame is free, until a frame is first wanted in vain.
THEOREM SpacesAlways == Spec => SpacesSpec
<1>1. Spec => []IInv
  BY IInvAlways
<1> QED BY <1>1, InitRefines, NextRefines, PTL DEF Spec, SpacesSpec

---------------------------------------------------------------------------
(* The console, with any version of pa4.c. Its lines call the functions of the version; each *)
(* version has the invariant that its functions leave it.                                    *)

\* Nothing but the text that is printed, or the end of the simulation.
Idle ==
    /\ UNCHANGED <<current, processes, pagetable, mapcounts, exhausted>>
    /\ running' \in BOOLEAN
    /\ running' => outcome' \in Outcomes

LEMMA ConsoleCalls ==
  ASSUME TypeOK, NEW line \in Lines, Console(line)
  PROVE  \/ Idle
         \/ \E pid \in Pids : switch_process(pid)
         \/ \E v \in ScriptVpns :
               \/ free_page(v)
               \/ \E rw \in {"read", "write"} : handle_page_fault(v, rw)
               \/ \E flags \in SUBSET {"read", "write"} :
                     flags # {} /\ ~Translates(table, v, "read") /\ alloc_page(v, flags)
<1>0. running \in BOOLEAN /\ outcome \in Outcomes
  BY DEF TypeOK
<1>1. Exit => Idle
  BY <1>0 DEF Exit, Idle
<1>2. OnlyPrints => Idle
  BY <1>0 DEF OnlyPrints, Idle, vmVars
<1>3. \A v : AllocAgain(v) \/ FreeNothing(v) => Idle
  BY <1>0 DEF AllocAgain, FreeNothing, Idle, Outcomes
<1>4. \A v, rw : Hit(v, rw) => Idle
  BY <1>0 DEF Hit, Idle, Outcomes
<1>5. CASE Len(line) = 1
  BY <1>1, <1>2, <1>5 DEF Console
<1>6. CASE Len(line) = 2
  <2>1. CASE line[1] \in {"switch", "s"}
    <3>1. switch_process(line[2]) /\ line[2] \in Pids
      BY <1>6, <2>1, LinesAssumption DEF Console
    <3> QED BY <3>1
  <2>2. CASE line[1] \in {"free", "f"}
    <3>1. FreePage(line[2]) /\ line[2] \in ScriptVpns
      BY <1>6, <2>2, LinesAssumption DEF Console
    <3> QED BY <1>3, <3>1 DEF FreePage
  <2>3. CASE line[1] \in {"read", "r"}
    <3>1. AccessMemory(line[2], "read") /\ line[2] \in ScriptVpns
      BY <1>6, <2>3, LinesAssumption DEF Console
    <3> QED BY <1>4, <3>1 DEF AccessMemory
  <2>4. CASE line[1] \in {"write", "w"}
    <3>1. AccessMemory(line[2], "write") /\ line[2] \in ScriptVpns
      BY <1>6, <2>4, LinesAssumption DEF Console
    <3> QED BY <1>4, <3>1 DEF AccessMemory
  <2>5. CASE line[1] \notin {"switch", "s", "free", "f", "read", "r", "write", "w"}
    <3>1. OnlyPrints
      BY <1>6, <2>5 DEF Console
    <3> QED BY <1>2, <3>1
  <2> QED BY <2>1, <2>2, <2>3, <2>4, <2>5
<1>7. CASE Len(line) = 3
  <2>1. CASE line[1] \in {"alloc", "a"}
    <3>1. AllocFlags(line[2], RwFlag(line[3])) /\ line[2] \in ScriptVpns
      BY <1>7, <2>1, LinesAssumption DEF Console
    <3>2. RwFlag(line[3]) \in SUBSET {"read", "write"}
      BY DEF RwFlag
    <3> QED BY <1>1, <1>3, <3>1, <3>2 DEF AllocFlags
  <2>2. CASE line[1] = "access"
    <3>1. AccessFlags(line[2], RwFlag(line[3])) /\ line[2] \in ScriptVpns
      BY <1>7, <2>2, LinesAssumption DEF Console
    <3>2. RwFlag(line[3]) \in SUBSET {"read", "write"}
      BY DEF RwFlag
    <3> QED BY <1>1, <1>4, <3>1, <3>2 DEF AccessFlags, AccessMemory
  <2>3. CASE line[1] \notin {"alloc", "a", "access"}
    <3>1. OnlyPrints
      BY <1>7, <2>3 DEF Console
    <3> QED BY <1>2, <3>1
  <2> QED BY <2>1, <2>2, <2>3
<1>8. CASE Len(line) \notin {1, 2, 3}
  BY <1>1, <1>2, <1>8 DEF Console
<1> QED BY <1>5, <1>6, <1>7, <1>8

\* try_alloc.c loses pages, so that a frame may be counted that nobody maps, never the reverse.
UncountedIsUnmapped ==
    ~exhausted => \A f \in Frames : mapcounts[f] = 0 =>
                     \A p \in Pids : \A w \in Vpns : ~(Valid(p, w) /\ pagetable[p][w].pfn = f)
LossyInv == TypeOK /\ WritableIsUnshared /\ UncountedIsUnmapped

\* The versions that swap private keep all of IInv but what the writable bit says of it.
SwappedInv ==
    /\ TypeOK
    /\ ProcessesAreOnce
    /\ MapcountsAreExact
    /\ WritableIsUnshared
    /\ SharersAreRelatives

\* try_switch-ing.c never has a second process. Until it overwrites the first one the list is
\* empty and a count is 0 or 1, so that it cannot wrap then; afterwards a frame may have been
\* counted that nobody maps.
CountedOnce == \A f \in Frames : mapcounts[f] \in {0, 1}
OverwrittenInv ==
    /\ TypeOK
    /\ processes = <<current>>
    /\ WritableIsUnshared
    /\ SharersAreRelatives
    /\ UncountedIsUnmapped
SwitchingInv == IF processes = << >> THEN SwappedInv /\ CountedOnce ELSE OverwrittenInv

PagerInv ==
    /\ version \in {"pa4", "Switch"} => IInv
    /\ version = "try_handler" => CountsInv
    /\ version = "try_alloc" => LossyInv
    /\ version \in {"alloc", "try_switch"} => SwappedInv
    /\ version = "try_switch-ing" => SwitchingInv

ConsoleInv ==
    /\ version \in Drafts \cup {"pa4"}
    /\ VersionsIsolate
    /\ running => PagerInv

LEMMA PagerIsolates == version \in Drafts \cup {"pa4"} /\ PagerInv => VersionsIsolate /\ TypeOK
<1> SUFFICES ASSUME version \in Drafts \cup {"pa4"}, PagerInv PROVE VersionsIsolate /\ TypeOK
  OBVIOUS
<1>1. CASE version = "try_switch-ing"
  BY <1>1 DEF PagerInv, SwitchingInv, OverwrittenInv, SwappedInv, VersionsIsolate, Overwritten
<1>2. CASE version # "try_switch-ing"
  BY <1>2 DEF Drafts, PagerInv, IInv, CountsInv, LossyInv, SwappedInv, VersionsIsolate
<1> QED BY <1>1, <1>2

LEMMA IdleKeeps ==
  ASSUME ConsoleInv, running, Idle, version' = version
  PROVE  ConsoleInv'
<1>1. PagerInv /\ VersionsIsolate /\ TypeOK /\ version \in Drafts \cup {"pa4"}
  BY PagerIsolates DEF ConsoleInv
<1>2. UNCHANGED <<current, processes, pagetable, mapcounts, exhausted, version>>
  BY DEF Idle
<1>3. \A p, v : Valid(p, v)' = Valid(p, v)
  BY <1>2 DEF Valid
<1>4. MapcountsAreExact => MapcountsAreExact'
  BY <1>2, <1>3 DEF MapcountsAreExact, Mappings
<1>5. WritableIsUnshared => WritableIsUnshared'
  BY <1>2, <1>3 DEF WritableIsUnshared
<1>6. SharersAreRelatives => SharersAreRelatives'
  BY <1>2, <1>3 DEF SharersAreRelatives
<1>7. UncountedIsUnmapped => UncountedIsUnmapped'
  BY <1>2, <1>3 DEF UncountedIsUnmapped
<1>8. /\ ProcessesAreOnce => ProcessesAreOnce'
      /\ PermissionsAreKept => PermissionsAreKept'
  BY <1>2 DEF ProcessesAreOnce, Live, PermissionsAreKept
<1>9. running' => TypeOK'
  BY <1>1, <1>2 DEF Idle, TypeOK
<1>10. VersionsIsolate'
  BY <1>1, <1>2, <1>4, <1>5 DEF VersionsIsolate, Overwritten
<1>12. running' /\ SwitchingInv => SwitchingInv'
  BY <1>2, <1>4, <1>5, <1>6, <1>7, <1>8, <1>9
     DEF SwitchingInv, SwappedInv, CountedOnce, OverwrittenInv
<1>11. running' => PagerInv'
  BY <1>1, <1>2, <1>4, <1>5, <1>6, <1>7, <1>8, <1>9, <1>12
     DEF PagerInv, IInv, CountsInv, LossyInv, SwappedInv
<1> QED BY <1>1, <1>2, <1>10, <1>11 DEF ConsoleInv

LEMMA InitConsole == ConsoleInit => ConsoleInv
<1> SUFFICES ASSUME ConsoleInit PROVE ConsoleInv
  OBVIOUS
<1>1. IInv /\ version \in Drafts \cup {"pa4"}
  BY InitIInv, VersionsAssumption DEF ConsoleInit
<1>2. UncountedIsUnmapped
  BY DEF ConsoleInit, Init, UncountedIsUnmapped, Valid, NoDirectories
<1>4. SwitchingInv
  <2>1. processes = << >> /\ CountedOnce
    BY DEF ConsoleInit, Init, CountedOnce
  <2> QED BY <1>1, <2>1 DEF SwitchingInv, IInv, SwappedInv
<1>3. PagerInv
  BY <1>1, <1>2, <1>4 DEF PagerInv, IInv, CountsInv, LossyInv, SwappedInv
<1> QED BY <1>1, <1>3, PagerIsolates DEF ConsoleInv

\* What swapping private leaves of AllocatedPte.
LEMMA SwappedPte ==
  ASSUME TypeOK, NEW v \in Vpns, NEW flags, NEW f \in Frames, ~Translates(table, v, "read"),
         pagetable' = [pagetable EXCEPT ![current] = SwappedPage(v, flags, f)]
  PROVE  /\ OnlyPte(v)
         /\ ~Valid(current, v)
         /\ pagetable'[current][v].valid
         /\ pagetable'[current][v].pfn = f
         /\ v \in DOMAIN pagetable'[current]
         /\ \A p \in Pids \ {current} : pagetable'[p] = pagetable[p]
         /\ DOMAIN pagetable' = Pids
         /\ \A p \in Pids : /\ DOMAIN pagetable'[p] \subseteq Vpns
                            /\ pagetable'[p] \in [DOMAIN pagetable'[p] -> Pte]
<1> DEFINE pt == WithPage(table, v, IF flags = {"read"} THEN "r" ELSE "rw", f)
           new == [pt[v] EXCEPT !.private = ~@]
           swapped == [pt EXCEPT ![v] = new]
<1>1. /\ DOMAIN pt \subseteq Vpns
      /\ pt \in [DOMAIN pt -> Pte]
      /\ v \in DOMAIN pt
      /\ pt[v].valid /\ pt[v].pfn = f /\ pt[v] \in Pte
      /\ \A w \in DOMAIN pt : w # v => pt[w] = IF w \in DOMAIN table THEN table[w] ELSE ZeroPte
      /\ DOMAIN table \subseteq DOMAIN pt
  <2>1. ASSUME NEW rw
        PROVE  LET q == WithPage(table, v, rw, f)
               IN  /\ DOMAIN q \subseteq Vpns
                   /\ q \in [DOMAIN q -> Pte]
                   /\ v \in DOMAIN q
                   /\ q[v].valid /\ q[v].pfn = f /\ q[v] \in Pte
                   /\ \A w \in DOMAIN q : w # v => q[w] = IF w \in DOMAIN table THEN table[w]
                                                          ELSE ZeroPte
                   /\ DOMAIN table \subseteq DOMAIN q
    <3> DEFINE q == WithPage(table, v, rw, f)
               set == [valid |-> TRUE, writable |-> rw # "r", private |-> rw # "r", pfn |-> f]
    <3>1. /\ DOMAIN q \subseteq Vpns
          /\ q \in [DOMAIN q -> Pte]
          /\ v \in DOMAIN q
          /\ q[v] = set
          /\ \A w \in DOMAIN q : w # v => q[w] = IF w \in DOMAIN table THEN table[w] ELSE ZeroPte
          /\ DOMAIN table \subseteq DOMAIN q
      BY WithPageType
    <3>2. set.valid /\ set.pfn = f
      OBVIOUS
    <3> HIDE DEF q, set
    <3>3. q[v] \in Pte
      BY <3>1
    <3>4. q[v].valid /\ q[v].pfn = f
      BY <3>1, <3>2
    <3> QED BY <3>1, <3>3, <3>4 DEF q
  <2> QED BY <2>1
<1>2. SwappedPage(v, flags, f) = swapped
  BY DEF SwappedPage
<1> HIDE DEF pt
<1>3. new \in Pte /\ new.valid /\ new.pfn = f
  BY <1>1 DEF Pte
<1> HIDE DEF new
<1>4. /\ DOMAIN swapped = DOMAIN pt
      /\ swapped \in [DOMAIN pt -> Pte]
      /\ swapped[v] = new
      /\ \A w \in DOMAIN pt : w # v => swapped[w] = IF w \in DOMAIN table THEN table[w] ELSE ZeroPte
  BY <1>1, <1>3
<1> HIDE DEF swapped
<1>5. /\ pagetable'[current] = swapped
      /\ \A p \in Pids \ {current} : pagetable'[p] = pagetable[p]
      /\ DOMAIN pagetable' = Pids
  BY <1>2 DEF TypeOK
<1>6. OnlyPte(v)
  <2> SUFFICES ASSUME NEW p \in Pids, NEW w \in Vpns, p # current \/ w # v
               PROVE  /\ Valid(p, w)' <=> Valid(p, w)
                      /\ Valid(p, w) => pagetable'[p][w] = pagetable[p][w]
    BY DEF OnlyPte
  <2>1. CASE p # current
    BY <1>5, <2>1 DEF Valid
  <2>2. CASE p = current /\ w \in DOMAIN table
    BY <1>1, <1>4, <1>5, <2>2 DEF Valid, table
  <2>3. CASE p = current /\ w \notin DOMAIN table
    BY <1>4, <1>5, <2>3 DEF Valid, table, ZeroPte
  <2> QED BY <2>1, <2>2, <2>3
<1>7. ~Valid(current, v)
  BY DEF Translates, Valid, table
<1>8. \A p \in Pids : /\ DOMAIN pagetable'[p] \subseteq Vpns
                      /\ pagetable'[p] \in [DOMAIN pagetable'[p] -> Pte]
  BY <1>1, <1>4, <1>5 DEF TypeOK
<1> QED BY <1>1, <1>3, <1>4, <1>5, <1>6, <1>7, <1>8

LEMMA SwappedAllocKeeps ==
  ASSUME SwappedInv, NEW v \in Vpns, NEW flags, ~Translates(table, v, "read"),
         alloc_alloc_page(v, flags)
  PROVE  SwappedInv'
<1>0. /\ TypeOK /\ ProcessesAreOnce
      /\ MapcountsAreExact /\ WritableIsUnshared /\ SharersAreRelatives
  BY DEF SwappedInv
<1>1. outcome' = "allocated" /\ UNCHANGED <<current, processes, running>>
  BY DEF alloc_alloc_page
<1>2. ASSUME NEW f \in Frames, FirstFree(f), MapFrame(SwappedPage(v, flags, f), f)
      PROVE  SwappedInv'
  <2>1. /\ mapcounts' = [mapcounts EXCEPT ![f] = 1]
        /\ pagetable' = [pagetable EXCEPT ![current] = SwappedPage(v, flags, f)]
        /\ exhausted' = exhausted
        /\ mapcounts[f] = 0
    BY <1>2 DEF MapFrame, FirstFree, FreeFrames
  <2>2. /\ OnlyPte(v)
        /\ ~Valid(current, v)
        /\ pagetable'[current][v].valid
        /\ pagetable'[current][v].pfn = f
        /\ v \in DOMAIN pagetable'[current]
        /\ \A p \in Pids \ {current} : pagetable'[p] = pagetable[p]
        /\ DOMAIN pagetable' = Pids
        /\ \A p \in Pids : /\ DOMAIN pagetable'[p] \subseteq Vpns
                           /\ pagetable'[p] \in [DOMAIN pagetable'[p] -> Pte]
    BY <1>0, <2>1, SwappedPte
  <2>3. TypeOK'
    <3>1. mapcounts' \in [Frames -> 0 .. UintMax]
      BY <1>0, <2>1, UintMaxIsPositive DEF TypeOK
    <3> QED BY <1>0, <1>1, <2>1, <2>2, <3>1 DEF TypeOK, Outcomes
  <2>4. ProcessesAreOnce'
    BY <1>0, <1>1, <2>2, ListIsKept
  <2>5. Valid(current, v)' /\ Mapped(current, v)' = f
    BY <1>1, <2>2 DEF Valid, Mapped
  <2>6. MapcountsAreExact'
    <3> SUFFICES ASSUME ~exhausted, NEW g \in Frames
                 PROVE  mapcounts'[g] = Cardinality(Mappings(g)')
      BY <2>1 DEF MapcountsAreExact
    <3>1. mapcounts[g] = Cardinality(Mappings(g)) /\ Cardinality(Mappings(g)) \in Nat
      BY <1>0, MappingsFinite, FS_CardinalityType DEF MapcountsAreExact
    <3>2. Cardinality(Mappings(g)') = Cardinality(Mappings(g)) + (IF f = g THEN 1 ELSE 0)
      BY <1>0, <1>1, <2>2, <2>5, <3>1, OnePteCounts
    <3> QED BY <1>0, <2>1, <3>1, <3>2 DEF TypeOK
  <2>7. ~exhausted => \A p \in Pids : \A w \in Vpns : ~(Valid(p, w) /\ pagetable[p][w].pfn = f)
    <3> SUFFICES ASSUME ~exhausted, NEW p \in Pids, NEW w \in Vpns
                 PROVE  ~(Valid(p, w) /\ pagetable[p][w].pfn = f)
      OBVIOUS
    <3>1. <<p, w>> \notin Mappings(f)
      BY <1>0, <2>1, FreeIsUnmapped
    <3> QED BY <3>1 DEF Mappings
  <2>8. WritableIsUnshared' /\ SharersAreRelatives'
    BY <1>0, <2>1, <2>2, <2>7, AloneInItsFrame
  <2> QED BY <2>3, <2>4, <2>6, <2>8 DEF SwappedInv
<1>3. ASSUME MapNothing(SwappedPage(v, flags, OldPfn(v))) PROVE SwappedInv'
  <2>1. /\ pagetable' = [pagetable EXCEPT ![current] = SwappedPage(v, flags, OldPfn(v))]
        /\ exhausted' = TRUE /\ mapcounts' = mapcounts
    BY <1>3 DEF MapNothing
  <2>2. OldPfn(v) \in Frames
    BY <1>0, OldPfnType
  <2>3. /\ \A p \in Pids \ {current} : pagetable'[p] = pagetable[p]
        /\ DOMAIN pagetable' = Pids
        /\ \A p \in Pids : /\ DOMAIN pagetable'[p] \subseteq Vpns
                           /\ pagetable'[p] \in [DOMAIN pagetable'[p] -> Pte]
    BY <1>0, <2>1, <2>2, SwappedPte
  <2>4. TypeOK'
    BY <1>0, <1>1, <2>1, <2>3 DEF TypeOK, Outcomes
  <2>5. ProcessesAreOnce'
    BY <1>0, <1>1, <2>3, ListIsKept
  <2>6. MapcountsAreExact' /\ WritableIsUnshared' /\ SharersAreRelatives'
    BY <2>1 DEF MapcountsAreExact, WritableIsUnshared, SharersAreRelatives
  <2> QED BY <2>4, <2>5, <2>6 DEF SwappedInv
<1> QED BY <1>2, <1>3 DEF alloc_alloc_page

LEMMA SwappedSwitchKeeps ==
  ASSUME SwappedInv, NEW pid \in Pids, Switch(pid)
  PROVE  SwappedInv'
<1>0. /\ TypeOK /\ ProcessesAreOnce
      /\ MapcountsAreExact /\ WritableIsUnshared /\ SharersAreRelatives
  BY DEF SwappedInv
<1>1. /\ current' = pid
      /\ outcome' = "switched"
      /\ UNCHANGED <<pagetable, mapcounts, running, exhausted>>
  BY DEF Switch
<1>2. /\ Live' = Live
      /\ processes' \in Seq(Pids)
      /\ \A j \in DOMAIN processes' : processes'[j] # current'
      /\ \A j, k \in DOMAIN processes' : processes'[j] = processes'[k] => j = k
  BY <1>0, SwitchKeepsLive
<1>3. TypeOK'
  BY <1>0, <1>1, <1>2 DEF TypeOK, Outcomes
<1>4. ProcessesAreOnce'
  BY <1>0, <1>1, <1>2 DEF ProcessesAreOnce
<1>5. WritableIsUnshared' /\ SharersAreRelatives'
  BY <1>0, <1>1 DEF WritableIsUnshared, SharersAreRelatives, Valid
<1>6. MapcountsAreExact'
  BY <1>0, <1>1 DEF MapcountsAreExact, Mappings, Valid
<1> QED BY <1>3, <1>4, <1>5, <1>6 DEF SwappedInv

LEMMA SwappedAllocCountsOnce ==
  ASSUME TypeOK, CountedOnce, NEW v, NEW flags, alloc_alloc_page(v, flags)
  PROVE  CountedOnce'
<1>1. CASE UNCHANGED mapcounts
  BY <1>1 DEF CountedOnce
<1>2. ASSUME NEW f \in Frames, mapcounts' = [mapcounts EXCEPT ![f] = 1] PROVE CountedOnce'
  BY <1>2 DEF CountedOnce, TypeOK
<1> QED BY <1>1, <1>2 DEF alloc_alloc_page, MapFrame, MapNothing

\* The process that switches to itself while it is alone stays alone.
LEMMA AloneSwitchKeeps ==
  ASSUME SwappedInv, CountedOnce, processes = << >>, Switch(current)
  PROVE  SwitchingInv'
<1>0. TypeOK /\ ProcessesAreOnce /\ current \in Pids
  BY DEF SwappedInv, TypeOK
<1>1. SwappedInv'
  BY <1>0, SwappedSwitchKeeps
<1>2. CountedOnce' /\ current' = current
  BY DEF Switch, CountedOnce
<1>3. Live' = Live /\ processes' \in Seq(Pids) /\ \A j \in DOMAIN processes' : processes'[j] # current'
  BY <1>0, SwitchKeepsLive
<1>4. Live = {current}
  BY DEF Live
<1>5. DOMAIN processes' = {}
  BY <1>2, <1>3, <1>4 DEF Live
<1>6. processes' = << >>
  BY <1>3, <1>5
<1> QED BY <1>1, <1>2, <1>6 DEF SwitchingInv

LEMMA TwoPidsCount ==
  ASSUME NEW p \in Pids, NEW q \in Pids, p # q
  PROVE  UintMax >= 2
<1>1. IsFiniteSet(Pids \X Vpns)
  <2>1. IsFiniteSet(Vpns)
    BY FS_Interval, SizesAssumption DEF Vpns
  <2> QED BY <2>1, FS_Product, PidsAssumption
<1>2. 0 \in Vpns
  <2>1. NrPtesPerPage * NrPtesPerPage >= 1
    BY SizesAssumption
  <2> QED BY <2>1, SizesAssumption DEF Vpns
<1> DEFINE one == {<<p, 0>>}
           two == one \cup {<<q, 0>>}
<1>3. two \in SUBSET (Pids \X Vpns)
  BY <1>2
<1>4. IsFiniteSet(one) /\ Cardinality(one) = 1
  BY FS_Singleton
<1>5. <<q, 0>> \notin one
  OBVIOUS
<1>6. Cardinality(two) = 2
  <2> HIDE DEF one
  <2>1. Cardinality(one \cup {<<q, 0>>}) = Cardinality(one) + 1
    BY <1>4, <1>5, FS_AddElement
  <2> QED BY <1>4, <2>1
<1>7. Cardinality(two) =< Cardinality(Pids \X Vpns)
  BY <1>1, <1>3, FS_Subset
<1>8. Cardinality(Pids \X Vpns) \in Nat
  BY <1>1, FS_CardinalityType
<1> HIDE DEF two
<1> QED BY <1>6, <1>7, <1>8, SizesAssumption

\* The child has the mappings of the process it overwrites, none of them writable; the counts
\* that are raised belong to no mapping, and none of them wraps.
LEMMA OverwriteKeeps ==
  ASSUME SwappedInv, CountedOnce, processes = << >>, NEW pid \in Pids, pid # current,
         Overwrite(pid)
  PROVE  OverwrittenInv'
<1>0. /\ TypeOK /\ ProcessesAreOnce /\ current \in Pids
      /\ MapcountsAreExact /\ WritableIsUnshared /\ SharersAreRelatives
  BY DEF SwappedInv, TypeOK
<1>1. /\ mapcounts' = [f \in Frames |-> IF f < NrPtesPerPage THEN Increment(mapcounts[f], 1)
                                        ELSE mapcounts[f]]
      /\ current' = pid /\ processes' = <<pid>> /\ outcome' = "switched"
      /\ UNCHANGED <<running, exhausted>>
  BY DEF Overwrite
<1>2. /\ DOMAIN pagetable' = Pids
      /\ pagetable'[pid] = Unwritable(table)
      /\ pagetable'[current] = NoDirectories
      /\ \A p \in Pids \ {pid, current} : pagetable'[p] = pagetable[p]
  BY <1>0 DEF Overwrite, TypeOK
<1>3. \A p \in Pids \ {current} : pagetable[p] = NoDirectories
  BY <1>0 DEF ProcessesAreOnce, Live
<1>4. \A p \in Pids \ {pid} : pagetable'[p] = NoDirectories
  BY <1>2, <1>3
<1>5. /\ DOMAIN table \subseteq Vpns
      /\ \A w \in DOMAIN table : table[w] \in Pte
  BY <1>0 DEF TypeOK, table
<1>6. /\ DOMAIN Unwritable(table) = DOMAIN table
      /\ Unwritable(table) \in [DOMAIN table -> Pte]
      /\ \A w \in DOMAIN table :
            /\ ~Unwritable(table)[w].writable
            /\ Unwritable(table)[w].valid = table[w].valid
            /\ Unwritable(table)[w].private = table[w].private
            /\ Unwritable(table)[w].pfn = table[w].pfn
  BY <1>5 DEF Unwritable, Pte
<1>7. TypeOK'
  <2>1. ASSUME NEW n \in 0 .. UintMax PROVE Increment(n, 1) \in 0 .. UintMax
    <3>1. n \in Nat
      BY SizesAssumption
    <3> QED BY <3>1, IncrementType
  <2>2. mapcounts' \in [Frames -> 0 .. UintMax]
    BY <1>0, <1>1, <2>1 DEF TypeOK
  <2>3. \A p \in Pids : /\ DOMAIN pagetable'[p] \subseteq Vpns
                        /\ pagetable'[p] \in [DOMAIN pagetable'[p] -> Pte]
    BY <1>2, <1>4, <1>5, <1>6 DEF NoDirectories
  <2>4. processes' \in Seq(Pids)
    BY <1>1
  <2> QED BY <1>0, <1>1, <1>2, <2>2, <2>3, <2>4 DEF TypeOK, Outcomes
<1>8. ASSUME NEW p \in Pids, NEW w \in Vpns, Valid(p, w)'
      PROVE  /\ p = pid
             /\ Valid(current, w)
             /\ ~pagetable'[p][w].writable
             /\ pagetable'[p][w].private = pagetable[current][w].private
             /\ pagetable'[p][w].pfn = pagetable[current][w].pfn
  <2>1. p = pid
    BY <1>4, <1>8 DEF Valid, NoDirectories
  <2> QED BY <1>2, <1>6, <1>8, <2>1 DEF Valid, table
<1>9. WritableIsUnshared'
  BY <1>8 DEF WritableIsUnshared
<1>10. SharersAreRelatives'
  <2> SUFFICES ASSUME ~exhausted, NEW p \in Pids, NEW q \in Pids, NEW w \in Vpns, NEW x \in Vpns,
                      Valid(p, w)', Valid(q, x)', pagetable'[p][w].pfn = pagetable'[q][x].pfn
               PROVE  w = x /\ pagetable'[p][w].private = pagetable'[q][x].private
    BY <1>1 DEF SharersAreRelatives
  <2>1. Valid(current, w) /\ Valid(current, x)
        /\ pagetable[current][w].pfn = pagetable[current][x].pfn
    BY <1>8
  <2>2. w = x /\ pagetable[current][w].private = pagetable[current][x].private
    BY <1>0, <2>1 DEF SharersAreRelatives
  <2> QED BY <1>8, <2>2
<1>11. UncountedIsUnmapped'
  <2> SUFFICES ASSUME ~exhausted, NEW g \in Frames, mapcounts'[g] = 0,
                      NEW p \in Pids, NEW w \in Vpns, Valid(p, w)', pagetable'[p][w].pfn = g
               PROVE  FALSE
    BY <1>1 DEF UncountedIsUnmapped
  <2>1. mapcounts[g] = 0
    <3>1. \A n \in {0, 1} : Increment(n, 1) # 0
      BY TwoPidsCount, IncrementIsExact, <1>0, SizesAssumption
    <3> QED BY <1>1, <3>1 DEF CountedOnce
  <2>2. Mappings(g) = {}
    BY <1>0, <2>1, FreeIsUnmapped
  <2>3. Valid(current, w)
    BY <1>8
  <2>4. pagetable[current][w].pfn = g
    BY <1>8
  <2>5. <<current, w>> \in Mappings(g)
    BY <1>0, <2>3, <2>4 DEF Mappings
  <2> QED BY <2>2, <2>5
<1> QED BY <1>1, <1>7, <1>9, <1>10, <1>11 DEF OverwrittenInv

LEMMA OverwrittenAllocKeeps ==
  ASSUME OverwrittenInv, NEW v \in Vpns, NEW flags, ~Translates(table, v, "read"),
         alloc_alloc_page(v, flags)
  PROVE  OverwrittenInv'
<1>0. /\ TypeOK /\ processes = <<current>>
      /\ WritableIsUnshared /\ SharersAreRelatives /\ UncountedIsUnmapped
  BY DEF OverwrittenInv
<1>1. outcome' = "allocated" /\ UNCHANGED <<current, processes, running>>
  BY DEF alloc_alloc_page
<1>2. ASSUME NEW f \in Frames, FirstFree(f), MapFrame(SwappedPage(v, flags, f), f)
      PROVE  OverwrittenInv'
  <2>1. /\ mapcounts' = [mapcounts EXCEPT ![f] = 1]
        /\ pagetable' = [pagetable EXCEPT ![current] = SwappedPage(v, flags, f)]
        /\ exhausted' = exhausted
        /\ mapcounts[f] = 0
    BY <1>2 DEF MapFrame, FirstFree, FreeFrames
  <2>2. /\ OnlyPte(v)
        /\ pagetable'[current][v].pfn = f
        /\ DOMAIN pagetable' = Pids
        /\ \A p \in Pids : /\ DOMAIN pagetable'[p] \subseteq Vpns
                           /\ pagetable'[p] \in [DOMAIN pagetable'[p] -> Pte]
    BY <1>0, <2>1, SwappedPte
  <2>3. TypeOK'
    <3>1. mapcounts' \in [Frames -> 0 .. UintMax]
      BY <1>0, <2>1, UintMaxIsPositive DEF TypeOK
    <3> QED BY <1>0, <1>1, <2>1, <2>2, <3>1 DEF TypeOK, Outcomes
  <2>4. ~exhausted => \A p \in Pids : \A w \in Vpns : ~(Valid(p, w) /\ pagetable[p][w].pfn = f)
    BY <1>0, <2>1 DEF UncountedIsUnmapped
  <2>5. WritableIsUnshared' /\ SharersAreRelatives'
    BY <1>0, <2>1, <2>2, <2>4, AloneInItsFrame
  <2>6. UncountedIsUnmapped'
    <3> SUFFICES ASSUME ~exhausted, NEW g \in Frames, mapcounts'[g] = 0,
                        NEW p \in Pids, NEW w \in Vpns
                 PROVE  ~(Valid(p, w)' /\ pagetable'[p][w].pfn = g)
      BY <2>1 DEF UncountedIsUnmapped
    <3>1. g # f /\ mapcounts[g] = 0
      BY <1>0, <2>1 DEF TypeOK
    <3>2. CASE p = current /\ w = v
      BY <2>2, <3>1, <3>2
    <3>3. CASE ~(p = current /\ w = v)
      BY <1>0, <2>2, <3>1, <3>3 DEF UncountedIsUnmapped, OnlyPte
    <3> QED BY <3>2, <3>3
  <2> QED BY <1>0, <1>1, <2>3, <2>5, <2>6 DEF OverwrittenInv
<1>3. ASSUME MapNothing(SwappedPage(v, flags, OldPfn(v))) PROVE OverwrittenInv'
  <2>1. /\ pagetable' = [pagetable EXCEPT ![current] = SwappedPage(v, flags, OldPfn(v))]
        /\ exhausted' = TRUE /\ mapcounts' = mapcounts
    BY <1>3 DEF MapNothing
  <2>2. OldPfn(v) \in Frames
    BY <1>0, OldPfnType
  <2>3. /\ DOMAIN pagetable' = Pids
        /\ \A p \in Pids : /\ DOMAIN pagetable'[p] \subseteq Vpns
                           /\ pagetable'[p] \in [DOMAIN pagetable'[p] -> Pte]
    BY <1>0, <2>1, <2>2, SwappedPte
  <2>4. TypeOK'
    BY <1>0, <1>1, <2>1, <2>3 DEF TypeOK, Outcomes
  <2>5. WritableIsUnshared' /\ SharersAreRelatives' /\ UncountedIsUnmapped'
    BY <2>1 DEF WritableIsUnshared, SharersAreRelatives, UncountedIsUnmapped
  <2> QED BY <1>0, <1>1, <2>4, <2>5 DEF OverwrittenInv
<1> QED BY <1>2, <1>3 DEF alloc_alloc_page

\* The directory and the page that try_alloc.c makes of a page number are in the table.
LEMMA LandingType ==
  ASSUME NEW v \in Vpns, v # 0, v < NrPtesPerPage
  PROVE  Landing(v) \in Vpns /\ Landing(v) \in Directory(Landing(v))
<1> DEFINE n == NrPtesPerPage
           d == n % v
<1>1. n \in Nat /\ v \in Nat /\ v >= 1 /\ n >= 1
  BY SizesAssumption DEF Vpns
<1>2. d \in 0 .. v - 1
  BY <1>1
<1> HIDE DEF d
<1>3. d \in Nat /\ d + 1 =< n
  BY <1>1, <1>2
<1>4. (d + 1) * n =< n * n
  <2> HIDE DEF n
  <2> QED BY <1>1, <1>3
<1>5. (d + 1) * n = d * n + n
  <2> HIDE DEF n
  <2> QED BY <1>1, <1>3
<1>6. d * n \in Nat /\ n * n \in Nat
  <2> HIDE DEF n
  <2> QED BY <1>1, <1>3
<1>7. d * n + v \in 0 .. n * n - 1
  BY <1>1, <1>4, <1>5, <1>6
<1>8. Landing(v) = d * n + v
  BY DEF Landing, d
<1> QED BY <1>7, <1>8 DEF Vpns, Directory

LEMMA LossyAllocKeeps ==
  ASSUME LossyInv, NEW v \in Vpns, NEW flags, v # 0, v < NrPtesPerPage,
         try_alloc_alloc_page(v, flags)
  PROVE  LossyInv'
<1> DEFINE l == Landing(v)
<1>0. TypeOK /\ WritableIsUnshared /\ UncountedIsUnmapped
  BY DEF LossyInv
<1>1. /\ outcome' = "allocated" /\ UNCHANGED <<current, processes, running>>
      /\ \/ \E f \in Frames : FirstFree(f) /\ MapFrame(FreshDirectory(v, flags, f), f)
         \/ MapNothing(FreshDirectory(v, flags, 0))
  <2>1. ~(v >= NrPtesPerPage)
    BY SizesAssumption DEF Vpns
  <2> QED BY <2>1, Zenon DEF try_alloc_alloc_page
<1>2. l \in Vpns /\ l \in Directory(l) /\ Directory(l) \subseteq Vpns
  BY LandingType DEF Directory
<1>3. 0 \in Frames
  BY SizesAssumption DEF Frames
<1>4. ASSUME NEW f \in Frames,
             pagetable' = [pagetable EXCEPT ![current] = FreshDirectory(v, flags, f)]
      PROVE  /\ DOMAIN pagetable' = Pids
             /\ \A p \in Pids : /\ DOMAIN pagetable'[p] \subseteq Vpns
                                /\ pagetable'[p] \in [DOMAIN pagetable'[p] -> Pte]
             /\ \A p \in Pids : \A w \in Vpns : Valid(p, w)' /\ ~(p = current /\ w = l)
                   => Valid(p, w) /\ pagetable'[p][w] = pagetable[p][w]
             /\ pagetable'[current][l].pfn = f
  <2> DEFINE pt == FreshDirectory(v, flags, f)
             new == [valid |-> TRUE, writable |-> flags = {"write"},
                     private |-> flags = {"read"}, pfn |-> f]
  <2>1. new \in Pte /\ ZeroPte \in Pte /\ new.pfn = f /\ ~ZeroPte.valid
    BY <1>3 DEF Pte, ZeroPte
  <2>2. DOMAIN table \subseteq Vpns /\ \A w \in DOMAIN table : table[w] \in Pte
    BY <1>0 DEF TypeOK, table
  <2> HIDE DEF l
  <2>3. /\ DOMAIN pt = DOMAIN table \cup Directory(l)
        /\ \A w \in DOMAIN pt : pt[w] = IF w = l THEN new
                                        ELSE IF w \in Directory(l) THEN ZeroPte ELSE table[w]
        /\ pt = [w \in DOMAIN pt |-> pt[w]]
    BY DEF FreshDirectory, l
  <2> HIDE DEF pt, new
  <2>4. pt \in [DOMAIN pt -> Pte] /\ DOMAIN pt \subseteq Vpns /\ pt[l].pfn = f
    BY <1>2, <2>1, <2>2, <2>3
  <2>5. /\ pagetable'[current] = pt
        /\ \A p \in Pids \ {current} : pagetable'[p] = pagetable[p]
        /\ DOMAIN pagetable' = Pids
    BY <1>0, <1>4 DEF TypeOK, pt
  <2>6. \A p \in Pids : \A w \in Vpns : Valid(p, w)' /\ ~(p = current /\ w = l)
                   => Valid(p, w) /\ pagetable'[p][w] = pagetable[p][w]
    <3> SUFFICES ASSUME NEW p \in Pids, NEW w \in Vpns, Valid(p, w)', ~(p = current /\ w = l)
                 PROVE  Valid(p, w) /\ pagetable'[p][w] = pagetable[p][w]
      OBVIOUS
    <3>1. CASE p = current
      BY <2>1, <2>3, <2>5, <3>1 DEF Valid, table
    <3>2. CASE p # current
      BY <2>5, <3>2 DEF Valid
    <3> QED BY <3>1, <3>2
  <2>7. \A p \in Pids : /\ DOMAIN pagetable'[p] \subseteq Vpns
                        /\ pagetable'[p] \in [DOMAIN pagetable'[p] -> Pte]
    BY <1>0, <2>4, <2>5 DEF TypeOK
  <2> QED BY <2>4, <2>5, <2>6, <2>7
<1> HIDE DEF l
<1>5. ASSUME NEW f \in Frames, FirstFree(f), MapFrame(FreshDirectory(v, flags, f), f)
      PROVE  LossyInv'
  <2>1. /\ mapcounts' = [mapcounts EXCEPT ![f] = 1]
        /\ pagetable' = [pagetable EXCEPT ![current] = FreshDirectory(v, flags, f)]
        /\ exhausted' = exhausted
        /\ mapcounts[f] = 0
    BY <1>5 DEF MapFrame, FirstFree, FreeFrames
  <2>2. /\ DOMAIN pagetable' = Pids
        /\ \A p \in Pids : /\ DOMAIN pagetable'[p] \subseteq Vpns
                           /\ pagetable'[p] \in [DOMAIN pagetable'[p] -> Pte]
        /\ \A p \in Pids : \A w \in Vpns : Valid(p, w)' /\ ~(p = current /\ w = l)
                   => Valid(p, w) /\ pagetable'[p][w] = pagetable[p][w]
        /\ pagetable'[current][l].pfn = f
    BY <1>4, <2>1
  <2>3. TypeOK'
    <3>1. mapcounts' \in [Frames -> 0 .. UintMax]
      BY <1>0, <2>1, UintMaxIsPositive DEF TypeOK
    <3> QED BY <1>0, <1>1, <2>1, <2>2, <3>1 DEF TypeOK, Outcomes
  <2>4. ~exhausted => \A p \in Pids : \A w \in Vpns : ~(Valid(p, w) /\ pagetable[p][w].pfn = f)
    BY <1>0, <2>1 DEF UncountedIsUnmapped
  <2>5. WritableIsUnshared'
    <3> SUFFICES ASSUME ~exhausted, NEW p \in Pids, NEW q \in Pids, NEW w \in Vpns, NEW x \in Vpns,
                        Valid(p, w)', Valid(q, x)', pagetable'[p][w].writable,
                        pagetable'[p][w].pfn = pagetable'[q][x].pfn
                 PROVE  p = q /\ w = x
      BY <2>1 DEF WritableIsUnshared
    <3>1. CASE ~(p = current /\ w = l) /\ ~(q = current /\ x = l)
      BY <1>0, <2>2, <3>1 DEF WritableIsUnshared
    <3>2. CASE ~(p = current /\ w = l) /\ (q = current /\ x = l)
      BY <2>2, <2>4, <3>2
    <3>3. CASE (p = current /\ w = l) /\ ~(q = current /\ x = l)
      BY <2>2, <2>4, <3>3
    <3> QED BY <3>1, <3>2, <3>3
  <2>6. UncountedIsUnmapped'
    <3> SUFFICES ASSUME ~exhausted, NEW g \in Frames, mapcounts'[g] = 0,
                        NEW p \in Pids, NEW w \in Vpns
                 PROVE  ~(Valid(p, w)' /\ pagetable'[p][w].pfn = g)
      BY <2>1 DEF UncountedIsUnmapped
    <3>1. g # f /\ mapcounts[g] = 0
      BY <1>0, <2>1 DEF TypeOK
    <3>2. CASE p = current /\ w = l
      BY <2>2, <3>1, <3>2
    <3>3. CASE ~(p = current /\ w = l)
      BY <1>0, <2>2, <3>1, <3>3 DEF UncountedIsUnmapped
    <3> QED BY <3>2, <3>3
  <2> QED BY <2>3, <2>5, <2>6 DEF LossyInv
<1>6. ASSUME MapNothing(FreshDirectory(v, flags, 0)) PROVE LossyInv'
  <2>1. /\ pagetable' = [pagetable EXCEPT ![current] = FreshDirectory(v, flags, 0)]
        /\ exhausted' = TRUE /\ mapcounts' = mapcounts
    BY <1>6 DEF MapNothing
  <2>2. /\ DOMAIN pagetable' = Pids
        /\ \A p \in Pids : /\ DOMAIN pagetable'[p] \subseteq Vpns
                           /\ pagetable'[p] \in [DOMAIN pagetable'[p] -> Pte]
    BY <1>3, <1>4, <2>1
  <2>3. TypeOK'
    BY <1>0, <1>1, <2>1, <2>2 DEF TypeOK, Outcomes
  <2> QED BY <2>1, <2>3 DEF LossyInv, WritableIsUnshared, UncountedIsUnmapped
<1> QED BY <1>1, <1>5, <1>6

\* try_handler.c counts right whichever way it goes: the PTE stays in its frame, is moved to
\* another one, or back into the frame that its own decrement made look free.
LEMMA HandlerKeeps ==
  ASSUME CountsInv, NEW v, handler_handle_page_fault(v), outcome' \in Outcomes,
         UNCHANGED <<current, processes, running>>
  PROVE  CountsInv'
<1> DEFINE f == table[v].pfn
           less == [mapcounts EXCEPT ![f] = Decrement(@)]
           free == {g \in Frames : less[g] = 0}
<1>0. TypeOK /\ ProcessesAreOnce /\ PermissionsAreKept /\ MapcountsAreExact
  BY DEF CountsInv
<1>1. /\ Recoverable(v)
      /\ \/ less[f] = 1 /\ MakeWritable(v, f) /\ UNCHANGED <<mapcounts, exhausted>>
         \/ \E g \in free : /\ MakeWritable(v, g)
                            /\ mapcounts' = [less EXCEPT ![g] = Increment(@, 1)]
                            /\ UNCHANGED exhausted
         \/ MakeWritable(v, f) /\ mapcounts' = less /\ exhausted' = TRUE
  BY DEF handler_handle_page_fault
<1>2. f \in Frames /\ Mapped(current, v) = f /\ Valid(current, v)
  BY <1>0, <1>1 DEF Recoverable, table, TypeOK, Pte, Mapped, Valid
<1>3. less \in [Frames -> 0 .. UintMax] /\ less[f] = Decrement(mapcounts[f])
      /\ \A g \in Frames : g # f => less[g] = mapcounts[g]
  <2>1. Decrement(mapcounts[f]) \in 0 .. UintMax
    BY <1>0, <1>2, DecrementType DEF TypeOK
  <2> QED BY <1>0, <1>2, <2>1 DEF TypeOK
<1> HIDE DEF f, less
<1>4. ASSUME NEW g \in Frames, MakeWritable(v, g)
      PROVE  /\ v \in Vpns
             /\ OnlyPte(v)
             /\ Valid(current, v)' /\ Mapped(current, v)' = g
             /\ DOMAIN pagetable' = Pids
             /\ \A p \in Pids : /\ DOMAIN pagetable'[p] \subseteq Vpns
                                /\ pagetable'[p] \in [DOMAIN pagetable'[p] -> Pte]
             /\ PermissionsAreKept'
             /\ ProcessesAreOnce'
  <2>1. /\ v \in Vpns
        /\ OnlyPte(v)
        /\ v \in DOMAIN pagetable'[current]
        /\ pagetable'[current][v].valid
        /\ pagetable'[current][v].pfn = g
        /\ DOMAIN pagetable' = Pids
        /\ \A p \in Pids \ {current} : pagetable'[p] = pagetable[p]
        /\ \A p \in Pids : /\ DOMAIN pagetable'[p] \subseteq Vpns
                           /\ pagetable'[p] \in [DOMAIN pagetable'[p] -> Pte]
        /\ PermissionsAreKept'
    BY <1>0, <1>1, <1>4, FaultedPte
  <2>2. ProcessesAreOnce'
    BY <1>0, <2>1, ListIsKept
  <2>3. Valid(current, v)' /\ Mapped(current, v)' = g
    BY <2>1 DEF Valid, Mapped
  <2> QED BY <2>1, <2>2, <2>3
\* What the move does to the number of mappings of a frame.
<1>5. ASSUME NEW g \in Frames, MakeWritable(v, g), ~exhausted, NEW h \in Frames
      PROVE  /\ mapcounts[h] = Cardinality(Mappings(h))
             /\ Cardinality(Mappings(h)) \in Nat /\ Cardinality(Mappings(h)') \in Nat
             /\ Cardinality(Mappings(h)') = Cardinality(Mappings(h))
                    - (IF f = h THEN 1 ELSE 0) + (IF g = h THEN 1 ELSE 0)
  <2>1. mapcounts[h] = Cardinality(Mappings(h)) /\ Cardinality(Mappings(h)) \in Nat
    BY <1>0, <1>5, MappingsFinite, FS_CardinalityType DEF MapcountsAreExact
  <2>2. Cardinality(Mappings(h)') \in Nat
    BY MappingsFiniteNext, FS_CardinalityType
  <2>3. v \in Vpns /\ OnlyPte(v) /\ Valid(current, v)' /\ Mapped(current, v)' = g
    BY <1>4, <1>5
  <2>4. Cardinality(Mappings(h)') = Cardinality(Mappings(h))
                    - (IF f = h THEN 1 ELSE 0) + (IF g = h THEN 1 ELSE 0)
    BY <1>0, <1>2, <2>3, OnePteCounts
  <2> QED BY <2>1, <2>2, <2>4
\* The frame that the PTE leaves was mapped.
<1>6. ~exhausted => mapcounts[f] \in 1 .. UintMax /\ less[f] = mapcounts[f] - 1
  <2> SUFFICES ASSUME ~exhausted PROVE mapcounts[f] \in 1 .. UintMax /\ less[f] = mapcounts[f] - 1
    OBVIOUS
  <2>1. <<current, v>> \in Mappings(f)
    BY <1>0, <1>1, <1>2 DEF Mappings, Mapped, TypeOK, Recoverable, table
  <2>2. mapcounts[f] # 0
    BY <1>0, <1>2, <2>1, FreeIsUnmapped
  <2>3. mapcounts[f] \in 1 .. UintMax
    BY <1>0, <1>2, <2>2 DEF TypeOK
  <2> QED BY <1>3, <2>3, DecrementIsExact
<1>7. CASE MakeWritable(v, f) /\ UNCHANGED <<mapcounts, exhausted>>
  <2>1. TypeOK'
    BY <1>0, <1>2, <1>4, <1>7 DEF TypeOK
  <2>2. MapcountsAreExact'
    <3> SUFFICES ASSUME ~exhausted, NEW h \in Frames
                 PROVE  mapcounts'[h] = Cardinality(Mappings(h)')
      BY <1>7 DEF MapcountsAreExact
    <3>1. mapcounts[h] = Cardinality(Mappings(h)) /\ Cardinality(Mappings(h)) \in Nat
          /\ Cardinality(Mappings(h)') = Cardinality(Mappings(h))
                    - (IF f = h THEN 1 ELSE 0) + (IF f = h THEN 1 ELSE 0)
      BY <1>2, <1>5, <1>7
    <3> QED BY <1>7, <3>1
  <2> QED BY <1>2, <1>4, <1>7, <2>1, <2>2 DEF CountsInv
<1>8. ASSUME NEW g \in free, MakeWritable(v, g), mapcounts' = [less EXCEPT ![g] = Increment(@, 1)],
             exhausted' = exhausted
      PROVE  CountsInv'
  <2>1. g \in Frames /\ less[g] = 0
    BY <1>8
  <2>2. Increment(0, 1) = 1
    BY UintMaxIsPositive, IncrementIsExact
  <2>3. /\ mapcounts' \in [Frames -> 0 .. UintMax]
        /\ mapcounts'[g] = 1
        /\ \A h \in Frames : h # g => mapcounts'[h] = less[h]
    BY <1>3, <1>8, <2>1, <2>2, UintMaxIsPositive
  <2>4. TypeOK'
    BY <1>0, <1>4, <1>8, <2>1, <2>3 DEF TypeOK
  <2>5. MapcountsAreExact'
    <3> SUFFICES ASSUME ~exhausted, NEW h \in Frames
                 PROVE  mapcounts'[h] = Cardinality(Mappings(h)')
      BY <1>8 DEF MapcountsAreExact
    <3>1. mapcounts[h] = Cardinality(Mappings(h)) /\ Cardinality(Mappings(h)) \in Nat
          /\ Cardinality(Mappings(h)') = Cardinality(Mappings(h))
                    - (IF f = h THEN 1 ELSE 0) + (IF g = h THEN 1 ELSE 0)
      BY <1>5, <1>8, <2>1
    <3>2. less[h] = mapcounts[h] - (IF f = h THEN 1 ELSE 0)
      BY <1>3, <1>6, <3>1
    <3>3. mapcounts'[h] = less[h] + (IF g = h THEN 1 ELSE 0)
      BY <1>3, <2>1, <2>3
    <3> QED BY <3>1, <3>2, <3>3
  <2> QED BY <1>4, <1>8, <2>1, <2>4, <2>5 DEF CountsInv
<1>9. CASE MakeWritable(v, f) /\ mapcounts' = less /\ exhausted' = TRUE
  <2>1. TypeOK'
    BY <1>0, <1>2, <1>3, <1>4, <1>9 DEF TypeOK
  <2>2. MapcountsAreExact'
    BY <1>9 DEF MapcountsAreExact
  <2> QED BY <1>2, <1>4, <1>9, <2>1, <2>2 DEF CountsInv
<1> QED BY <1>1, <1>7, <1>8, <1>9

LEMMA AllocKeeps ==
  ASSUME CountsInv, NEW v \in Vpns, NEW rw \in {"r", "rw"}, Alloc(v, rw)
  PROVE  CountsInv' /\ (IInv => IInv')
BY AllocFrameKeeps, AllocNoFrameKeeps DEF Alloc

LEMMA ForkAndSwitchKeep ==
  ASSUME CountsInv, NEW pid \in Pids, Switch(pid) \/ Fork(pid)
  PROVE  CountsInv' /\ (IInv => IInv')
BY SwitchKeeps, ForkKeeps

LEMMA ConsoleKeeps == ConsoleInv /\ [ConsoleNext]_consoleVars => ConsoleInv'
<1> SUFFICES ASSUME ConsoleInv, [ConsoleNext]_consoleVars PROVE ConsoleInv'
  OBVIOUS
<1>1. CASE UNCHANGED consoleVars
  <2>1. UNCHANGED <<running, outcome, current, processes, pagetable, mapcounts, exhausted, version>>
    BY <1>1 DEF consoleVars, vmVars
  <2>2. CASE running
    <3>1. Idle
      BY <2>1, <2>2, PagerIsolates DEF ConsoleInv, TypeOK, Idle
    <3> QED
      BY <2>1, <2>2, <3>1, IdleKeeps
  <2>3. CASE ~running
    <3>1. \A p, v : Valid(p, v)' = Valid(p, v)
      BY <2>1 DEF Valid
    <3>2. MapcountsAreExact => MapcountsAreExact'
      BY <2>1, <3>1 DEF MapcountsAreExact, Mappings
    <3>3. WritableIsUnshared => WritableIsUnshared'
      BY <2>1, <3>1 DEF WritableIsUnshared
    <3>4. VersionsIsolate'
      BY <2>1, <3>2, <3>3 DEF ConsoleInv, VersionsIsolate, Overwritten
    <3> QED
      BY <2>1, <2>3, <3>4 DEF ConsoleInv
  <2> QED
    BY <2>2, <2>3
<1> SUFFICES ASSUME ConsoleNext PROVE ConsoleInv'
  BY <1>1
<1>2. running /\ version' = version /\ \E line \in Lines : Console(line)
  BY DEF ConsoleNext
<1>3. PagerInv /\ TypeOK /\ version \in Drafts \cup {"pa4"}
  BY <1>2, PagerIsolates DEF ConsoleInv
<1>4. ASSUME Idle PROVE ConsoleInv'
  BY <1>2, <1>4, IdleKeeps
<1>5. ASSUME PagerInv' PROVE ConsoleInv'
  <2>1. VersionsIsolate'
    <3>1. version' \in Drafts \cup {"pa4"}
      BY <1>2, <1>3
    <3>2. CASE version' = "try_switch-ing"
      BY <1>5, <3>2 DEF PagerInv, SwitchingInv, OverwrittenInv, SwappedInv, VersionsIsolate, Overwritten
    <3>3. CASE version' # "try_switch-ing"
      BY <1>5, <3>1, <3>3
         DEF Drafts, PagerInv, IInv, CountsInv, LossyInv, SwappedInv, VersionsIsolate
    <3> QED BY <3>2, <3>3
  <2> QED BY <1>2, <1>3, <1>5, <2>1 DEF ConsoleInv
<1>6. running \in BOOLEAN /\ outcome \in Outcomes
  BY <1>3 DEF TypeOK
<1>7. \A what : Crash(what) => Idle
  BY DEF Crash, Idle
<1>8. SwitchIgnored => Idle
  BY <1>6 DEF SwitchIgnored, Idle, Outcomes
<1>9. \A v, rw : Refuse(v, rw) => Idle
  BY <1>6 DEF Refuse, Idle, Outcomes
<1>10. ASSUME version \in {"pa4", "Switch"}, IInv' PROVE ConsoleInv'
  BY <1>2, <1>5, <1>10 DEF PagerInv
<1>11. ASSUME version = "try_handler", CountsInv' PROVE ConsoleInv'
  BY <1>2, <1>5, <1>11 DEF PagerInv
<1>12. ASSUME version \in {"alloc", "try_switch"}, SwappedInv' PROVE ConsoleInv'
  BY <1>2, <1>5, <1>12 DEF PagerInv
<1>18. ASSUME version = "try_switch-ing", SwitchingInv' PROVE ConsoleInv'
  BY <1>2, <1>5, <1>18 DEF PagerInv
<1>13. /\ version \in {"pa4", "Switch"} => IInv /\ CountsInv
       /\ version = "try_handler" => CountsInv
  BY <1>3, IInvCounts DEF PagerInv
<1>14. ASSUME NEW pid \in Pids, switch_process(pid) PROVE ConsoleInv'
  <2>1. CASE version \in {"pa4", "Switch"}
    <3>1. Switch(pid) \/ Fork(pid)
      BY <1>14, <2>1 DEF switch_process, switch_switch_process
    <3> QED BY <1>10, <1>13, <2>1, <3>1, ForkAndSwitchKeep
  <2>2. CASE version = "try_handler"
    <3>1. Switch(pid) \/ Fork(pid)
      BY <1>14, <2>2 DEF switch_process, handler_switch_process, switch_switch_process
    <3> QED BY <1>11, <1>13, <2>2, <3>1, ForkAndSwitchKeep
  <2>3. CASE version = "try_switch-ing"
    <3>1. switching_switch_process(pid) /\ SwitchingInv
      BY <1>3, <1>14, <2>3 DEF switch_process, PagerInv
    <3>2. CASE processes = << >>
      <4>1. SwappedInv /\ CountedOnce
        BY <3>1, <3>2 DEF SwitchingInv
      <4>2. CASE pid = current
        <5>1. Switch(current)
          BY <3>1, <3>2, <4>2 DEF switching_switch_process, Overwritten
        <5> QED BY <1>18, <2>3, <3>2, <4>1, <5>1, AloneSwitchKeeps
      <4>3. CASE pid # current /\ Overwrite(pid)
        <5>1. OverwrittenInv'
          BY <3>2, <4>1, <4>3, OverwriteKeeps
        <5>2. processes' # << >>
          BY <4>3 DEF Overwrite
        <5> QED BY <1>18, <2>3, <5>1, <5>2 DEF SwitchingInv
      <4> QED BY <1>4, <1>7, <3>1, <3>2, <4>2, <4>3 DEF switching_switch_process, Overwritten
    <3>3. CASE processes # << >>
      <4>1. SwitchIgnored \/ Crash("list without end")
        BY <2>3, <3>1, <3>3 DEF switching_switch_process, Overwritten
      <4> QED BY <1>4, <1>7, <1>8, <4>1
    <3> QED BY <3>2, <3>3
  <2>4. CASE version \in {"try_alloc", "alloc", "try_switch"}
    <3>1. SwitchIgnored
      BY <1>14, <2>4 DEF switch_process
    <3> QED BY <1>4, <1>8, <3>1
  <2> QED BY <1>3, <2>1, <2>2, <2>3, <2>4 DEF Drafts
<1>15. ASSUME NEW v \in ScriptVpns, free_page(v) PROVE ConsoleInv'
  <2>1. CASE version = "pa4"
    <3>1. Free(v) /\ v \in Vpns
      BY <1>15, <2>1, ScriptAssumption DEF free_page
    <3> QED BY <1>10, <1>13, <2>1, <3>1, FreeKeepsIInv
  <2>2. CASE version # "pa4"
    <3>1. Idle
      BY <1>6, <1>15, <2>2 DEF free_page, FreeIgnored, Idle, Outcomes
    <3> QED BY <1>4, <3>1
  <2> QED BY <2>1, <2>2
<1>16. ASSUME NEW v \in ScriptVpns, NEW rw \in {"read", "write"}, handle_page_fault(v, rw)
       PROVE  ConsoleInv'
  <2>1. CASE version = "pa4"
    <3>1. Fault(v, rw) \/ Refuse(v, rw)
      BY <1>16, <2>1 DEF handle_page_fault
    <3>2. CASE Fault(v, rw)
      BY <1>10, <1>13, <2>1, <3>2, FaultKeepsIInv
    <3> QED BY <1>4, <1>9, <3>1, <3>2
  <2>2. CASE version = "try_handler"
    <3>1. \/ /\ handler_handle_page_fault(v)
             /\ outcome' = "translated"
             /\ UNCHANGED <<current, processes, running>>
          \/ Refuse(v, rw)
      BY <1>16, <2>2 DEF handle_page_fault
    <3>2. ASSUME handler_handle_page_fault(v), outcome' = "translated",
                 UNCHANGED <<current, processes, running>>
          PROVE  ConsoleInv'
      <4>1. outcome' \in Outcomes
        BY <3>2 DEF Outcomes
      <4> QED BY <1>11, <1>13, <2>2, <3>2, <4>1, HandlerKeeps
    <3> QED BY <1>4, <1>9, <3>1, <3>2
  <2>3. CASE version \notin {"pa4", "try_handler"}
    <3>1. Idle
      BY <1>6, <1>16, <2>3 DEF handle_page_fault, Idle, Outcomes
    <3> QED BY <1>4, <3>1
  <2> QED BY <2>1, <2>2, <2>3
<1>17. ASSUME NEW v \in ScriptVpns, NEW flags \in SUBSET {"read", "write"}, flags # {},
              ~Translates(table, v, "read"), alloc_page(v, flags)
       PROVE  ConsoleInv'
  <2> DEFINE rw == IF flags = {"read"} THEN "r" ELSE "rw"
  <2>0. v \in Vpns /\ rw \in {"r", "rw"}
    BY ScriptAssumption
  <2>1. CASE version \in {"pa4", "Switch"}
    <3>1. Alloc(v, rw)
      BY <1>17, <2>1 DEF alloc_page, switch_alloc_page
    <3> QED BY <1>10, <1>13, <2>0, <2>1, <3>1, AllocKeeps
  <2>2. CASE version = "try_handler"
    <3>1. Alloc(v, rw)
      BY <1>17, <2>2 DEF alloc_page, handler_alloc_page, switch_alloc_page
    <3> QED BY <1>11, <1>13, <2>0, <2>2, <3>1, AllocKeeps
  <2>3. CASE version \in {"alloc", "try_switch"}
    <3>1. alloc_alloc_page(v, flags) /\ SwappedInv
      BY <1>3, <1>17, <2>3 DEF alloc_page, try_switch_alloc_page, PagerInv
    <3> QED BY <1>12, <1>17, <2>0, <2>3, <3>1, SwappedAllocKeeps
  <2>5. CASE version = "try_switch-ing"
    <3>1. alloc_alloc_page(v, flags) /\ SwitchingInv
      BY <1>3, <1>17, <2>5 DEF alloc_page, switching_alloc_page, PagerInv
    <3>2. processes' = processes
      BY <3>1 DEF alloc_alloc_page
    <3>3. CASE processes = << >>
      <4>1. SwappedInv /\ CountedOnce
        BY <3>1, <3>3 DEF SwitchingInv
      <4>2. SwappedInv' /\ CountedOnce'
        BY <1>3, <1>17, <2>0, <3>1, <4>1, SwappedAllocKeeps, SwappedAllocCountsOnce
      <4> QED BY <1>18, <2>5, <3>2, <3>3, <4>2 DEF SwitchingInv
    <3>4. CASE processes # << >>
      <4>1. OverwrittenInv
        BY <3>1, <3>4 DEF SwitchingInv
      <4>2. OverwrittenInv'
        BY <1>17, <2>0, <3>1, <4>1, OverwrittenAllocKeeps
      <4> QED BY <1>18, <2>5, <3>2, <3>4, <4>2 DEF SwitchingInv
    <3> QED BY <3>3, <3>4
  <2>4. CASE version = "try_alloc"
    <3>1. try_alloc_alloc_page(v, flags) /\ LossyInv
      BY <1>3, <1>17, <2>4 DEF alloc_page, PagerInv
    <3>2. CASE v = 0 \/ v >= NrPtesPerPage
      <4>1. Idle
        BY <1>7, <3>1, <3>2 DEF try_alloc_alloc_page
      <4> QED BY <1>4, <4>1
    <3>3. CASE v # 0 /\ ~(v >= NrPtesPerPage)
      <4>1. v < NrPtesPerPage
        BY <2>0, <3>3, SizesAssumption DEF Vpns
      <4>2. LossyInv'
        BY <2>0, <3>1, <3>3, <4>1, LossyAllocKeeps
      <4> QED BY <1>2, <1>5, <2>4, <4>2 DEF PagerInv
    <3> QED BY <3>2, <3>3
  <2> QED BY <1>3, <2>1, <2>2, <2>3, <2>4, <2>5 DEF Drafts
<1> QED BY <1>2, <1>3, <1>4, <1>14, <1>15, <1>16, <1>17, ConsoleCalls

\* Every version of pa4.c, under any script, counts the mappings of a frame right but for
\* try_alloc.c, and for try_switch-ing.c once it has overwritten a process, and keeps writable
\* frames to one page but for try_handler.c.
THEOREM VersionsIsolateAlways == ConsoleSpec => []VersionsIsolate
<1>1. ConsoleInv => VersionsIsolate
  BY DEF ConsoleInv
<1> QED BY InitConsole, ConsoleKeeps, <1>1, PTL DEF ConsoleSpec
=============================================================================
