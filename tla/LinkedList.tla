----------------------------- MODULE LinkedList ----------------------------
(* The circular doubly linked lists of list_head.h, pointer by pointer. A head and an entry are *)
(* the same struct; what tells them apart is how the code uses them. Every function is an       *)
(* operator on the memory, mem, which holds the next and the prev of every node; EXCEPT keeps   *)
(* the order of the assignments.                                                                *)
(*                                                                                              *)
(* An action is a call the way this code makes it: what is added is in no list, what is moved   *)
(* or deleted has not been poisoned. list_splice, list_splice_tail and list_replace, which      *)
(* leave pointers behind in what they took from and which no program calls, are left out as     *)
(* calls; their _init forms are actions. A loop over a list is a walk: it reads the list while  *)
(* its body changes others, and the _safe loop may also delete or move away the entry it is at. *)
EXTENDS Naturals, Sequences, FiniteSets

CONSTANTS
    Heads,    \* the lists: the ready queue, a wait queue, ...
    Entries,  \* p->list of the processes
    Poison    \* LIST_POISON1 and LIST_POISON2

Nodes == Heads \cup Entries

ASSUME NodesAssumption ==
    /\ Heads \cap Entries = {}
    /\ Poison \notin Nodes
    /\ IsFiniteSet(Entries)

VARIABLES
    mem,   \* mem.next[n] and mem.prev[n]
    walk   \* the loop that is under way: pos, its saved n, and the entries it has been at

listVars == <<mem, walk>>

-----------------------------------------------------------------------------
(* The functions. *)

INIT_LIST_HEAD(m, n) ==
    [next |-> [m.next EXCEPT ![n] = n], prev |-> [m.prev EXCEPT ![n] = n]]

\* Bug variant: the way back from the next entry is forgotten.
list_insert_oneway(m, new, prev, next) ==
    [next |-> [m.next EXCEPT ![new] = next, ![prev] = new], prev |-> [m.prev EXCEPT ![new] = prev]]
list_insert(m, new, prev, next) ==
    [next |-> [m.next EXCEPT ![new] = next, ![prev] = new],
     prev |-> [m.prev EXCEPT ![next] = new, ![new] = prev]]
list_add(m, new, head) == list_insert(m, new, head, m.next[head])
list_add_tail(m, new, head) == list_insert(m, new, m.prev[head], head)

list_unlink(m, prev, next) ==
    [next |-> [m.next EXCEPT ![prev] = next], prev |-> [m.prev EXCEPT ![next] = prev]]
list_del_entry(m, entry) == list_unlink(m, m.prev[entry], m.next[entry])
list_del(m, entry) ==
    LET u == list_del_entry(m, entry) IN
    [next |-> [u.next EXCEPT ![entry] = Poison], prev |-> [u.prev EXCEPT ![entry] = Poison]]
list_del_init(m, entry) == INIT_LIST_HEAD(list_del_entry(m, entry), entry)

list_move(m, list, head) == list_add(list_del_entry(m, list), list, head)
list_move_tail(m, list, head) == list_add_tail(list_del_entry(m, list), list, head)

list_replace(m, old, new) ==
    LET next == [m.next EXCEPT ![new] = m.next[old]]
        prev == [m.prev EXCEPT ![next[new]] = new, ![new] = m.prev[old]]
    IN [next |-> [next EXCEPT ![prev[new]] = new], prev |-> prev]
list_replace_init(m, old, new) == INIT_LIST_HEAD(list_replace(m, old, new), old)

list_empty(m, head) == m.next[head] = head
list_is_singular(m, head) == ~list_empty(m, head) /\ m.next[head] = m.prev[head]
list_rotate_left(m, head) ==
    IF list_empty(m, head) THEN m ELSE list_move_tail(m, m.next[head], head)

\* Bug variant: the first entry is taken for the last one.
list_join_one(m, list, prev, next) ==
    [next |-> [m.next EXCEPT ![prev] = m.next[list], ![m.next[list]] = next],
     prev |-> [m.prev EXCEPT ![m.next[list]] = prev, ![next] = m.next[list]]]
list_join(m, list, prev, next) ==
    [next |-> [m.next EXCEPT ![prev] = m.next[list], ![m.prev[list]] = next],
     prev |-> [m.prev EXCEPT ![m.next[list]] = prev, ![next] = m.prev[list]]]
list_splice_init(m, list, head) ==
    IF list_empty(m, list) THEN m
    ELSE INIT_LIST_HEAD(list_join(m, list, head, m.next[head]), list)
list_splice_tail_init(m, list, head) ==
    IF list_empty(m, list) THEN m
    ELSE INIT_LIST_HEAD(list_join(m, list, m.prev[head], head), list)

list_cut(m, list, head, entry) ==
    [next |-> [m.next EXCEPT ![list] = m.next[head], ![entry] = list, ![head] = m.next[entry]],
     prev |-> [m.prev EXCEPT ![m.next[head]] = list, ![list] = entry, ![m.next[entry]] = head]]
list_cut_position(m, list, head, entry) ==
    IF list_empty(m, head) \/ (list_is_singular(m, head) /\ m.next[head] # entry /\ head # entry)
    THEN m
    ELSE IF entry = head THEN INIT_LIST_HEAD(m, list)
    ELSE list_cut(m, list, head, entry)
list_cut_before(m, list, head, entry) ==
    IF m.next[head] = entry THEN INIT_LIST_HEAD(m, list)
    ELSE [next |-> [m.next EXCEPT ![list] = m.next[head], ![m.prev[entry]] = list, ![head] = entry],
          prev |-> [m.prev EXCEPT ![m.next[head]] = list, ![list] = m.prev[entry], ![entry] = head]]

-----------------------------------------------------------------------------
(* A list as a sequence. *)

\* Where k steps from the head lead, until they are back at it.
StepsFrom(m, h, k) ==
    LET at[j \in 0 .. k] == IF j = 0 THEN h
                            ELSE IF at[j - 1] \in Nodes THEN m.next[at[j - 1]] ELSE Poison
    IN at[k]
LengthOf(m, h) ==
    CHOOSE k \in 0 .. Cardinality(Entries) :
        /\ StepsFrom(m, h, k + 1) = h
        /\ \A j \in 1 .. k : StepsFrom(m, h, j) # h
Listed(m, h) == [k \in 1 .. LengthOf(m, h) |-> StepsFrom(m, h, k)]
EntriesOf(m, h) == {Listed(m, h)[k] : k \in 1 .. LengthOf(m, h)}

-----------------------------------------------------------------------------
(* The loops. *)

NoWalk == [kind |-> "none", head |-> Poison, pos |-> Poison, n |-> Poison, seen |-> <<>>,
           all |-> <<>>]

ListInit ==
    /\ mem = [next |-> [n \in Nodes |-> n], prev |-> [n \in Nodes |-> n]]
    /\ walk = NoWalk

\* list_for_each_entry() and list_for_each_entry_safe()
BeginWalk(kind, h) ==
    /\ walk.kind = "none"
    /\ walk' = [kind |-> kind, head |-> h, pos |-> mem.next[h],
                n |-> IF kind = "safe" THEN mem.next[mem.next[h]] ELSE Poison, seen |-> <<>>,
                all |-> Listed(mem, h)]
    /\ UNCHANGED mem
\* Bug variant: the safe loop reads the next entry after its body.
StepWalkLate ==
    /\ walk.kind # "none" /\ walk.pos # walk.head /\ walk.pos # Poison
    /\ walk' = [walk EXCEPT !.seen = Append(@, walk.pos), !.pos = mem.next[walk.pos]]
    /\ UNCHANGED mem
StepWalk ==
    /\ walk.kind # "none" /\ walk.pos # walk.head /\ walk.pos # Poison
    /\ walk' = [walk EXCEPT
                  !.seen = Append(@, walk.pos),
                  !.pos = IF walk.kind = "safe" THEN walk.n ELSE mem.next[walk.pos],
                  !.n = IF walk.kind = "safe" THEN mem.next[walk.n] ELSE Poison]
    /\ UNCHANGED mem
EndWalk ==
    /\ walk.kind # "none" /\ walk.pos = walk.head
    /\ walk' = NoWalk
    /\ UNCHANGED mem

-----------------------------------------------------------------------------
(* The calls. *)

IsLoose(e) == mem.next[e] \in {e, Poison}
\* The body of a loop leaves the list it walks over alone, a _safe one but for the entry it is at.
OtherList(h) == walk.kind = "none" \/ h # walk.head
OtherEntry(e) ==
    walk.kind = "none" \/ e \notin EntriesOf(mem, walk.head)
    \/ (walk.kind = "safe" /\ e = walk.pos)

Add(e, h) ==
    /\ IsLoose(e) /\ OtherList(h)
    /\ mem' \in {list_add(mem, e, h), list_add_tail(mem, e, h)}
    /\ UNCHANGED walk
Delete(e) ==
    /\ mem.next[e] # Poison /\ OtherEntry(e)
    /\ mem' \in {list_del(mem, e), list_del_init(mem, e)}
    /\ UNCHANGED walk
Move(e, h) ==
    /\ mem.next[e] # Poison /\ OtherEntry(e) /\ OtherList(h)
    /\ mem' \in {list_move(mem, e, h), list_move_tail(mem, e, h)}
    /\ UNCHANGED walk
Replace(e, f) ==
    /\ walk.kind = "none" /\ e # f /\ ~IsLoose(e) /\ IsLoose(f)
    /\ mem' = list_replace_init(mem, e, f)
    /\ UNCHANGED walk
Rotate(h) ==
    /\ OtherList(h)
    /\ mem' = list_rotate_left(mem, h)
    /\ UNCHANGED walk
Splice(g, h) ==
    /\ g # h /\ OtherList(g) /\ OtherList(h)
    /\ mem' \in {list_splice_init(mem, g, h), list_splice_tail_init(mem, g, h)}
    /\ UNCHANGED walk
\* g is empty, and e is on h or is h.
CutList(g, h, e) ==
    /\ g # h /\ OtherList(g) /\ OtherList(h)
    /\ list_empty(mem, g) /\ e \in EntriesOf(mem, h) \cup {h}
    /\ mem' \in {list_cut_position(mem, g, h, e), list_cut_before(mem, g, h, e)}
    /\ UNCHANGED walk

ListNext ==
    \/ \E h \in Heads : \E kind \in {"plain", "safe"} : BeginWalk(kind, h)
    \/ StepWalk
    \/ EndWalk
    \/ \E e \in Entries :
        \/ Delete(e)
        \/ \E h \in Heads : Add(e, h) \/ Move(e, h)
        \/ \E f \in Entries : Replace(e, f)
    \/ \E h \in Heads :
        \/ Rotate(h)
        \/ \E g \in Heads : \/ Splice(g, h)
                            \/ \E e \in Nodes : CutList(g, h, e)

ListSpec == ListInit /\ [][ListNext]_listVars

-----------------------------------------------------------------------------
(* Correctness. *)

ListTypeOK ==
    /\ mem \in [next : [Nodes -> Nodes \cup {Poison}], prev : [Nodes -> Nodes \cup {Poison}]]
    /\ walk.kind \in {"none", "plain", "safe"}

\* Whichever of the calls above were made, every way forward is a way back: none leaves half a
\* link behind, and only an entry that was deleted, and to which no node points, is poisoned.
RingsAreWhole ==
    \A n \in Nodes :
        /\ mem.next[n] = Poison <=> mem.prev[n] = Poison
        /\ mem.next[n] # Poison => mem.prev[mem.next[n]] = n
        /\ mem.prev[n] # Poison => mem.next[mem.prev[n]] = n
        /\ n \in Heads => mem.next[n] # Poison

\* A loop is at each entry of its list once, in order, and ends at the head, even where its body
\* deletes the entry or moves it to another list.
WalksVisitAll ==
    walk.kind # "none" =>
        /\ walk.pos # Poison
        /\ LET been == walk.seen \o (IF walk.pos = walk.head THEN <<>> ELSE <<walk.pos>>) IN
            /\ Len(been) <= Len(walk.all)
            /\ been = SubSeq(walk.all, 1, Len(been))
        /\ walk.pos = walk.head => walk.seen = walk.all

\* The lists are what the other modules take them for.
Lists(m) == [h \in Heads |-> Listed(m, h)]
Q == INSTANCE Queues WITH queues <- Lists(mem)
QueuesSpec == Q!Spec
=============================================================================
