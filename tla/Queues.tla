------------------------------- MODULE Queues ------------------------------
(* What the lists of list_head.h are to the rest of the code: every head has a sequence of      *)
(* entries, and an entry is in one of them, once, or loose. The other modules use sequences in  *)
(* the place of these lists.                                                                    *)
EXTENDS Naturals, Sequences, SequencesExt

CONSTANTS Heads, Entries

VARIABLE queues

Loose(e) == \A h \in Heads : e \notin ToSet(queues[h])

Init == queues = [h \in Heads |-> <<>>]

AddFirst(e, h) == Loose(e) /\ queues' = [queues EXCEPT ![h] = <<e>> \o @]
AddLast(e, h) == Loose(e) /\ queues' = [queues EXCEPT ![h] = Append(@, e)]
Delete(e) == queues' = [h \in Heads |-> RemoveFirst(queues[h], e)]
MoveFirst(e, h) ==
    queues' = [g \in Heads |-> IF g = h THEN <<e>> \o RemoveFirst(queues[h], e)
                               ELSE RemoveFirst(queues[g], e)]
MoveLast(e, h) ==
    queues' = [g \in Heads |-> IF g = h THEN Append(RemoveFirst(queues[h], e), e)
                               ELSE RemoveFirst(queues[g], e)]
Replace(e, f) == Loose(f) /\ queues' = [h \in Heads |-> ReplaceAll(queues[h], e, f)]
RotateLeft(h) == queues' = [queues EXCEPT ![h] = IF @ = <<>> THEN @ ELSE Append(Tail(@), Head(@))]
SpliceFirst(g, h) == g # h /\ queues' = [queues EXCEPT ![g] = <<>>, ![h] = queues[g] \o @]
SpliceLast(g, h) == g # h /\ queues' = [queues EXCEPT ![g] = <<>>, ![h] = @ \o queues[g]]
\* The first n entries of h move to the empty list g.
Cut(g, h, n) ==
    /\ g # h /\ queues[g] = <<>> /\ n =< Len(queues[h])
    /\ queues' = [queues EXCEPT ![g] = SubSeq(queues[h], 1, n),
                                ![h] = SubSeq(@, n + 1, Len(@))]

Next ==
    \/ \E e \in Entries :
        \/ Delete(e)
        \/ \E h \in Heads : AddFirst(e, h) \/ AddLast(e, h) \/ MoveFirst(e, h) \/ MoveLast(e, h)
        \/ \E f \in Entries : Replace(e, f)
    \/ \E h \in Heads :
        \/ RotateLeft(h)
        \/ \E g \in Heads : \/ SpliceFirst(g, h)
                            \/ SpliceLast(g, h)
                            \/ \E n \in 0 .. Len(queues[h]) : Cut(g, h, n)

Spec == Init /\ [][Next]_queues
=============================================================================
