----------------------------- MODULE RingDrafts -----------------------------
(***************************************************************************)
(* The ring buffer test over the files that were kept on the way to pa3.c. *)
(* In spinlock.c, trying_mutex.c, trying_buffer.c and mutex.c the ring     *)
(* buffer is not written yet; in trying_buffer2.c, it takes the value out  *)
(* of a slot it has given back.                                            *)
(***************************************************************************)
EXTENDS RingBuffer

CONSTANT Nought     \* the number 0

ASSUME RingDraftsAssumption == Nought \in Values

VARIABLE version    \* the source file of the ring buffer

draftVars == <<vars, version>>

Versions == {"spinlock", "trying_mutex", "trying_buffer", "mutex", "trying_buffer2", "pa3"}

(* An empty enqueue_into_ringbuffer, and a dequeue that returns 0.         *)
NotEnqueued(g) ==
    /\ At2(g, "putWait")
    /\ Pc(g, "account")
    /\ UNCHANGED <<semVars, slots, in, out, i, value, generated, counted, collected, fault>>

Nothing(t) ==
    /\ At2(t, "getWait")
    /\ value' = [value EXCEPT ![t] = Nought]
    /\ Pc(t, "count")
    /\ UNCHANGED <<semVars, slots, in, out, i, generated, counted, collected, fault>>

Unwritten(file) ==
    version = file /\ ((\E g \in Generators : NotEnqueued(g)) \/ Nothing(Counter))

spinlock_ringbuffer == Unwritten("spinlock")
trying_mutex_ringbuffer == Unwritten("trying_mutex")
trying_buffer_ringbuffer == Unwritten("trying_buffer")
mutex_ringbuffer == Unwritten("mutex")

(* trying_buffer2.c: enqueue is the one of pa3.c.  dequeue moves out, and  *)
(* returns what is in the slot at in when it has released everything.      *)
trying_buffer2_enqueue(g) == Enqueue(g)

LoadLate(t) ==
    /\ At2(t, "loadLate")
    /\ value' = [value EXCEPT ![t] = slots[in]]
    /\ Pc(t, "count")
    /\ UNCHANGED <<semVars, slots, in, out, i, generated, counted, collected, fault>>

trying_buffer2_dequeue(t) ==
    \/ Wait(t, "getWait", "empty", "getLock")
    \/ Wait(t, "getLock", "mutex", "advanceOut")
    \/ AdvanceOut(t)
    \/ Post(t, "getUnlock", "mutex", "getPost")
    \/ Post(t, "getPost", "sema", "loadLate")
    \/ LoadLate(t)

(***************************************************************************)
(* The test over any of them.                                              *)
(***************************************************************************)
Buffer(t) ==
    \/ version = "trying_buffer2" /\ (trying_buffer2_enqueue(t) \/ trying_buffer2_dequeue(t))
    \/ version = "pa3" /\ (Enqueue(t) \/ Dequeue(t))

Caller(t) ==
    IF t = Counter THEN Expect \/ CountIt
    ELSE (\E v \in Values : Draw(t, v)) \/ Account(t) \/ EndLoop(t)

DraftStep(t) == UNCHANGED version /\ (Caller(t) \/ Buffer(t))
DraftStub ==
    /\ UNCHANGED version
    /\ \/ spinlock_ringbuffer \/ trying_mutex_ringbuffer
       \/ trying_buffer_ringbuffer \/ mutex_ringbuffer
DraftMain == UNCHANGED version /\ MainStep
DraftBarrier == UNCHANGED version /\ Barrier
DraftLibrary(t) == UNCHANGED version /\ Library(t)

DraftsInit == version \in Versions /\ RBInit

DraftsNext ==
    \/ \E t \in Generators \cup {Counter} : DraftStep(t)
    \/ DraftStub \/ DraftMain \/ DraftBarrier
    \/ \E t \in Threads : DraftLibrary(t)
    \/ UNCHANGED version /\ Finished

(* Every thread that can run runs: as in RingBuffer.                       *)
DraftsSpec ==
    /\ DraftsInit /\ [][DraftsNext]_draftVars
    /\ \A t \in Generators \cup {Counter} : WF_draftVars(DraftStep(t))
    /\ WF_draftVars(DraftStub) /\ WF_draftVars(DraftMain) /\ WF_draftVars(DraftBarrier)
    /\ \A t \in Threads : WF_draftVars(DraftLibrary(t))
=============================================================================
