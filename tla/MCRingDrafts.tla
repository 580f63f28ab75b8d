---------------------------- MODULE MCRingDrafts ----------------------------
(* pa3.c and its drafts over one slot, for TLC.                            *)
EXTENDS RingDrafts

MCSems == {"sema", "mutex", "empty"}

MCThreads == Generators \cup {Counter, Main}

MCPermits == [m \in MCSems |-> CASE m = "sema" -> N [] m = "empty" -> 0 [] OTHER -> 1]
=============================================================================
