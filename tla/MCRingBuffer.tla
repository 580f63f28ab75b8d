---------------------------- MODULE MCRingBuffer ----------------------------
(* A ring buffer, its generators, its counter and main, for TLC.           *)
EXTENDS RingBuffer, TLC

MCSems == {"sema", "mutex", "empty"}

MCSymmetry == Permutations(Generators) \cup Permutations(Values)

MCThreads == Generators \cup {Counter, Main}

MCPermits == [m \in MCSems |-> CASE m = "sema" -> N [] m = "empty" -> 0 [] OTHER -> 1]
=============================================================================
