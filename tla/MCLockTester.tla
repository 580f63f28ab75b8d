---------------------------- MODULE MCLockTester ----------------------------
(* Main and a few testers, over pa3.c and over its drafts, for TLC.        *)
EXTENDS LockDrafts

MCThreads == 0..NrTesters - 1 \cup {Main}

MCSems == {Testlock}

MCPermits == [m \in MCSems |-> 1]
=============================================================================
