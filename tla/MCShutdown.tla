----------------------------- MODULE MCShutdown -----------------------------
(* Shutdown on small instances.                                            *)
EXTENDS Shutdown, TLC

CONSTANT DeadCap        \* capacity of the dead letter channel

MCCap == [i \in Channels |-> IF i = NumStages + 1 THEN DeadCap ELSE 1]

Symmetry == Permutations(Workers) \cup Permutations(Handlers)

=============================================================================
