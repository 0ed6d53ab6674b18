------------------------------ MODULE MCIntake ------------------------------
(* Intake on small instances.                                              *)
EXTENDS Intake, TLC

CONSTANTS
    FarJobs,                        \* jobs whose report has nobody near
    Unlocated, Short, Garbled       \* jobs of the old kinds

MCNear == [j \in Jobs |-> IF j \in FarJobs THEN {} ELSE Users]

MCKind == [j \in Jobs |-> CASE j \in Unlocated -> "unlocated"
                            [] j \in Short     -> "short"
                            [] j \in Garbled   -> "garbled"
                            [] OTHER           -> "good"]

Symmetry ==
    Permutations(Users) \cup Permutations(Verifiers) \cup Permutations(Extractors)

=============================================================================
