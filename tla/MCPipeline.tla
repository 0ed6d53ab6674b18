----------------------------- MODULE MCPipeline -----------------------------
(* Pipeline on small instances: everyone is near every report.             *)
EXTENDS Pipeline, TLC

CONSTANTS Short, Garbled        \* jobs of the old kinds

MCNear == [j \in Jobs |-> Users]
MCKind == [j \in Jobs |-> CASE j \in Garbled -> "garbled"
                            [] j \in Short   -> "short"
                            [] OTHER         -> "good"]

Symmetry ==
    Permutations(Verifiers) \cup Permutations(Extractors)
        \cup Permutations(NotifyWorkers) \cup Permutations(RetryWorkers)

=============================================================================
