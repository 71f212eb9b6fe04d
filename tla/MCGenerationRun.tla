-------------------------- MODULE MCGenerationRun --------------------------
(* Instances of GenerationRun for TLC. *)
EXTENDS GenerationRun, TLC

\* Every call under its own worker id, and all calls under one.
OwnIds == [c \in Calls |-> c]
OneId  == [c \in Calls |-> "worker"]

\* Calls, runs, reviewers, plans and outputs are interchangeable.
Symmetry ==
    Permutations(Calls) \cup Permutations(Runs) \cup Permutations(Reviewers)
        \cup Permutations(Plans) \cup Permutations(Outputs)

=============================================================================
