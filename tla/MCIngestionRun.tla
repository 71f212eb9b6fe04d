--------------------------- MODULE MCIngestionRun ---------------------------
(* Instances of IngestionRun for TLC. *)
EXTENDS IngestionRun, TLC

CONSTANTS
    Shared,     \* a worker id no call has for itself
    Padded      \* calls whose worker id carries surrounding blanks

\* Every call under its own id, and all calls under one.
OwnIds == [c \in Calls |-> c]
OneId  == [c \in Calls |-> Shared]

\* Stripping changes padded ids only.
Stripped == [id \in Calls \cup {Shared} |-> IF id \in Padded THEN Shared ELSE id]

\* Calls are interchangeable while none is padded; so are runs and outputs.
Symmetry == Permutations(Calls) \cup Permutations(Runs) \cup Permutations(Projections)

=============================================================================
