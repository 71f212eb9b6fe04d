------------------------- MODULE MCSourceAdmission -------------------------
(* Instances of SourceAdmission for TLC. *)
EXTENDS SourceAdmission, TLC

\* Requests and job runs are interchangeable; so are targets.
Symmetry ==
    Permutations(Uploaders) \cup Permutations(Workers) \cup Permutations(Intents)

=============================================================================
