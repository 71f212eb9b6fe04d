------------------------- MODULE MCCourseLifecycle -------------------------
(* Instances of CourseLifecycle for TLC. *)
EXTENDS CourseLifecycle, TLC

\* The first version is edited once, refused once and edited again; its successor
\* is published as it was copied.
OneEdited ==
    <<[draft |-> 2, under_review |-> 3, changes_requested |-> 4],
      [draft |-> 1, under_review |-> 1, changes_requested |-> 1]>>

=============================================================================
