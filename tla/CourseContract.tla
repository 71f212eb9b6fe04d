--------------------------- MODULE CourseContract ---------------------------
(***************************************************************************)
(* What course authoring promises about one course to those who only use   *)
(* what is published, with no rows, locks, requests or reviewers in sight: *)
(* a version's content changes while it is open and never again; only a    *)
(* version that was sealed is published; the course shows one published    *)
(* version or none, and a version has at most one successor, which starts  *)
(* from its content.                                                       *)
(***************************************************************************)
CONSTANTS Versions, None

VARIABLES
    stage,      \* how far each version has come
    content,    \* what each version says
    before,     \* the version each version succeeds
    shown       \* the published version the course shows

vars == <<stage, content, before, shown>>

Settled == {"approved", "public", "withdrawn", "archived"}

Init ==
    /\ stage = [v \in Versions |-> "none"]
    /\ content = [v \in Versions |-> None]
    /\ before = [v \in Versions |-> None]
    /\ shown = None

Moves(v, from, to) ==
    /\ stage[v] \in from
    /\ stage' = [stage EXCEPT ![v] = to]

\* create_course and create_ai_assisted_draft, when the course has no version
First(v, text) ==
    /\ \A w \in Versions : stage[w] = "none"
    /\ Moves(v, {"none"}, "open")
    /\ content' = [content EXCEPT ![v] = text]
    /\ UNCHANGED <<before, shown>>

\* create_successor_draft
Succeed(v, p) ==
    /\ stage[p] \in Settled
    /\ \A w \in Versions : before[w] # p
    /\ Moves(v, {"none"}, "open")
    /\ content' = [content EXCEPT ![v] = content[p]]
    /\ before' = [before EXCEPT ![v] = p]
    /\ UNCHANGED shown

\* update_version and replace_curriculum
Edit(v, text) ==
    /\ stage[v] = "open"
    /\ content' = [content EXCEPT ![v] = text]
    /\ UNCHANGED <<stage, before, shown>>

\* The transitions of transition_version
Submit(v)  == Moves(v, {"open"}, "sealed")     /\ UNCHANGED <<content, before, shown>>
Return(v)  == Moves(v, {"sealed"}, "open")     /\ UNCHANGED <<content, before, shown>>
Approve(v) == Moves(v, {"sealed"}, "approved") /\ UNCHANGED <<content, before, shown>>

Publish(v) ==
    /\ Moves(v, {"approved"}, "public")
    /\ shown' = v
    /\ UNCHANGED <<content, before>>

Withdraw(v) ==
    /\ shown = v
    /\ Moves(v, {"public"}, "withdrawn")
    /\ shown' = None
    /\ UNCHANGED <<content, before>>

Archive(v) == Moves(v, {"withdrawn"}, "archived") /\ UNCHANGED <<content, before, shown>>

Next ==
    \E v \in Versions :
        \/ content'[v] # None /\ First(v, content'[v])
        \/ \E p \in Versions : Succeed(v, p)
        \/ content'[v] # None /\ Edit(v, content'[v])
        \/ Submit(v) \/ Return(v) \/ Approve(v)
        \/ Publish(v) \/ Withdraw(v) \/ Archive(v)

Spec == Init /\ [][Next]_vars

=============================================================================
