-------------------------- MODULE PublicationProofs --------------------------
(***************************************************************************)
(* Course authoring, as CourseContract promises it, publishes the way      *)
(* PublicationContract says learners may rely on: what CourseLifecycle     *)
(* implements is what Learning starts from.                                *)
(***************************************************************************)
EXTENDS CourseContract, TLAPS

\* The stages of a version that was published once.
Published == {"public", "withdrawn", "archived"}

Says   == [v \in Versions |-> IF stage[v] \in Published THEN content[v] ELSE None]
Public == {v \in Versions : stage[v] = "public"}

Publication == INSTANCE PublicationContract WITH
    says   <- Says,
    public <- Public

\* What the implementation rests on: a version that was begun says something, and
\* the course shows a version only while that version is public.
Written ==
    /\ DOMAIN stage = Versions
    /\ DOMAIN content = Versions
    /\ stage = [v \in Versions |-> stage[v]]
    /\ content = [v \in Versions |-> content[v]]
    /\ \A v \in Versions : stage[v] # "none" => content[v] # None
    /\ shown # None => shown \in Versions /\ stage[shown] = "public"

LEMMA MovesOne ==
    ASSUME Written, NEW v \in Versions, NEW from, NEW to, Moves(v, from, to)
    PROVE  /\ stage[v] \in from /\ stage'[v] = to
           /\ \A w \in Versions : w # v => stage'[w] = stage[w]
           /\ DOMAIN stage' = Versions
           /\ stage' = [w \in Versions |-> stage'[w]]
  BY DEF Moves, Written

\* Two sayings are the same when they agree on every version.
LEMMA SaysMoves ==
    ASSUME NEW v \in Versions,
           \A w \in Versions : w # v => stage'[w] = stage[w] /\ content'[w] = content[w],
           (stage'[v] \in Published) = (stage[v] \in Published),
           stage[v] \in Published => content'[v] = content[v]
    PROVE  Says' = Says
  BY DEF Says

LEMMA PublicMoves ==
    ASSUME NEW v \in Versions,
           \A w \in Versions : w # v => stage'[w] = stage[w],
           (stage'[v] = "public") = (stage[v] = "public")
    PROVE  Public' = Public
  BY DEF Public

\* The moves learners do not see.
LEMMA QuietStep ==
    ASSUME Written, NEW v \in Versions, NEW from, NEW to, Moves(v, {from}, to),
           \/ from \in {"open", "sealed"} /\ to \in {"open", "sealed", "approved"}
           \/ from = "withdrawn" /\ to = "archived",
           UNCHANGED <<content, shown>>
    PROVE  Written' /\ UNCHANGED <<Says, Public, shown>>
<1>1. /\ stage[v] = from /\ stage'[v] = to
      /\ \A w \in Versions : w # v => stage'[w] = stage[w]
      /\ DOMAIN stage' = Versions
      /\ stage' = [w \in Versions |-> stage'[w]]
  BY MovesOne
<1>2. Says' = Says
  BY <1>1, SaysMoves DEF Published
<1>3. Public' = Public
  BY <1>1, PublicMoves DEF Published
<1>4. Written'
  BY <1>1 DEF Written, Published
<1>. QED BY <1>2, <1>3, <1>4

LEMMA Step ==
    ASSUME Written, Next
    PROVE  Written' /\ [Publication!Next]_(Publication!vars)
<1>. SUFFICES ASSUME NEW v \in Versions,
                     \/ content'[v] # None /\ First(v, content'[v])
                     \/ \E p \in Versions : Succeed(v, p)
                     \/ content'[v] # None /\ Edit(v, content'[v])
                     \/ Submit(v) \/ Return(v) \/ Approve(v)
                     \/ Publish(v) \/ Withdraw(v) \/ Archive(v)
             PROVE  Written' /\ [Publication!Next]_(Publication!vars)
  BY DEF Next
<1>. DEFINE Silent == UNCHANGED <<Says, Public, shown>>
<1>0. Silent => [Publication!Next]_(Publication!vars)
  BY DEF Publication!vars
<1>1. ASSUME Moves(v, {"none"}, "open"), UNCHANGED shown, content'[v] # None,
             DOMAIN content' = Versions, content' = [w \in Versions |-> content'[w]],
             \A w \in Versions : w # v => content'[w] = content[w]
      PROVE  Written' /\ Silent
  <2>1. /\ stage[v] = "none" /\ stage'[v] = "open"
        /\ \A w \in Versions : w # v => stage'[w] = stage[w]
        /\ DOMAIN stage' = Versions
        /\ stage' = [w \in Versions |-> stage'[w]]
    BY <1>1, MovesOne
  <2>2. Says' = Says
    BY <1>1, <2>1, SaysMoves DEF Published
  <2>3. Public' = Public
    BY <2>1, PublicMoves
  <2>. QED BY <1>1, <2>1, <2>2, <2>3 DEF Written
<1>2. CASE content'[v] # None /\ First(v, content'[v])
  <2>1. /\ content'[v] # None
        /\ DOMAIN content' = Versions
        /\ content' = [w \in Versions |-> content'[w]]
        /\ \A w \in Versions : w # v => content'[w] = content[w]
    BY <1>2 DEF First, Written
  <2>. QED BY <1>0, <1>1, <1>2, <2>1 DEF First
<1>3. ASSUME NEW p \in Versions, Succeed(v, p)
      PROVE  Written' /\ Silent
  <2>1. content[p] # None
    BY <1>3 DEF Succeed, Settled, Written
  <2>2. /\ content'[v] # None
        /\ DOMAIN content' = Versions
        /\ content' = [w \in Versions |-> content'[w]]
        /\ \A w \in Versions : w # v => content'[w] = content[w]
    BY <1>3, <2>1 DEF Succeed, Written
  <2>. QED BY <1>1, <1>3, <2>2 DEF Succeed
<1>4. CASE content'[v] # None /\ Edit(v, content'[v])
  <2>1. /\ stage[v] = "open" /\ stage' = stage /\ shown' = shown
        /\ DOMAIN content' = Versions
        /\ content' = [w \in Versions |-> content'[w]]
        /\ \A w \in Versions : w # v => content'[w] = content[w]
    BY <1>4 DEF Edit, Written
  <2>2. Says' = Says
    BY <2>1, SaysMoves DEF Published
  <2>3. Public' = Public
    BY <2>1, PublicMoves
  <2>4. Written'
    BY <1>4, <2>1 DEF Written
  <2>. QED BY <1>0, <2>1, <2>2, <2>3, <2>4
<1>5. CASE Submit(v)
  BY <1>0, <1>5, QuietStep DEF Submit
<1>6. CASE Return(v)
  BY <1>0, <1>6, QuietStep DEF Return
<1>7. CASE Approve(v)
  BY <1>0, <1>7, QuietStep DEF Approve
<1>8. CASE Archive(v)
  BY <1>0, <1>8, QuietStep DEF Archive
<1>9. CASE Publish(v)
  <2>1. /\ stage[v] = "approved" /\ stage'[v] = "public"
        /\ \A w \in Versions : w # v => stage'[w] = stage[w]
        /\ DOMAIN stage' = Versions
        /\ stage' = [w \in Versions |-> stage'[w]]
        /\ content' = content /\ shown' = v
    BY <1>9, MovesOne DEF Publish
  <2>2. Written'
    BY <2>1 DEF Written
  <2>3. Says[v] = None /\ Says'[v] # None
    BY <2>1, <2>2 DEF Says, Published, Written
  <2>4. Says' = [Says EXCEPT ![v] = Says'[v]]
    BY <2>1 DEF Says
  <2>5. Public' = Public \cup {v}
    BY <2>1 DEF Public
  <2>6. Publication!Publish(v, Says'[v])
    BY <2>1, <2>3, <2>4, <2>5 DEF Publication!Publish
  <2>. QED BY <2>2, <2>3, <2>6 DEF Publication!Next
<1>10. CASE Withdraw(v)
  <2>1. /\ stage[v] = "public" /\ stage'[v] = "withdrawn"
        /\ \A w \in Versions : w # v => stage'[w] = stage[w]
        /\ DOMAIN stage' = Versions
        /\ stage' = [w \in Versions |-> stage'[w]]
        /\ content' = content /\ shown = v /\ shown' = None
    BY <1>10, MovesOne DEF Withdraw
  <2>2. Written'
    BY <2>1 DEF Written
  <2>3. Says' = Says
    BY <2>1, SaysMoves DEF Published
  <2>4. Public' = Public \ {v}
    BY <2>1 DEF Public
  <2>5. Publication!Withdraw(v)
    BY <2>1, <2>3, <2>4 DEF Publication!Withdraw
  <2>. QED BY <2>2, <2>5 DEF Publication!Next
<1>. QED BY <1>0, <1>2, <1>3, <1>4, <1>5, <1>6, <1>7, <1>8, <1>9, <1>10

\* Whatever authors, reviewers and publishers do under CourseContract, those who
\* read what is published see one published version or none, whose content never
\* changes: PublicationContract, which Learning builds on.
THEOREM CoursesPublish == Spec => Publication!Spec
<1>1. Init => Written /\ Publication!Init
  <2>. SUFFICES ASSUME Init
               PROVE  Written /\ Publication!Init
    OBVIOUS
  <2>1. Says = [v \in Versions |-> None] /\ Public = {}
    BY DEF Init, Says, Public, Published
  <2>. QED BY <2>1 DEF Init, Written, Publication!Init
<1>2. Written /\ UNCHANGED vars => Written' /\ [Publication!Next]_(Publication!vars)
  BY DEF vars, Written, Publication!vars, Says, Public
<1>3. Written /\ [Next]_vars => Written' /\ [Publication!Next]_(Publication!vars)
  BY <1>2, Step
<1>. QED BY <1>1, <1>3, PTL DEF Spec, Publication!Spec

=============================================================================
