----------------------- MODULE CourseLifecycleProofs -----------------------
(***************************************************************************)
(* Proofs about CourseLifecycle, for any number of versions, requests,     *)
(* actors and contents: versions are published as they were reviewed, the  *)
(* facts tell what the course shows, no trigger refuses what was compared, *)
(* and whoever reads the rows sees CourseContract.                         *)
(***************************************************************************)
EXTENDS CourseLifecycle, SequenceTheorems, TLAPS

-----------------------------------------------------------------------------
(* The inductive invariant.                                                 *)

\* What ApprovedAsReviewed says of a row.
Reviewed(row, policy) ==
    /\ row.submitted = row.hash /\ row.approved = row.hash
    /\ row.review.decision = "approved" /\ row.review.hash = row.hash
    /\ row.review.self = (row.review.reviewer = row.submitter)
    /\ policy = "separate_reviewer_required" => ~row.review.self
    /\ Complete(row.curriculum)

\* A row that exists has a content and its hash; one in review is complete, and one
\* that left it was reviewed.
SoundRow(row, policy) ==
    /\ row.status = "none" => row = NoVersion
    /\ row.status # "none" =>
          /\ row.meta \in Metas /\ row.curriculum \in Curricula
          /\ row.hash = Hash(row.meta, row.curriculum)
    /\ row.status = "under_review" => Complete(row.curriculum)
    /\ row.status \in Approved => Reviewed(row, policy)

\* What a request decided on as it read the version and the course.
Decided(r, policy) ==
    /\ r.kind \in Edits => r.read.status \in Mutable
    /\ r.kind = "update" => r.meta \in Metas
    /\ r.kind = "replace" => r.curriculum \in Curricula
    /\ r.kind \in Transitions => r.read.status \in Sources(r.kind)
    /\ r.kind \in {"submit_review", "request_changes", "approve"} => r.actor \in Actors
    /\ r.kind = "submit_review" => Complete(r.read.curriculum)
    /\ r.kind = "approve" =>
          /\ r.read.submitted = r.read.hash
          /\ ~(r.read.submitter = r.actor /\ policy = "separate_reviewer_required")
    /\ r.kind = "withdraw" => r.course.shown = r.version
    /\ r.kind = "successor" => r.read.status \in Approved

\* What was read is of the row it names, which says the same until it has a later
\* row_version.
Follows(old, new) == new.row >= old.row /\ (new.row = old.row => new = old)

RequestHolds(q) ==
    request[q].pc # "idle" =>
        /\ request[q].kind # "none"
        /\ request[q].version \in Versions
        /\ Exists(request[q].version)
        /\ Follows(request[q].read, version[request[q].version])
        /\ Follows(request[q].course, course)
        /\ Decided(request[q], course.policy)

\* Versions are of a course, and no two have one predecessor.
Started == course.origin = "none" => course = NoCourse /\ \A v \in Versions : ~Exists(v)

OneSuccessor ==
    \A v, w \in Versions : version[v].before = version[w].before /\ v # w => version[v].before = None

ShownIsPublished ==
    course.shown # None => course.shown \in Versions /\ version[course.shown].status = "published"

IndInv ==
    /\ TypeOK
    /\ Started
    /\ \A v \in Versions : SoundRow(version[v], course.policy)
    /\ OneSuccessor
    /\ ShownIsPublished
    /\ FactsTellPointer
    /\ \A q \in Requests : RequestHolds(q)
    /\ RightHeld

-----------------------------------------------------------------------------
(* Requests that change no row.                                             *)

LEMMA Apart ==
    /\ None \notin Versions /\ None \notin Actors /\ None \notin Hashes
    /\ Versions \subseteq Nat
    /\ Policies \subseteq {"self_review_allowed", "separate_reviewer_required"}
    /\ Empty \in Curricula
  BY BoundAssumption, NoneAssumption, PolicyAssumption, EmptyAssumption
  DEF BoundAssumption, NoneAssumption, PolicyAssumption, EmptyAssumption, Versions, Hashes

LEMMA NoReviewType == NoReview \in Reviews
  BY DEF NoReview, Reviews

LEMMA NoVersionType == NoVersion \in VersionRows
  BY NoReviewType DEF NoVersion, VersionRows

LEMMA NoCourseType == NoCourse \in CourseRows
  BY DEF NoCourse, CourseRows

LEMMA IdleType == Idle \in RequestStates
  BY NoVersionType, NoCourseType DEF Idle, RequestStates

\* What a step may do besides keeping the invariant.
Accepts ==
    /\ \A v \in Versions : VersionTriggerAllows(version[v], version'[v])
    /\ PointerTriggerAllows(course', version')
    /\ \A v, w \in Versions :
          version'[v].before = version'[w].before /\ v # w => version'[v].before = None

Maps == [Contract!Next]_(Contract!vars)

LEMMA SameRowsMap ==
    ASSUME UNCHANGED <<course, version>>
    PROVE  Maps
<1>1. \A v \in Versions : Stage(v)' = Stage(v)
  BY DEF Stage
<1>2. /\ [v \in Versions |-> Stage(v)]' = [v \in Versions |-> Stage(v)]
      /\ [v \in Versions |-> version[v].hash]' = [v \in Versions |-> version[v].hash]
      /\ [v \in Versions |-> version[v].before]' = [v \in Versions |-> version[v].before]
      /\ course.shown' = course.shown
  BY <1>1
<1>. QED BY <1>2 DEF Maps, Contract!vars

LEMMA SameRowsAccept ==
    ASSUME IndInv, UNCHANGED <<course, version>>
    PROVE  Accepts
  BY DEF IndInv, Accepts, VersionTriggerAllows, PointerTriggerAllows, OneSuccessor,
         ShownIsPublished, Mutable

\* One request goes on.
RequestMoved(q, state) ==
    /\ request' \in [Requests -> RequestStates]
    /\ \A p \in Requests : p # q => request'[p] = request[p]
    /\ request'[q] = state

LEMMA GoesMoves ==
    ASSUME TypeOK, NEW q \in Requests, NEW state \in RequestStates, Goes(q, state)
    PROVE  RequestMoved(q, state)
  BY DEF TypeOK, Goes, RequestMoved

LEMMA EndsMoves ==
    ASSUME TypeOK, NEW q \in Requests, Ends(q)
    PROVE  RequestMoved(q, Idle) /\ request'[q].pc = "idle"
<1>1. RequestMoved(q, Idle)
  BY IdleType, GoesMoves DEF Ends
<1>. QED BY <1>1 DEF RequestMoved, Idle

LEMMA QuietHolds ==
    ASSUME IndInv, NEW q \in Requests, NEW state, RequestMoved(q, state),
           UNCHANGED <<right, rows>>, RequestHolds(q)',
           HoldsSource(q)' => HoldsSource(q) \/ right # "ended"
    PROVE  IndInv' /\ Accepts /\ Maps
<1>1. UNCHANGED <<right, course, version, published>>
  BY DEF rows
<1>2. TypeOK' /\ Started' /\ OneSuccessor' /\ ShownIsPublished'
      /\ \A v \in Versions : SoundRow(version[v], course.policy)'
  BY <1>1 DEF IndInv, TypeOK, Started, Exists, OneSuccessor, ShownIsPublished, RequestMoved
<1>3. FactsTellPointer'
  BY <1>1 DEF IndInv, FactsTellPointer, Told
<1>4. \A p \in Requests : RequestHolds(p)'
  BY <1>1 DEF IndInv, RequestHolds, RequestMoved, Exists
<1>5. RightHeld'
  BY <1>1 DEF IndInv, RightHeld, RequestMoved, HoldsSource
<1>6. Accepts /\ Maps
  BY <1>1, SameRowsAccept, SameRowsMap
<1>. QED BY <1>2, <1>3, <1>4, <1>5, <1>6 DEF IndInv

LEMMA EndHolds ==
    ASSUME IndInv, NEW q \in Requests, Ends(q), UNCHANGED <<right, rows>>
    PROVE  IndInv' /\ Accepts /\ Maps
<1>0. Idle.locked = FALSE
  BY DEF Idle
<1>1. RequestMoved(q, Idle) /\ request'[q].pc = "idle"
  BY EndsMoves DEF IndInv
<1>2. RequestHolds(q)' /\ ~HoldsSource(q)'
  BY <1>0, <1>1 DEF RequestHolds, HoldsSource, RequestMoved
<1>. QED BY <1>1, <1>2, QuietHolds

\* A request goes on with what it decided.
LEMMA OnHolds ==
    ASSUME IndInv, NEW q \in Requests, request[q].pc # "idle",
           NEW pc \in {"source", "read", "save"}, NEW locked \in BOOLEAN,
           Goes(q, [request[q] EXCEPT !.pc = pc, !.locked = locked]),
           UNCHANGED <<right, rows>>,
           locked /\ pc # "source" => HoldsSource(q) \/ right # "ended"
    PROVE  IndInv' /\ Accepts /\ Maps
<1>. DEFINE state == [request[q] EXCEPT !.pc = pc, !.locked = locked]
<1>1. request[q] \in RequestStates
  BY DEF IndInv, TypeOK
<1>2. /\ state \in RequestStates
      /\ state.pc = pc /\ state.locked = locked
      /\ state.kind = request[q].kind /\ state.version = request[q].version
      /\ state.actor = request[q].actor /\ state.meta = request[q].meta
      /\ state.curriculum = request[q].curriculum
      /\ state.read = request[q].read /\ state.course = request[q].course
  BY <1>1, ZenonT(60) DEF RequestStates
<1>3. Goes(q, state)
  OBVIOUS
<1>. HIDE DEF state
<1>4. RequestMoved(q, state)
  BY <1>2, <1>3, GoesMoves DEF IndInv
<1>5. RequestHolds(q)'
  BY <1>2, <1>4 DEF IndInv, RequestHolds, RequestMoved, Decided, Exists, rows
<1>6. HoldsSource(q)' => HoldsSource(q) \/ right # "ended"
  BY <1>2, <1>4 DEF HoldsSource, RequestMoved
<1>. QED BY <1>4, <1>5, <1>6, QuietHolds

\* What a request begins with.
Begun(q, v, state) ==
    /\ state \in RequestStates
    /\ state.pc \in {"version", "read"} /\ ~state.locked
    /\ state.kind # "none" /\ state.version = v
    /\ state.read = version[v] /\ state.course = course
    /\ Decided(state, course.policy)

LEMMA BegunHolds ==
    ASSUME IndInv, NEW q \in Requests, NEW v \in Versions, Exists(v),
           NEW state, Begun(q, v, state), Goes(q, state), UNCHANGED <<right, rows>>
    PROVE  IndInv' /\ Accepts /\ Maps
<1>1. RequestMoved(q, state)
  BY GoesMoves DEF IndInv, Begun
<1>2. version[v] \in VersionRows /\ course \in CourseRows
  BY DEF IndInv, TypeOK
<1>3. Follows(version[v], version[v]) /\ Follows(course, course)
  BY <1>2 DEF Follows, VersionRows, CourseRows
<1>4. RequestHolds(q)'
  BY <1>1, <1>3 DEF Begun, RequestMoved, RequestHolds, Exists, rows
<1>5. ~HoldsSource(q)'
  BY <1>1 DEF Begun, RequestMoved, HoldsSource
<1>. QED BY <1>1, <1>4, <1>5, QuietHolds

LEMMA ReadingType ==
    ASSUME IndInv, NEW kind \in Edits \cup Transitions \cup {"successor"}, NEW v \in Versions
    PROVE  /\ Reading(kind, v) \in RequestStates
           /\ Reading(kind, v).pc \in {"version", "read"} /\ ~Reading(kind, v).locked
           /\ Reading(kind, v).kind = kind /\ Reading(kind, v).version = v
           /\ Reading(kind, v).read = version[v] /\ Reading(kind, v).course = course
<1>1. version[v] \in VersionRows /\ course \in CourseRows
  BY DEF IndInv, TypeOK
<1>2. ASSUME NEW pc \in {"version", "read"}
      PROVE  LET state == [Idle EXCEPT !.pc = pc, !.kind = kind, !.version = v,
                                       !.read = version[v], !.course = course]
             IN  /\ state \in RequestStates
                 /\ state.pc \in {"version", "read"} /\ ~state.locked
                 /\ state.kind = kind /\ state.version = v
                 /\ state.read = version[v] /\ state.course = course
  BY <1>1, IdleType DEF Idle, RequestStates
<1>. QED BY <1>2 DEF Reading

\* The request is told what it brings.
LEMMA BringsType ==
    ASSUME NEW state \in RequestStates
    PROVE  /\ \A a \in Actors :
                  LET s == [state EXCEPT !.actor = a] IN
                  /\ s \in RequestStates /\ s.actor = a
                  /\ s.pc = state.pc /\ s.locked = state.locked /\ s.kind = state.kind
                  /\ s.version = state.version /\ s.read = state.read /\ s.course = state.course
           /\ \A m \in Metas :
                  LET s == [state EXCEPT !.meta = m] IN
                  /\ s \in RequestStates /\ s.meta = m
                  /\ s.pc = state.pc /\ s.locked = state.locked /\ s.kind = state.kind
                  /\ s.version = state.version /\ s.read = state.read /\ s.course = state.course
           /\ \A k \in Curricula :
                  LET s == [state EXCEPT !.curriculum = k] IN
                  /\ s \in RequestStates /\ s.curriculum = k
                  /\ s.pc = state.pc /\ s.locked = state.locked /\ s.kind = state.kind
                  /\ s.version = state.version /\ s.read = state.read /\ s.course = state.course
  BY DEF RequestStates

LEMMA BeginEditHolds ==
    ASSUME IndInv, NEW q \in Requests, NEW v \in Versions, BeginUpdate(q, v) \/ BeginReplace(q, v)
    PROVE  IndInv' /\ Accepts /\ Maps
<1>1. Exists(v) /\ version[v].status \in Mutable /\ UNCHANGED <<right, rows>>
  BY DEF BeginUpdate, BeginReplace, Begins, Exists, Mutable
<1>2. ASSUME NEW m \in Metas, Goes(q, [Reading("update", v) EXCEPT !.meta = m])
      PROVE  IndInv' /\ Accepts /\ Maps
  <2>. DEFINE read == Reading("update", v)
              state == [read EXCEPT !.meta = m]
  <2>1. /\ read \in RequestStates /\ read.pc \in {"version", "read"} /\ ~read.locked
        /\ read.kind = "update" /\ read.version = v
        /\ read.read = version[v] /\ read.course = course
    BY ReadingType DEF Edits
  <2>. HIDE DEF read
  <2>2. /\ state \in RequestStates /\ state.pc \in {"version", "read"} /\ ~state.locked
        /\ state.kind = "update" /\ state.version = v /\ state.meta = m
        /\ state.read = version[v] /\ state.course = course
    BY <2>1, BringsType
  <2>3. Goes(q, state)
    BY <1>2 DEF read
  <2>. HIDE DEF state
  <2>4. Begun(q, v, state)
    BY <1>1, <2>2 DEF Begun, Decided, Transitions, Edits
  <2>. QED BY <1>1, <2>3, <2>4, BegunHolds
<1>3. ASSUME NEW k \in Curricula, Goes(q, [Reading("replace", v) EXCEPT !.curriculum = k])
      PROVE  IndInv' /\ Accepts /\ Maps
  <2>. DEFINE read == Reading("replace", v)
              state == [read EXCEPT !.curriculum = k]
  <2>1. /\ read \in RequestStates /\ read.pc \in {"version", "read"} /\ ~read.locked
        /\ read.kind = "replace" /\ read.version = v
        /\ read.read = version[v] /\ read.course = course
    BY ReadingType DEF Edits
  <2>. HIDE DEF read
  <2>2. /\ state \in RequestStates /\ state.pc \in {"version", "read"} /\ ~state.locked
        /\ state.kind = "replace" /\ state.version = v /\ state.curriculum = k
        /\ state.read = version[v] /\ state.course = course
    BY <2>1, BringsType
  <2>3. Goes(q, state)
    BY <1>3 DEF read
  <2>. HIDE DEF state
  <2>4. Begun(q, v, state)
    BY <1>1, <2>2 DEF Begun, Decided, Transitions, Edits
  <2>. QED BY <1>1, <2>3, <2>4, BegunHolds
<1>. QED BY <1>2, <1>3 DEF BeginUpdate, BeginReplace

LEMMA BeginReviewHolds ==
    ASSUME IndInv, NEW q \in Requests, NEW v \in Versions,
           NEW kind \in {"submit_review", "request_changes", "approve"},
           Begins(q, kind, v, Sources(kind)),
           kind = "submit_review" => Complete(version[v].curriculum),
           NEW a \in Actors, kind = "approve" => MayReview(v, a),
           Goes(q, [Reading(kind, v) EXCEPT !.actor = a]), UNCHANGED <<right, rows>>
    PROVE  IndInv' /\ Accepts /\ Maps
<1>. DEFINE read == Reading(kind, v)
            state == [read EXCEPT !.actor = a]
<1>1. Exists(v) /\ version[v].status \in Sources(kind)
  BY DEF Begins, Sources, Exists, Mutable
<1>2. /\ read \in RequestStates /\ read.pc \in {"version", "read"} /\ ~read.locked
      /\ read.kind = kind /\ read.version = v
      /\ read.read = version[v] /\ read.course = course
  BY ReadingType DEF Transitions
<1>. HIDE DEF read
<1>3. /\ state \in RequestStates /\ state.pc \in {"version", "read"} /\ ~state.locked
      /\ state.kind = kind /\ state.version = v /\ state.actor = a
      /\ state.read = version[v] /\ state.course = course
  BY <1>2, BringsType
<1>4. Goes(q, state)
  BY DEF read
<1>. HIDE DEF state
<1>5. Begun(q, v, state)
  BY <1>1, <1>3 DEF Begun, Decided, Transitions, Edits, MayReview
<1>. QED BY <1>1, <1>4, <1>5, BegunHolds

LEMMA BeginOtherHolds ==
    ASSUME IndInv, NEW q \in Requests, NEW v \in Versions,
           NEW kind \in {"publish", "withdraw", "archive", "successor"},
           kind # "successor" => version[v].status \in Sources(kind),
           kind = "successor" => version[v].status \in Approved,
           kind = "withdraw" => course.shown = v,
           Goes(q, Reading(kind, v)), UNCHANGED <<right, rows>>
    PROVE  IndInv' /\ Accepts /\ Maps
<1>. DEFINE state == Reading(kind, v)
<1>1. Exists(v)
  BY DEF Sources, Approved, Exists
<1>2. /\ state \in RequestStates /\ state.pc \in {"version", "read"} /\ ~state.locked
      /\ state.kind = kind /\ state.version = v
      /\ state.read = version[v] /\ state.course = course
  BY ReadingType DEF Transitions
<1>3. Goes(q, state)
  OBVIOUS
<1>. HIDE DEF state
<1>4. Begun(q, v, state)
  BY <1>2 DEF Begun, Decided, Transitions, Edits
<1>. QED BY <1>1, <1>3, <1>4, BegunHolds

LEMMA BeginHolds ==
    ASSUME IndInv, NEW q \in Requests, Begin(q)
    PROVE  IndInv' /\ Accepts /\ Maps
<1>. SUFFICES ASSUME NEW v \in Versions,
                     \/ BeginUpdate(q, v)
                     \/ BeginReplace(q, v)
                     \/ BeginSubmit(q, v)
                     \/ \E kind \in {"request_changes", "approve"} : BeginReview(q, kind, v)
                     \/ BeginPublish(q, v)
                     \/ BeginWithdraw(q, v)
                     \/ BeginArchive(q, v)
                     \/ BeginSuccessor(q, v)
             PROVE  IndInv' /\ Accepts /\ Maps
  BY DEF Begin
<1>1. CASE BeginUpdate(q, v) \/ BeginReplace(q, v)
  BY <1>1, BeginEditHolds
<1>2. CASE BeginSubmit(q, v)
  BY <1>2, BeginReviewHolds DEF BeginSubmit
<1>3. ASSUME NEW kind \in {"request_changes", "approve"}, BeginReview(q, kind, v)
      PROVE  IndInv' /\ Accepts /\ Maps
  BY <1>3, BeginReviewHolds DEF BeginReview
<1>4. CASE BeginPublish(q, v)
  BY <1>4, BeginOtherHolds DEF BeginPublish, Begins
<1>5. CASE BeginWithdraw(q, v)
  BY <1>5, BeginOtherHolds DEF BeginWithdraw, Begins
<1>6. CASE BeginArchive(q, v)
  BY <1>6, BeginOtherHolds DEF BeginArchive, Begins
<1>7. CASE BeginSuccessor(q, v)
  BY <1>7, BeginOtherHolds DEF BeginSuccessor, Begins
<1>. QED BY <1>1, <1>2, <1>3, <1>4, <1>5, <1>6, <1>7

LEMMA LockHolds ==
    ASSUME IndInv, NEW q \in Requests, Lock(q)
    PROVE  IndInv' /\ Accepts /\ Maps
<1>0. request[q] \in RequestStates
  BY DEF IndInv, TypeOK
<1>1. CASE LockVersion(q)
  BY <1>1, OnHolds DEF LockVersion
<1>2. CASE LockSource(q)
  <2>1. [request[q] EXCEPT !.pc = "read"]
          = [request[q] EXCEPT !.pc = "read", !.locked = request[q].locked]
    BY <1>0 DEF RequestStates
  <2>2. request[q].locked \in BOOLEAN
    BY <1>0 DEF RequestStates
  <2>. QED BY <1>2, <2>1, <2>2, OnHolds DEF LockSource
<1>3. CASE LockCourse(q)
  <2>1. [request[q] EXCEPT !.pc = "save"]
          = [request[q] EXCEPT !.pc = "save", !.locked = request[q].locked]
    BY <1>0 DEF RequestStates
  <2>2. request[q].locked \in BOOLEAN /\ request[q].pc = "read"
    BY <1>0, <1>3 DEF RequestStates, LockCourse
  <2>3. request[q].locked => HoldsSource(q)
    BY <2>2 DEF HoldsSource
  <2>. QED BY <1>3, <2>1, <2>2, <2>3, OnHolds DEF LockCourse
<1>. QED BY <1>1, <1>2, <1>3 DEF Lock

LEMMA RightHolds ==
    ASSUME IndInv, EndRight \/ LapseRight
    PROVE  IndInv' /\ Accepts /\ Maps
<1>1. /\ UNCHANGED <<course, version, published, request>>
      /\ right' \in {"ended", "lapsed"} /\ right = "active"
      /\ right' = "ended" => SourceFree
  BY DEF EndRight, LapseRight, rows
<1>2. TypeOK' /\ Started' /\ OneSuccessor' /\ ShownIsPublished' /\ FactsTellPointer'
      /\ \A v \in Versions : SoundRow(version[v], course.policy)'
  BY <1>1 DEF IndInv, TypeOK, Started, Exists, OneSuccessor, ShownIsPublished, FactsTellPointer, Told
<1>3. \A p \in Requests : RequestHolds(p)'
  BY <1>1 DEF IndInv, RequestHolds, Exists
<1>4. RightHeld'
  BY <1>1 DEF RightHeld, SourceFree, HoldsSource
<1>. QED BY <1>1, <1>2, <1>3, <1>4, SameRowsAccept, SameRowsMap DEF IndInv

-----------------------------------------------------------------------------
(* Steps that write a version.                                              *)

\* One version is written.
RowMoved(v) ==
    /\ version' \in [Versions -> VersionRows]
    /\ \A w \in Versions : w # v => version'[w] = version[w]

\* What the contract sees of the rows.
Stages   == [v \in Versions |-> Stage(v)]
Contents == [v \in Versions |-> version[v].hash]
Befores  == [v \in Versions |-> version[v].before]

\* The stage of a row, before and after.
LEMMA StageIs ==
    ASSUME NEW v
    PROVE  /\ version[v].status \in Mutable => Stage(v) = "open"
           /\ version[v].status = "under_review" => Stage(v) = "sealed"
           /\ version[v].status = "published" => Stage(v) = "public"
           /\ version[v].status \in {"none", "approved", "withdrawn", "archived"} =>
                 Stage(v) = version[v].status
           /\ version'[v].status \in Mutable => Stage(v)' = "open"
           /\ version'[v].status = "under_review" => Stage(v)' = "sealed"
           /\ version'[v].status = "published" => Stage(v)' = "public"
           /\ version'[v].status \in {"none", "approved", "withdrawn", "archived"} =>
                 Stage(v)' = version'[v].status
<1>1. /\ version[v].status \in Mutable => Stage(v) = "open"
      /\ version[v].status = "under_review" => Stage(v) = "sealed"
      /\ version[v].status = "published" => Stage(v) = "public"
      /\ version[v].status \in {"none", "approved", "withdrawn", "archived"} =>
            Stage(v) = version[v].status
  BY DEF Stage, Mutable
<1>2. /\ version'[v].status \in Mutable => Stage(v)' = "open"
      /\ version'[v].status = "under_review" => Stage(v)' = "sealed"
      /\ version'[v].status = "published" => Stage(v)' = "public"
      /\ version'[v].status \in {"none", "approved", "withdrawn", "archived"} =>
            Stage(v)' = version'[v].status
  BY DEF Stage, Mutable
<1>. QED BY <1>1, <1>2

LEMMA MapsOne ==
    ASSUME NEW v \in Versions, RowMoved(v)
    PROVE  /\ Stages' = [Stages EXCEPT ![v] = Stage(v)']
           /\ Contents' = [Contents EXCEPT ![v] = version'[v].hash]
           /\ Befores' = [Befores EXCEPT ![v] = version'[v].before]
           /\ Stage(v)' = Stage(v) => Stages' = Stages
           /\ version'[v].hash = version[v].hash => Contents' = Contents
           /\ version'[v].before = version[v].before => Befores' = Befores
<1>1. \A w \in Versions : w # v => Stage(w)' = Stage(w)
  BY DEF RowMoved, Stage
<1>. QED BY <1>1 DEF RowMoved, Stages, Contents, Befores

LEMMA FollowsOn ==
    ASSUME NEW a, NEW b, NEW c, Follows(a, b),
           a.row \in Nat, b.row \in Nat, c.row = b.row + 1 \/ c = b
    PROVE  Follows(a, c)
  BY DEF Follows

\* What a request saves: a version that is sound again, in a later row, and the course
\* with it or not at all.
Saves(v) ==
    /\ RowMoved(v)
    /\ course.origin # "none"
    /\ course' \in CourseRows
    /\ course'.origin = course.origin /\ course'.policy = course.policy
    /\ course'.row = course.row + 1 \/ course' = course
    /\ version'[v].status # "none"
    /\ Exists(v) => version'[v].row = version[v].row + 1
    /\ request' \in [Requests -> RequestStates]
    /\ \A q \in Requests : request'[q] = request[q] \/ request'[q] = Idle
    /\ right' = right
    /\ published' \in Seq(Facts)

LEMMA SavesHolds ==
    ASSUME IndInv, NEW v \in Versions, Saves(v), SoundRow(version'[v], course.policy),
           FactsTellPointer', ShownIsPublished', OneSuccessor',
           VersionTriggerAllows(version[v], version'[v])
    PROVE  IndInv' /\ Accepts
<1>1. TypeOK' /\ Started' /\ \A w \in Versions : SoundRow(version[w], course.policy)'
  BY DEF IndInv, TypeOK, Started, Saves, RowMoved
<1>2. ASSUME NEW q \in Requests
      PROVE  RequestHolds(q)'
  <2>1. CASE request'[q] = Idle
    BY <2>1 DEF RequestHolds, Idle
  <2>2. CASE request'[q] = request[q] /\ request[q].pc # "idle"
    <3>1. PICK w \in Versions : w = request[q].version
      BY <2>2 DEF IndInv, RequestHolds
    <3>2. /\ Exists(w) /\ request[q].kind # "none"
          /\ Follows(request[q].read, version[w]) /\ Follows(request[q].course, course)
          /\ Decided(request[q], course.policy)
      BY <2>2, <3>1 DEF IndInv, RequestHolds
    <3>3. /\ request[q].read.row \in Nat /\ request[q].course.row \in Nat
          /\ version[w].row \in Nat /\ course.row \in Nat
      BY DEF IndInv, TypeOK, RequestStates, VersionRows, CourseRows
    <3>4. version'[w].row = version[w].row + 1 \/ version'[w] = version[w]
      BY <3>2 DEF Saves, RowMoved
    <3>5. Follows(request[q].read, version'[w])
      BY <3>2, <3>3, <3>4, FollowsOn
    <3>6. Follows(request[q].course, course')
      BY <3>2, <3>3, FollowsOn DEF Saves
    <3>7. version'[w].status # "none"
      BY <3>2 DEF Saves, RowMoved, Exists
    <3>8. /\ request'[q].version = w /\ request'[q].kind # "none"
          /\ Follows(request'[q].read, version'[w])
          /\ Follows(request'[q].course, course')
          /\ Decided(request'[q], course'.policy)
      BY <2>2, <3>1, <3>2, <3>5, <3>6 DEF Saves
    <3>. QED BY <3>7, <3>8 DEF RequestHolds, Exists
  <2>3. CASE request'[q] = request[q] /\ request[q].pc = "idle"
    BY <2>3 DEF RequestHolds
  <2>. QED BY <2>1, <2>2, <2>3 DEF Saves
<1>3. RightHeld'
  <2>1. Idle.locked = FALSE
    BY DEF Idle
  <2>. QED BY <2>1 DEF IndInv, RightHeld, HoldsSource, Saves
<1>4. Accepts
  BY DEF Accepts, Saves, RowMoved, VersionTriggerAllows, PointerTriggerAllows,
         ShownIsPublished, OneSuccessor, Mutable
<1>. QED BY <1>1, <1>2, <1>3, <1>4 DEF IndInv

\* What a request that compared found: the rows it read.
LEMMA Compared ==
    ASSUME IndInv, NEW q \in Requests, Ready(q), SameRow(q)
    PROVE  \E v \in Versions :
              /\ v = request[q].version /\ Exists(v)
              /\ request[q].read = version[v]
              /\ request[q].kind # "none"
              /\ Decided(request[q], course.policy)
              /\ SameCourse(q) => request[q].course = course
<1>1. request[q].pc # "idle"
  BY DEF Ready
<1>2. PICK v \in Versions : v = request[q].version
  BY <1>1 DEF IndInv, RequestHolds
<1>3. /\ Exists(v) /\ request[q].kind # "none"
      /\ Follows(request[q].read, version[v]) /\ Follows(request[q].course, course)
      /\ Decided(request[q], course.policy)
  BY <1>1, <1>2 DEF IndInv, RequestHolds
<1>. QED BY <1>2, <1>3 DEF Follows, SameRow, SameCourse

\* An edit brings a content and its hash, and takes back what was submitted and approved.
Edited(old, new) ==
    /\ new.status = old.status /\ new.before = old.before
    /\ new.meta \in Metas /\ new.curriculum \in Curricula
    /\ new.hash = Hash(new.meta, new.curriculum)
    /\ new.row = old.row + 1

EditedRow(old, meta, curriculum, hash) ==
    [old EXCEPT !.meta = meta, !.curriculum = curriculum, !.hash = hash,
                !.submitted = None, !.approved = None, !.row = old.row + 1]

LEMMA EditType ==
    ASSUME NEW old \in VersionRows, NEW meta \in Metas, NEW curriculum \in Curricula,
           NEW hash \in Hashes
    PROVE  LET row == EditedRow(old, meta, curriculum, hash)
           IN  /\ row \in VersionRows
               /\ row.status = old.status /\ row.before = old.before
               /\ row.meta = meta /\ row.curriculum = curriculum
               /\ row.hash = hash /\ row.row = old.row + 1
<1>. DEFINE r1 == [old EXCEPT !.meta = meta, !.curriculum = curriculum]
            r2 == [r1 EXCEPT !.hash = hash, !.submitted = None]
            r3 == [r2 EXCEPT !.approved = None, !.row = old.row + 1]
<1>0. old.row + 1 \in Nat
  BY DEF VersionRows
<1>1. /\ r1 \in VersionRows /\ r1.status = old.status /\ r1.before = old.before
      /\ r1.meta = meta /\ r1.curriculum = curriculum
  BY DEF VersionRows
<1>2. EditedRow(old, meta, curriculum, hash) = r3
  BY DEF EditedRow
<1>. HIDE DEF r1
<1>3. /\ r2 \in VersionRows /\ r2.status = old.status /\ r2.before = old.before
      /\ r2.meta = meta /\ r2.curriculum = curriculum /\ r2.hash = hash
  BY <1>1 DEF VersionRows
<1>. HIDE DEF r2
<1>4. /\ r3 \in VersionRows /\ r3.status = old.status /\ r3.before = old.before
      /\ r3.meta = meta /\ r3.curriculum = curriculum /\ r3.hash = hash
      /\ r3.row = old.row + 1
  BY <1>0, <1>3 DEF VersionRows
<1>. HIDE DEF r3
<1>. QED BY <1>2, <1>4

LEMMA EditEffect ==
    ASSUME IndInv, NEW q \in Requests, StoreEdit(q),
           NEW v \in Versions, v = request[q].version, Exists(v),
           request[q].read = version[v], Decided(request[q], course.policy)
    PROVE  RowMoved(v) /\ Edited(version[v], version'[v])
<1>. DEFINE old == version[v]
            meta == IF request[q].kind = "update" THEN request[q].meta ELSE old.meta
            curriculum == IF request[q].kind = "replace" THEN request[q].curriculum
                                                         ELSE old.curriculum
            row == EditedRow(old, meta, curriculum, Hash(meta, curriculum))
<1>1. /\ version \in [Versions -> VersionRows] /\ old \in VersionRows
      /\ old.meta \in Metas /\ old.curriculum \in Curricula
  BY DEF IndInv, TypeOK, SoundRow, Exists
<1>2. meta \in Metas /\ curriculum \in Curricula
  BY <1>1 DEF Decided
<1>3. version' = [version EXCEPT ![v] = row]
  BY <1>1, ZenonT(60) DEF StoreEdit, VersionRows, EditedRow
<1>. HIDE DEF meta, curriculum
<1>4. Hash(meta, curriculum) \in Hashes
  BY <1>2 DEF Hash, Hashes
<1>5. /\ row \in VersionRows
      /\ row.status = old.status /\ row.before = old.before
      /\ row.meta = meta /\ row.curriculum = curriculum
      /\ row.hash = Hash(meta, curriculum) /\ row.row = old.row + 1
  BY <1>1, <1>2, <1>4, EditType
<1>. HIDE DEF row
<1>6. RowMoved(v) /\ version'[v] = row
  BY <1>1, <1>3, <1>5 DEF RowMoved
<1>. QED BY <1>2, <1>5, <1>6 DEF Edited

LEMMA StoreEditHolds ==
    ASSUME IndInv, NEW q \in Requests, StoreEdit(q)
    PROVE  IndInv' /\ Accepts /\ Maps
<1>1. PICK v \in Versions :
         /\ v = request[q].version /\ Exists(v)
         /\ request[q].read = version[v]
         /\ Decided(request[q], course.policy)
  BY Compared DEF StoreEdit, Agrees
<1>2. RowMoved(v) /\ Edited(version[v], version'[v])
  BY <1>1, EditEffect
<1>3. version[v].status \in Mutable /\ version'[v].status \in Mutable
  BY <1>1, <1>2, ZenonT(60) DEF StoreEdit, Decided, Edited
<1>4. UNCHANGED <<right, course, published>> /\ Ends(q)
  BY DEF StoreEdit
<1>5. course.origin # "none" /\ course \in CourseRows /\ published \in Seq(Facts)
  BY <1>1 DEF IndInv, TypeOK, Started
<1>6. Saves(v)
  BY <1>1, <1>2, <1>3, <1>4, <1>5, EndsMoves DEF IndInv, Saves, Edited, Mutable, RequestMoved
<1>7. SoundRow(version'[v], course.policy)
  BY <1>2, <1>3 DEF SoundRow, Edited, Mutable, Approved
<1>8. FactsTellPointer'
  BY <1>4 DEF IndInv, FactsTellPointer, Told
<1>9. ShownIsPublished'
  BY <1>2, <1>3, <1>4 DEF IndInv, ShownIsPublished, RowMoved, Mutable
<1>10. OneSuccessor'
  BY <1>2 DEF IndInv, OneSuccessor, RowMoved, Edited
<1>11. VersionTriggerAllows(version[v], version'[v])
  BY <1>2, <1>3 DEF VersionTriggerAllows, Edited, Mutable
<1>12. Maps
  <2>1. Stages[v] = "open" /\ Stage(v)' = Stage(v) /\ version'[v].hash # None
    <3>1. version'[v].hash \in Hashes
      BY <1>2 DEF Edited, Hash, Hashes
    <3>2. Stage(v) = "open" /\ Stage(v)' = "open"
      BY <1>3, StageIs
    <3>. QED BY <3>1, <3>2, Apart DEF Stages
  <2>2. /\ Contents' = [Contents EXCEPT ![v] = version'[v].hash]
        /\ Stages' = Stages /\ Befores' = Befores /\ course.shown' = course.shown
        /\ Contents'[v] = version'[v].hash
    BY <1>2, <1>4, <2>1, MapsOne DEF Edited, Contents
  <2>3. Contract!Edit(v, Contents'[v])
    BY <2>1, <2>2, Zenon DEF Contract!Edit, Stages, Contents, Befores
  <2>4. Contents'[v] # None
    BY <2>1, <2>2
  <2>5. Contract!Next
    BY <2>3, <2>4, Zenon DEF Contract!Next, Contents
  <2>. QED BY <2>5 DEF Maps
<1>. QED BY <1>6, <1>7, <1>8, <1>9, <1>10, <1>11, <1>12, SavesHolds

\* A transition writes the state, who did what, and the hashes; never the content.
Moved(old, new, kind, actor) ==
    /\ old.status \in Sources(kind) /\ new.status = Target(kind)
    /\ new.before = old.before /\ new.hash = old.hash
    /\ new.meta = old.meta /\ new.curriculum = old.curriculum
    /\ new.row = old.row + 1
    /\ kind # "submit_review" => new.submitted = old.submitted /\ new.submitter = old.submitter
    /\ kind \notin {"submit_review", "approve"} => new.approved = old.approved
    /\ kind \notin {"request_changes", "approve"} => new.review = old.review
    /\ kind = "approve" =>
          /\ new.approved = old.hash
          /\ new.review.decision = "approved" /\ new.review.hash = old.hash
          /\ new.review.reviewer = actor
          /\ new.review.self = (actor = old.submitter)

MovedRow(old, status, submitted, approved, submitter, review) ==
    [old EXCEPT !.status = status, !.submitted = submitted, !.approved = approved,
                !.row = old.row + 1, !.submitter = submitter, !.review = review]

\* What it says in the end.
MovesTo(row, old, status, submitted, approved, submitter, review) ==
    /\ row \in VersionRows
    /\ row.before = old.before /\ row.hash = old.hash
    /\ row.meta = old.meta /\ row.curriculum = old.curriculum
    /\ row.status = status /\ row.submitted = submitted
    /\ row.approved = approved /\ row.row = old.row + 1
    /\ row.submitter = submitter /\ row.review = review

LEMMA MoveType ==
    ASSUME NEW old \in VersionRows, NEW status \in Statuses,
           NEW submitted \in Hashes \cup {None}, NEW approved \in Hashes \cup {None},
           NEW submitter \in Actors \cup {None}, NEW review \in Reviews
    PROVE  MovesTo(MovedRow(old, status, submitted, approved, submitter, review),
                   old, status, submitted, approved, submitter, review)
<1>. DEFINE n == old.row + 1
            r1 == [old EXCEPT !.status = status, !.submitted = submitted]
            r2 == [r1 EXCEPT !.approved = approved]
            r3 == [r2 EXCEPT !.row = n]
            r4 == [r3 EXCEPT !.submitter = submitter]
            r5 == [r4 EXCEPT !.review = review]
<1>0. n \in Nat
  BY DEF VersionRows
<1>1. /\ r1 \in VersionRows /\ r1.before = old.before /\ r1.hash = old.hash
      /\ r1.meta = old.meta /\ r1.curriculum = old.curriculum
      /\ r1.status = status /\ r1.submitted = submitted
  BY ZenonT(60) DEF VersionRows
<1>2. MovedRow(old, status, submitted, approved, submitter, review) = r5
  BY DEF MovedRow
<1>. HIDE DEF n, r1
<1>3. /\ r2 \in VersionRows /\ r2.before = r1.before /\ r2.hash = r1.hash
      /\ r2.meta = r1.meta /\ r2.curriculum = r1.curriculum
      /\ r2.status = r1.status /\ r2.submitted = r1.submitted
      /\ r2.approved = approved
  BY <1>1 DEF VersionRows
<1>. HIDE DEF r2
<1>4. /\ r3 \in VersionRows /\ r3.before = r2.before /\ r3.hash = r2.hash
      /\ r3.meta = r2.meta /\ r3.curriculum = r2.curriculum
      /\ r3.status = r2.status /\ r3.submitted = r2.submitted
      /\ r3.approved = r2.approved /\ r3.row = n
  BY <1>0, <1>3 DEF VersionRows
<1>. HIDE DEF r3
<1>5. /\ r4 \in VersionRows /\ r4.before = r3.before /\ r4.hash = r3.hash
      /\ r4.meta = r3.meta /\ r4.curriculum = r3.curriculum
      /\ r4.status = r3.status /\ r4.submitted = r3.submitted
      /\ r4.approved = r3.approved /\ r4.row = r3.row /\ r4.submitter = submitter
  BY <1>4 DEF VersionRows
<1>. HIDE DEF r4
<1>6. /\ r5 \in VersionRows /\ r5.before = r4.before /\ r5.hash = r4.hash
      /\ r5.meta = r4.meta /\ r5.curriculum = r4.curriculum
      /\ r5.status = r4.status /\ r5.submitted = r4.submitted
      /\ r5.approved = r4.approved /\ r5.row = r4.row /\ r5.submitter = r4.submitter
      /\ r5.review = review
  BY <1>5 DEF VersionRows
<1>. HIDE DEF r5
<1>. QED BY <1>1, <1>2, <1>3, <1>4, <1>5, <1>6 DEF n, MovesTo

LEMMA ReviewType ==
    ASSUME NEW q, request[q].kind = "approve" \/ request[q].kind = "request_changes",
           request[q].read.hash \in Hashes, request[q].actor \in Actors
    PROVE  /\ ReviewOf(q) \in Reviews
           /\ ReviewOf(q).hash = request[q].read.hash /\ ReviewOf(q).reviewer = request[q].actor
           /\ ReviewOf(q).self = (request[q].actor = request[q].read.submitter)
           /\ request[q].kind = "approve" => ReviewOf(q).decision = "approved"
<1>1. (request[q].actor = request[q].read.submitter) \in BOOLEAN
  OBVIOUS
<1>. QED BY <1>1 DEF ReviewOf, Reviews

LEMMA TransitionEffect ==
    ASSUME IndInv, NEW q \in Requests, SaveTransition(q),
           NEW v \in Versions, v = request[q].version, Exists(v),
           request[q].read = version[v], Decided(request[q], course.policy)
    PROVE  RowMoved(v) /\ Moved(version[v], version'[v], request[q].kind, request[q].actor)
<1>. DEFINE old == version[v]
            kind == request[q].kind
            submitter == IF kind = "submit_review" THEN request[q].actor ELSE old.submitter
            review == IF kind \in {"request_changes", "approve"} THEN ReviewOf(q) ELSE old.review
            row == MovedRow(old, Target(kind), Submitted(q), ApprovedHash(q), submitter, review)
<1>0. kind \in Transitions
  BY DEF SaveTransition
<1>1. /\ version \in [Versions -> VersionRows] /\ old \in VersionRows
      /\ old.hash \in Hashes /\ old.submitted \in Hashes \cup {None}
      /\ old.approved \in Hashes \cup {None} /\ old.submitter \in Actors \cup {None}
      /\ old.review \in Reviews
  <2>1. version \in [Versions -> VersionRows] /\ old \in VersionRows /\ SoundRow(old, course.policy)
    BY DEF IndInv, TypeOK
  <2>2. /\ old.meta \in Metas /\ old.curriculum \in Curricula
        /\ old.hash = Hash(old.meta, old.curriculum)
    <3>1. old.status # "none"
      BY DEF Exists
    <3>. QED BY <2>1, <3>1 DEF SoundRow
  <2>3. old.hash \in Hashes
    <3>. HIDE DEF old
    <3>. QED BY <2>2 DEF Hash, Hashes
  <2>. QED BY <2>1, <2>3 DEF VersionRows
<1>2. Target(kind) \in Statuses /\ old.status \in Sources(kind)
  BY <1>0 DEF Target, Statuses, Mutable, Approved, Transitions, Decided
<1>3. /\ Submitted(q) \in Hashes \cup {None}
      /\ ApprovedHash(q) \in Hashes \cup {None}
      /\ kind # "submit_review" => Submitted(q) = old.submitted
      /\ kind \notin {"submit_review", "approve"} => ApprovedHash(q) = old.approved
      /\ kind = "approve" => ApprovedHash(q) = old.hash
  BY <1>1 DEF Submitted, ApprovedHash
<1>4. kind \in {"submit_review", "request_changes", "approve"} => request[q].actor \in Actors
  BY DEF Decided
<1>5. /\ submitter \in Actors \cup {None}
      /\ kind # "submit_review" => submitter = old.submitter
  BY <1>1, <1>4
<1>6. /\ review \in Reviews
      /\ kind \notin {"request_changes", "approve"} => review = old.review
      /\ kind = "approve" =>
            /\ review.decision = "approved" /\ review.hash = old.hash
            /\ review.reviewer = request[q].actor
            /\ review.self = (request[q].actor = old.submitter)
  BY <1>1, <1>4, ReviewType, SMTT(40)
<1>7. version' = [version EXCEPT ![v] = row]
  BY <1>1 DEF SaveTransition, MovedRow
<1>. DEFINE status == Target(kind)
            submitted == Submitted(q)
            approved == ApprovedHash(q)
<1>. HIDE DEF submitter, review, status, submitted, approved
<1>8. /\ row \in VersionRows
      /\ row.before = old.before /\ row.hash = old.hash
      /\ row.meta = old.meta /\ row.curriculum = old.curriculum
      /\ row.status = status /\ row.submitted = submitted
      /\ row.approved = approved /\ row.row = old.row + 1
      /\ row.submitter = submitter /\ row.review = review
  <2>1. /\ status \in Statuses /\ submitted \in Hashes \cup {None}
        /\ approved \in Hashes \cup {None}
    BY <1>2, <1>3 DEF status, submitted, approved
  <2>2. row = MovedRow(old, status, submitted, approved, submitter, review)
    BY DEF status, submitted, approved
  <2>. HIDE DEF row
  <2>3. MovesTo(row, old, status, submitted, approved, submitter, review)
    BY <1>1, <1>5, <1>6, <2>1, <2>2, MoveType, Zenon
  <2>. QED BY <2>3 DEF MovesTo
<1>. HIDE DEF row
<1>9. RowMoved(v) /\ version'[v] = row
  BY <1>1, <1>7, <1>8 DEF RowMoved
<1>. QED BY <1>2, <1>3, <1>5, <1>6, <1>8, <1>9, SMTT(40) DEF Moved, status, submitted, approved

LEMMA ShownType ==
    ASSUME NEW old \in CourseRows, NEW shown \in Versions \cup {None}
    PROVE  LET row == [old EXCEPT !.shown = shown, !.row = old.row + 1] IN
           /\ row \in CourseRows
           /\ row.origin = old.origin /\ row.policy = old.policy
           /\ row.shown = shown /\ row.row = old.row + 1
<1>. DEFINE n == old.row + 1
            row == [old EXCEPT !.shown = shown, !.row = n]
<1>1. n \in Nat
  BY DEF CourseRows
<1>. HIDE DEF n
<1>2. /\ row \in CourseRows
      /\ row.origin = old.origin /\ row.policy = old.policy
      /\ row.shown = shown /\ row.row = n
  BY <1>1 DEF CourseRows
<1>. QED BY <1>2 DEF n

LEMMA TransitionCourse ==
    ASSUME IndInv, NEW q \in Requests, SaveTransition(q),
           NEW v \in Versions, v = request[q].version
    PROVE  LET kind == request[q].kind IN
           /\ course' \in CourseRows
           /\ course'.origin = course.origin /\ course'.policy = course.policy
           /\ kind = "publish" => course'.shown = v /\ course'.row = course.row + 1
           /\ kind = "withdraw" => course'.shown = None /\ course'.row = course.row + 1
           /\ kind \notin {"publish", "withdraw"} => course' = course
<1>1. course \in CourseRows
  BY DEF IndInv, TypeOK
<1>2. ASSUME NEW shown \in Versions \cup {None}
      PROVE  LET row == [course EXCEPT !.shown = shown, !.row = course.row + 1] IN
             /\ row \in CourseRows
             /\ row.origin = course.origin /\ row.policy = course.policy
             /\ row.shown = shown /\ row.row = course.row + 1
  BY <1>1, ShownType
<1>3. CASE request[q].kind = "publish"
  <2>1. course' = [course EXCEPT !.shown = v, !.row = course.row + 1]
    BY <1>1, <1>3 DEF SaveTransition, CourseRows
  <2>. QED BY <1>2, <1>3, <2>1, ZenonT(60)
<1>4. CASE request[q].kind = "withdraw"
  <2>1. course' = [course EXCEPT !.shown = None, !.row = course.row + 1]
    BY <1>1, <1>4, ZenonT(60) DEF SaveTransition, CourseRows
  <2>. QED BY <1>2, <1>4, <2>1
<1>5. CASE request[q].kind \notin {"publish", "withdraw"}
  BY <1>1, <1>5 DEF SaveTransition
<1>. QED BY <1>3, <1>4, <1>5

\* A fact that starts from what the course showed tells what it shows next.
LEMMA FactAppended ==
    ASSUME published \in Seq(Facts), FactsTellPointer,
           NEW fact \in Facts, published' = Append(published, fact),
           course'.shown = IF fact.kind = "publish" THEN fact.version ELSE None,
           course.shown = IF fact.kind = "publish" THEN fact.previous ELSE fact.version
    PROVE  published' \in Seq(Facts) /\ FactsTellPointer'
<1>1. PICK n \in Nat : n = Len(published)
  BY LenProperties
<1>2. /\ Len(published') = n + 1 /\ published'[n + 1] = fact
      /\ \A k \in 1 .. n : published'[k] = published[k]
      /\ published' \in Seq(Facts)
  BY <1>1, AppendProperties
<1>3. /\ \A k \in 0 .. n : Told(k)' = Told(k)
      /\ Told(n + 1)' = IF fact.kind = "publish" THEN fact.version ELSE None
  BY <1>2 DEF Told
<1>4. /\ course.shown = Told(n)
      /\ \A k \in 1 .. n :
            Told(k - 1) = IF published[k].kind = "publish" THEN published[k].previous
                                                           ELSE published[k].version
  BY <1>1 DEF FactsTellPointer
<1>5. course'.shown = Told(n + 1)'
  BY <1>3
<1>6. ASSUME NEW k \in 1 .. n + 1
      PROVE  Told(k - 1)' = IF published'[k].kind = "publish" THEN published'[k].previous
                                                              ELSE published'[k].version
  <2>1. CASE k \in 1 .. n
    BY <1>2, <1>3, <1>4, <2>1
  <2>2. CASE k = n + 1
    BY <1>2, <1>3, <1>4, <2>2
  <2>3. k \in 1 .. n \/ k = n + 1
    OBVIOUS
  <2>. QED BY <2>1, <2>2, <2>3
<1>. QED BY <1>2, <1>5, <1>6 DEF FactsTellPointer, Told

LEMMA TransitionFacts ==
    ASSUME IndInv, NEW q \in Requests, SaveTransition(q),
           NEW v \in Versions, v = request[q].version, Decided(request[q], course.policy),
           request[q].kind \in {"publish", "withdraw"} => request[q].course = course
    PROVE  published' \in Seq(Facts) /\ FactsTellPointer'
<1>0. published \in Seq(Facts) /\ FactsTellPointer /\ course.shown \in Versions \cup {None}
  BY DEF IndInv, TypeOK, CourseRows
<1>1. CASE request[q].kind = "publish"
  <2>. DEFINE fact == [kind |-> "publish", version |-> v, previous |-> course.shown]
  <2>1. published' = Append(published, fact) /\ course'.shown = v
    BY <1>1, TransitionCourse DEF SaveTransition
  <2>2. fact \in Facts /\ fact.kind = "publish" /\ fact.version = v /\ fact.previous = course.shown
    BY <1>0 DEF Facts
  <2>. HIDE DEF fact
  <2>. QED BY <1>0, <2>1, <2>2, FactAppended, SMTT(40)
<1>2. CASE request[q].kind = "withdraw"
  <2>. DEFINE fact == [kind |-> "withdraw", version |-> v, previous |-> None]
  <2>1. published' = Append(published, fact) /\ course'.shown = None /\ course.shown = v
    BY <1>2, TransitionCourse DEF SaveTransition, Decided
  <2>2. fact \in Facts /\ fact.kind = "withdraw" /\ fact.version = v
    BY DEF Facts
  <2>. HIDE DEF fact
  <2>. QED BY <1>0, <2>1, <2>2, FactAppended, SMTT(40)
<1>3. CASE request[q].kind \notin {"publish", "withdraw"}
  <2>1. published' = published /\ course' = course
    BY <1>3, TransitionCourse DEF SaveTransition
  <2>. QED BY <1>0, <2>1, SMTT(40) DEF FactsTellPointer, Told
<1>. QED BY <1>1, <1>2, <1>3

LEMMA MovedSound ==
    ASSUME NEW old, NEW new, NEW kind \in Transitions, NEW actor, NEW policy,
           SoundRow(old, policy), Moved(old, new, kind, actor),
           kind = "submit_review" => Complete(old.curriculum),
           kind = "approve" => /\ old.submitted = old.hash
                               /\ ~(old.submitter = actor /\ policy = "separate_reviewer_required")
    PROVE  /\ SoundRow(new, policy) /\ VersionTriggerAllows(old, new)
           /\ old.status # "none" /\ new.status # "none"
           /\ old.status = "published" <=> kind = "withdraw"
           /\ new.status = "published" <=> kind = "publish"
<1>1. /\ new.before = old.before /\ new.hash = old.hash
      /\ new.meta = old.meta /\ new.curriculum = old.curriculum
  BY DEF Moved
<1>2. ASSUME old.status # "none"
      PROVE  /\ new.meta \in Metas /\ new.curriculum \in Curricula
             /\ new.hash = Hash(new.meta, new.curriculum)
  BY <1>1, <1>2 DEF SoundRow
<1>3. CASE kind = "submit_review"
  <2>1. old.status \in Mutable /\ new.status = "under_review"
    BY <1>3 DEF Moved, Sources, Target
  <2>. QED BY <1>1, <1>2, <1>3, <2>1
       DEF SoundRow, VersionTriggerAllows, Mutable, Approved
<1>4. CASE kind = "request_changes"
  <2>1. old.status = "under_review" /\ new.status = "changes_requested"
    BY <1>4 DEF Moved, Sources, Target
  <2>. QED BY <1>1, <1>2, <1>4, <2>1
       DEF SoundRow, VersionTriggerAllows, Mutable, Approved
<1>5. CASE kind = "approve"
  <2>1. old.status = "under_review" /\ new.status = "approved"
    BY <1>5 DEF Moved, Sources, Target
  <2>2. Reviewed(new, policy)
    BY <1>1, <1>5, <2>1 DEF Reviewed, Moved, SoundRow
  <2>. QED BY <1>1, <1>2, <1>5, <2>1, <2>2
       DEF SoundRow, VersionTriggerAllows, Mutable, Approved
<1>6. CASE kind \in {"publish", "withdraw", "archive"}
  <2>1. /\ kind = "publish" => old.status = "approved" /\ new.status = "published"
        /\ kind = "withdraw" => old.status = "published" /\ new.status = "withdrawn"
        /\ kind = "archive" => old.status = "withdrawn" /\ new.status = "archived"
    BY <1>6 DEF Moved, Sources, Target
  <2>2. /\ new.submitted = old.submitted /\ new.submitter = old.submitter
        /\ new.approved = old.approved /\ new.review = old.review
    BY <1>6 DEF Moved
  <2>3. Reviewed(old, policy)
    BY <1>6, <2>1 DEF SoundRow, Approved
  <2>4. Reviewed(new, policy)
    BY <1>1, <2>2, <2>3 DEF Reviewed
  <2>. QED BY <1>1, <1>2, <1>6, <2>1, <2>2, <2>4
       DEF SoundRow, VersionTriggerAllows, Mutable, Approved
<1>. QED BY <1>3, <1>4, <1>5, <1>6 DEF Transitions

\* The moves of the contract.
LEMMA TransitionMaps ==
    ASSUME NEW v \in Versions, RowMoved(v), NEW kind \in Transitions, NEW actor,
           Moved(version[v], version'[v], kind, actor),
           kind = "publish" => course'.shown = v,
           kind = "withdraw" => course.shown = v /\ course'.shown = None,
           kind \notin {"publish", "withdraw"} => course'.shown = course.shown
    PROVE  Maps
<1>1. /\ Stages' = [Stages EXCEPT ![v] = Stage(v)']
      /\ Contents' = Contents /\ Befores' = Befores
      /\ Stages[v] = Stage(v)
  BY MapsOne DEF Moved, Stages
<1>2. version[v].status \in Sources(kind) /\ version'[v].status = Target(kind)
  BY DEF Moved
<1>3. /\ kind = "submit_review" => Stage(v) = "open" /\ Stage(v)' = "sealed"
      /\ kind = "request_changes" => Stage(v) = "sealed" /\ Stage(v)' = "open"
      /\ kind = "approve" => Stage(v) = "sealed" /\ Stage(v)' = "approved"
      /\ kind = "publish" => Stage(v) = "approved" /\ Stage(v)' = "public"
      /\ kind = "withdraw" => Stage(v) = "public" /\ Stage(v)' = "withdrawn"
      /\ kind = "archive" => Stage(v) = "withdrawn" /\ Stage(v)' = "archived"
  BY <1>2, StageIs DEF Sources, Target, Mutable
<1>4. ASSUME NEW from, NEW to, Stage(v) = from, Stage(v)' = to
      PROVE  Contract!Moves(v, {from}, to)
  <2>1. Stages[v] \in {from} /\ Stages' = [Stages EXCEPT ![v] = to]
    BY <1>1, <1>4
  <2>. QED BY <2>1, Zenon DEF Contract!Moves, Stages
<1>5. CASE kind = "submit_review"
  <2>1. Contract!Submit(v)
    BY <1>1, <1>3, <1>4, <1>5, Zenon DEF Contract!Submit, Contents, Befores
  <2>. QED BY <2>1, Zenon DEF Contract!Next, Maps
<1>6. CASE kind = "request_changes"
  <2>1. Contract!Return(v)
    BY <1>1, <1>3, <1>4, <1>6, Zenon DEF Contract!Return, Contents, Befores
  <2>. QED BY <2>1, Zenon DEF Contract!Next, Maps
<1>7. CASE kind = "approve"
  <2>1. Contract!Approve(v)
    BY <1>1, <1>3, <1>4, <1>7, Zenon DEF Contract!Approve, Contents, Befores
  <2>. QED BY <2>1, Zenon DEF Contract!Next, Maps
<1>8. CASE kind = "publish"
  <2>1. Contract!Publish(v)
    BY <1>1, <1>3, <1>4, <1>8, Zenon DEF Contract!Publish, Contents, Befores
  <2>. QED BY <2>1, Zenon DEF Contract!Next, Maps
<1>9. CASE kind = "withdraw"
  <2>1. Contract!Withdraw(v)
    BY <1>1, <1>3, <1>4, <1>9, Zenon DEF Contract!Withdraw, Contents, Befores
  <2>. QED BY <2>1, Zenon DEF Contract!Next, Maps
<1>10. CASE kind = "archive"
  <2>1. Contract!Archive(v)
    BY <1>1, <1>3, <1>4, <1>10, Zenon DEF Contract!Archive, Contents, Befores
  <2>. QED BY <2>1, Zenon DEF Contract!Next, Maps
<1>. QED BY <1>5, <1>6, <1>7, <1>8, <1>9, <1>10 DEF Transitions

LEMMA SaveTransitionHolds ==
    ASSUME IndInv, NEW q \in Requests, SaveTransition(q)
    PROVE  IndInv' /\ Accepts /\ Maps
<1>. DEFINE kind == request[q].kind
            actor == request[q].actor
<1>1. PICK v \in Versions :
         /\ v = request[q].version /\ Exists(v)
         /\ request[q].read = version[v]
         /\ Decided(request[q], course.policy)
         /\ SameCourse(q) => request[q].course = course
  BY Compared, ZenonT(60) DEF SaveTransition, Agrees
<1>2. /\ kind \in Transitions /\ Ends(q) /\ right' = right
      /\ kind \in {"publish", "withdraw"} => request[q].course = course
  BY <1>1 DEF SaveTransition, Agrees
<1>3. RowMoved(v) /\ Moved(version[v], version'[v], kind, actor)
  BY <1>1, TransitionEffect
<1>4. /\ course' \in CourseRows
      /\ course'.origin = course.origin /\ course'.policy = course.policy
      /\ kind = "publish" => course'.shown = v /\ course'.row = course.row + 1
      /\ kind = "withdraw" => course'.shown = None /\ course'.row = course.row + 1
      /\ kind \notin {"publish", "withdraw"} => course' = course
  BY <1>1, TransitionCourse
<1>5. published' \in Seq(Facts) /\ FactsTellPointer'
  BY <1>1, <1>2, TransitionFacts
<1>6. /\ SoundRow(version'[v], course.policy)
      /\ VersionTriggerAllows(version[v], version'[v])
      /\ version[v].status # "none" /\ version'[v].status # "none"
      /\ version[v].status = "published" <=> kind = "withdraw"
      /\ version'[v].status = "published" <=> kind = "publish"
  <2>1. SoundRow(version[v], course.policy)
    BY DEF IndInv
  <2>2. /\ kind = "submit_review" => Complete(version[v].curriculum)
        /\ kind = "approve" =>
              /\ version[v].submitted = version[v].hash
              /\ ~(version[v].submitter = actor /\ course.policy = "separate_reviewer_required")
    BY <1>1 DEF Decided
  <2>3. kind \in Transitions /\ Moved(version[v], version'[v], kind, actor)
    BY <1>2, <1>3
  <2>. HIDE DEF kind, actor
  <2>. QED BY ONLY <2>1, <2>2, <2>3, MovedSound, Zenon
<1>7. Saves(v)
  <2>1. course.origin # "none"
    BY <1>1 DEF IndInv, Started
  <2>2. version'[v].row = version[v].row + 1
    BY <1>3 DEF Moved
  <2>3. /\ request' \in [Requests -> RequestStates]
        /\ \A p \in Requests : request'[p] = request[p] \/ request'[p] = Idle
    BY <1>2, EndsMoves DEF IndInv, RequestMoved
  <2>. QED BY <1>2, <1>3, <1>4, <1>5, <1>6, <2>1, <2>2, <2>3 DEF Saves
<1>8. kind = "withdraw" => course.shown = v
  BY <1>1, <1>2 DEF Decided
<1>9. ShownIsPublished'
  <2>1. course.shown # None => course.shown \in Versions /\ version[course.shown].status = "published"
    BY DEF IndInv, ShownIsPublished
  <2>2. CASE kind = "publish"
    BY <1>4, <1>6, <2>2 DEF ShownIsPublished
  <2>3. CASE kind = "withdraw"
    BY <1>4, <2>3 DEF ShownIsPublished
  <2>4. CASE kind \notin {"publish", "withdraw"}
    BY <1>3, <1>4, <1>6, <2>1, <2>4 DEF ShownIsPublished, RowMoved
  <2>. QED BY <2>2, <2>3, <2>4
<1>10. OneSuccessor'
  BY <1>3 DEF IndInv, OneSuccessor, RowMoved, Moved
<1>11. Maps
  BY <1>2, <1>3, <1>4, <1>8, TransitionMaps
<1>. QED BY <1>5, <1>6, <1>7, <1>9, <1>10, <1>11, SavesHolds, SMTT(40)

-----------------------------------------------------------------------------
(* Steps that make a version.                                               *)

\* A draft that says something.
Draft(row, before, meta, curriculum, hash) ==
    /\ row \in VersionRows
    /\ row.status = "draft" /\ row.before = before
    /\ row.meta = meta /\ row.curriculum = curriculum /\ row.hash = hash

LEMMA DraftType ==
    ASSUME NEW meta \in Metas, NEW curriculum \in Curricula, NEW hash \in Hashes,
           NEW before \in Versions
    PROVE  /\ Draft([NoVersion EXCEPT !.status = "draft", !.meta = meta, !.curriculum = curriculum,
                                      !.hash = hash, !.row = 1],
                    None, meta, curriculum, hash)
           /\ Draft([NoVersion EXCEPT !.status = "draft", !.before = before, !.row = 1,
                                      !.meta = meta, !.hash = hash, !.curriculum = curriculum],
                    before, meta, curriculum, hash)
<1>0. "draft" \in Statuses /\ NoVersion \in VersionRows /\ NoVersion.before = None
  BY NoVersionType DEF Statuses, Mutable, NoVersion
<1>1. Draft([NoVersion EXCEPT !.status = "draft", !.meta = meta, !.curriculum = curriculum,
                              !.hash = hash, !.row = 1],
            None, meta, curriculum, hash)
  <2>. DEFINE r1 == [NoVersion EXCEPT !.status = "draft", !.meta = meta]
              r2 == [r1 EXCEPT !.curriculum = curriculum, !.hash = hash]
              r3 == [r2 EXCEPT !.row = 1]
  <2>1. r1 \in VersionRows /\ r1.status = "draft" /\ r1.before = None /\ r1.meta = meta
    BY <1>0 DEF VersionRows
  <2>. HIDE DEF r1
  <2>2. /\ r2 \in VersionRows /\ r2.status = r1.status /\ r2.before = r1.before
        /\ r2.meta = r1.meta /\ r2.curriculum = curriculum /\ r2.hash = hash
    BY <2>1, ZenonT(60) DEF VersionRows
  <2>. HIDE DEF r2
  <2>3. /\ r3 \in VersionRows /\ r3.status = r2.status /\ r3.before = r2.before
        /\ r3.meta = r2.meta /\ r3.curriculum = r2.curriculum /\ r3.hash = r2.hash
    BY <2>2 DEF VersionRows
  <2>. HIDE DEF r3
  <2>4. Draft(r3, None, meta, curriculum, hash)
    BY <2>1, <2>2, <2>3 DEF Draft
  <2>. QED BY <2>4, Zenon DEF r1, r2, r3
<1>2. Draft([NoVersion EXCEPT !.status = "draft", !.before = before, !.row = 1,
                              !.meta = meta, !.hash = hash, !.curriculum = curriculum],
            before, meta, curriculum, hash)
  <2>. DEFINE r1 == [NoVersion EXCEPT !.status = "draft", !.before = before]
              r2 == [r1 EXCEPT !.row = 1, !.meta = meta]
              r3 == [r2 EXCEPT !.hash = hash, !.curriculum = curriculum]
  <2>1. r1 \in VersionRows /\ r1.status = "draft" /\ r1.before = before
    BY <1>0 DEF VersionRows
  <2>. HIDE DEF r1
  <2>2. /\ r2 \in VersionRows /\ r2.status = r1.status /\ r2.before = r1.before
        /\ r2.meta = meta
    BY <2>1 DEF VersionRows
  <2>. HIDE DEF r2
  <2>3. /\ r3 \in VersionRows /\ r3.status = r2.status /\ r3.before = r2.before
        /\ r3.meta = r2.meta /\ r3.curriculum = curriculum /\ r3.hash = hash
    BY <2>2 DEF VersionRows
  <2>. HIDE DEF r3
  <2>4. Draft(r3, before, meta, curriculum, hash)
    BY <2>1, <2>2, <2>3 DEF Draft
  <2>. QED BY <2>4, Zenon DEF r1, r2, r3
<1>. QED BY <1>1, <1>2

\* What a new draft leaves standing.
LEMMA DraftHolds ==
    ASSUME IndInv, NEW w \in Versions, ~Exists(w), RowMoved(w),
           NEW before \in Versions \cup {None}, NEW meta \in Metas, NEW curriculum \in Curricula,
           Draft(version'[w], before, meta, curriculum, Hash(meta, curriculum)),
           before # None => NoSuccessor(before),
           course'.shown = course.shown, NEW policy
    PROVE  /\ SoundRow(version'[w], policy) /\ OneSuccessor' /\ ShownIsPublished'
           /\ VersionTriggerAllows(version[w], version'[w])
<1>1. version[w].status = "none" /\ version[w].before = None
  BY DEF IndInv, SoundRow, Exists, NoVersion
<1>2. SoundRow(version'[w], policy)
  BY DEF Draft, SoundRow, Approved
<1>3. OneSuccessor'
  BY <1>1 DEF IndInv, OneSuccessor, RowMoved, Draft, NoSuccessor
<1>4. ShownIsPublished'
  BY <1>1 DEF IndInv, ShownIsPublished, RowMoved
<1>5. VersionTriggerAllows(version[w], version'[w])
  BY <1>1 DEF VersionTriggerAllows, Mutable
<1>. QED BY <1>2, <1>3, <1>4, <1>5

LEMMA SaveSuccessorHolds ==
    ASSUME IndInv, NEW q \in Requests, SaveSuccessor(q)
    PROVE  IndInv' /\ Accepts /\ Maps
<1>1. PICK v \in Versions :
         /\ v = request[q].version /\ Exists(v)
         /\ request[q].read = version[v]
         /\ Decided(request[q], course.policy)
  BY Compared DEF SaveSuccessor, Agrees
<1>2. /\ request[q].kind = "successor" /\ NoSuccessor(v) /\ Ends(q)
      /\ right' = right /\ published' = published
      /\ version[v].status \in Approved
  BY <1>1 DEF SaveSuccessor, Agrees, Decided
<1>. DEFINE old == version[v]
            row == [NoVersion EXCEPT !.status = "draft", !.before = v, !.row = 1,
                                     !.meta = old.meta, !.hash = old.hash,
                                     !.curriculum = old.curriculum]
<1>3. PICK w \in Versions : NextNumber(w) /\ version' = [version EXCEPT ![w] = row]
  BY <1>1 DEF SaveSuccessor
<1>4. /\ version \in [Versions -> VersionRows]
      /\ old.meta \in Metas /\ old.curriculum \in Curricula
      /\ old.hash = Hash(old.meta, old.curriculum) /\ old.hash \in Hashes
  <2>1. version \in [Versions -> VersionRows] /\ SoundRow(version[v], course.policy)
    BY DEF IndInv, TypeOK
  <2>2. /\ old.meta \in Metas /\ old.curriculum \in Curricula
        /\ old.hash = Hash(old.meta, old.curriculum)
    BY <1>1, <2>1 DEF SoundRow, Exists
  <2>. QED BY <2>1, <2>2 DEF Hash, Hashes
<1>5. Draft(row, v, old.meta, old.curriculum, old.hash)
  BY <1>4, DraftType, Zenon
<1>. HIDE DEF row
<1>6. /\ ~Exists(w) /\ w # v
      /\ RowMoved(w) /\ version'[w] = row
  BY <1>1, <1>3, <1>4, <1>5 DEF NextNumber, RowMoved, Draft
<1>7. course' = [course EXCEPT !.shown = course.shown, !.row = course.row + 1]
  <2>1. course \in CourseRows
    BY DEF IndInv, TypeOK
  <2>2. course' = [course EXCEPT !.row = course.row + 1]
    BY DEF SaveSuccessor
  <2>. QED BY <2>1, <2>2 DEF CourseRows
<1>8. /\ course' \in CourseRows
      /\ course'.origin = course.origin /\ course'.policy = course.policy
      /\ course'.shown = course.shown /\ course'.row = course.row + 1
  <2>1. course \in CourseRows /\ course.shown \in Versions \cup {None}
    BY DEF IndInv, TypeOK, CourseRows
  <2>. QED BY <1>7, <2>1, ShownType
<1>9. Saves(w)
  <2>1. course.origin # "none" /\ published \in Seq(Facts)
    BY <1>1 DEF IndInv, TypeOK, Started
  <2>2. /\ request' \in [Requests -> RequestStates]
        /\ \A p \in Requests : request'[p] = request[p] \/ request'[p] = Idle
    BY <1>2, EndsMoves DEF IndInv, RequestMoved
  <2>3. version'[w].status # "none"
    BY <1>5, <1>6 DEF Draft
  <2>. QED BY <1>2, <1>6, <1>8, <2>1, <2>2, <2>3 DEF Saves
<1>10. /\ SoundRow(version'[w], course.policy) /\ OneSuccessor' /\ ShownIsPublished'
       /\ VersionTriggerAllows(version[w], version'[w])
  BY <1>2, <1>4, <1>5, <1>6, <1>8, DraftHolds
<1>11. FactsTellPointer'
  BY <1>2, <1>8 DEF IndInv, FactsTellPointer, Told
<1>12. Maps
  <2>1. /\ Stages[v] \in Contract!Settled /\ Stages[w] \in {"none"}
        /\ Stages' = [Stages EXCEPT ![w] = "open"]
        /\ \A x \in Versions : Befores[x] # v
    <3>1. Stage(v) \in {"approved", "public", "withdrawn", "archived"} /\ Stage(w) = "none"
      BY <1>2, <1>6, StageIs DEF Approved, Exists
    <3>2. Stage(w)' = "open"
      BY <1>5, <1>6, StageIs DEF Draft, Mutable
    <3>3. Stages' = [Stages EXCEPT ![w] = "open"]
      BY <1>6, <3>2, MapsOne
    <3>4. \A x \in Versions : Befores[x] # v
      BY <1>2 DEF NoSuccessor, Befores
    <3>5. Stages[v] = Stage(v) /\ Stages[w] = Stage(w)
      BY DEF Stages
    <3>6. Stages[v] \in {"approved", "public", "withdrawn", "archived"}
      BY <3>1, <3>5
    <3>. QED BY <3>1, <3>3, <3>4, <3>5, <3>6, Zenon DEF Contract!Settled
  <2>2. /\ Contents' = [Contents EXCEPT ![w] = Contents[v]]
        /\ Befores' = [Befores EXCEPT ![w] = v]
        /\ course.shown' = course.shown
    BY <1>5, <1>6, <1>8, MapsOne DEF Draft, Contents
  <2>3. Contract!Succeed(w, v)
    BY <2>1, <2>2, Zenon DEF Contract!Succeed, Contract!Moves, Stages, Contents, Befores
  <2>. QED BY <2>3, Zenon DEF Contract!Next, Maps
<1>. QED BY <1>9, <1>10, <1>11, <1>12, SavesHolds

LEMMA FirstVersionHolds ==
    ASSUME IndInv, NEW origin \in {"manual", "ai_assisted"}, NEW policy \in Policies,
           NEW v \in Versions, NEW meta \in Metas, NEW curriculum \in Curricula,
           FirstVersion(origin, policy, v, meta, curriculum)
    PROVE  IndInv' /\ Accepts /\ Maps
<1>. DEFINE hash == Hash(meta, curriculum)
            row == [NoVersion EXCEPT !.status = "draft", !.meta = meta, !.curriculum = curriculum,
                                     !.hash = hash, !.row = 1]
<1>1. /\ version' = [version EXCEPT ![v] = row]
      /\ UNCHANGED <<right, published, request>>
      /\ course = NoCourse /\ \A w \in Versions : ~Exists(w)
      /\ version \in [Versions -> VersionRows]
  BY DEF FirstVersion, IndInv, Started, TypeOK
<1>2. /\ course' \in CourseRows /\ course'.origin = origin /\ course'.policy = policy
      /\ course'.shown = None /\ course.shown = None
  <2>1. course' = [origin |-> origin, policy |-> policy, shown |-> None, row |-> 1]
    BY DEF FirstVersion
  <2>2. course.shown = None
    BY <1>1 DEF NoCourse
  <2>. QED BY <2>1, <2>2 DEF CourseRows
<1>3. hash \in Hashes
  BY DEF Hash, Hashes
<1>. HIDE DEF hash
<1>4. Draft(row, None, meta, curriculum, hash)
  BY <1>3, DraftType, Zenon
<1>. HIDE DEF row
<1>5. RowMoved(v) /\ version'[v] = row
  BY <1>1, <1>4 DEF RowMoved, Draft
<1>6. /\ SoundRow(version'[v], policy) /\ OneSuccessor' /\ ShownIsPublished'
      /\ VersionTriggerAllows(version[v], version'[v])
  BY <1>1, <1>2, <1>4, <1>5, DraftHolds DEF hash
<1>7. \A w \in Versions : w # v => version'[w] = version[w] /\ version[w].status = "none"
  BY <1>1, <1>5 DEF RowMoved, Exists
<1>8. TypeOK'
  BY <1>1, <1>2, <1>5 DEF IndInv, TypeOK, RowMoved
<1>9. Started'
  BY <1>2 DEF Started
<1>10. \A w \in Versions : SoundRow(version'[w], course'.policy)
  BY <1>2, <1>6, <1>7 DEF IndInv, SoundRow, Approved
<1>11. FactsTellPointer'
  BY <1>1, <1>2 DEF IndInv, FactsTellPointer, Told
<1>12. \A q \in Requests : RequestHolds(q)'
  <2>1. \A q \in Requests : request[q].pc = "idle"
    BY <1>1 DEF IndInv, RequestHolds
  <2>. QED BY <1>1, <2>1 DEF RequestHolds
<1>13. RightHeld'
  BY <1>1 DEF IndInv, RightHeld, HoldsSource
<1>14. Accepts
  BY <1>6, <1>7 DEF Accepts, VersionTriggerAllows, PointerTriggerAllows, ShownIsPublished,
                    OneSuccessor, Mutable
<1>15. Maps
  <2>1. \A w \in Versions : Stages[w] = "none"
    <3>1. \A w \in Versions : Stage(w) = "none"
      BY <1>1, StageIs DEF Exists
    <3>. QED BY <3>1 DEF Stages
  <2>2. /\ Stages' = [Stages EXCEPT ![v] = "open"]
        /\ Contents' = [Contents EXCEPT ![v] = hash] /\ Contents'[v] = hash
        /\ Befores' = Befores /\ course.shown' = course.shown
    <3>1. Stage(v)' = "open"
      BY <1>4, <1>5, StageIs DEF Draft, Mutable
    <3>2. version'[v].before = version[v].before /\ version'[v].hash = hash
      BY <1>1, <1>4, <1>5 DEF IndInv, SoundRow, Exists, NoVersion, Draft
    <3>3. Contents'[v] = version'[v].hash
      BY DEF Contents
    <3>. QED BY <1>2, <1>5, <3>1, <3>2, <3>3, MapsOne
  <2>3. Contract!First(v, Contents'[v])
    <3>1. Stages[v] \in {"none"}
      BY <2>1
    <3>. QED BY <2>1, <2>2, <3>1, Zenon DEF Contract!First, Contract!Moves, Stages, Contents, Befores
  <2>4. Contents'[v] # None
    BY <1>3, <2>2, Apart
  <2>. QED BY <2>3, <2>4, Zenon DEF Contract!Next, Maps, Contents
<1>. QED BY <1>6, <1>8, <1>9, <1>10, <1>11, <1>12, <1>13, <1>14, <1>15 DEF IndInv

LEMMA CreateHolds ==
    ASSUME IndInv, CreateCourse \/ CreateAiAssistedDraft
    PROVE  IndInv' /\ Accepts /\ Maps
  BY FirstVersionHolds, Apart DEF CreateCourse, CreateAiAssistedDraft

-----------------------------------------------------------------------------
(* The steps together.                                                      *)

LEMMA FinishHolds ==
    ASSUME IndInv, NEW q \in Requests, Finish(q)
    PROVE  IndInv' /\ Accepts /\ Maps
<1>1. CASE SourceUnavailable(q) \/ CourseChanged(q) \/ SaveRefused(q) \/ Conflict(q)
  BY <1>1, EndHolds DEF SourceUnavailable, CourseChanged, SaveRefused, Conflict
<1>. QED BY <1>1, StoreEditHolds, SaveTransitionHolds, SaveSuccessorHolds DEF Finish

LEMMA NextHolds ==
    ASSUME IndInv, Next
    PROVE  IndInv' /\ Accepts /\ Maps
<1>1. ASSUME NEW q \in Requests, DeadlockAbort(q) \/ Rollback(q)
      PROVE  IndInv' /\ Accepts /\ Maps
  BY <1>1, EndHolds DEF DeadlockAbort, Rollback
<1>. QED BY <1>1, RightHolds, CreateHolds, BeginHolds, LockHolds, FinishHolds DEF Next

LEMMA StepHolds ==
    ASSUME IndInv, [Next]_vars
    PROVE  IndInv' /\ [Accepts]_vars /\ Maps
<1>1. CASE Next
  BY <1>1, NextHolds
<1>2. CASE UNCHANGED vars
  <2>1. UNCHANGED <<right, course, version, published, request>>
    BY <1>2 DEF vars
  <2>2. TypeOK' /\ Started' /\ OneSuccessor' /\ ShownIsPublished' /\ FactsTellPointer'
        /\ \A v \in Versions : SoundRow(version[v], course.policy)'
    BY <2>1 DEF IndInv, TypeOK, Started, Exists, OneSuccessor, ShownIsPublished,
                FactsTellPointer, Told
  <2>3. (\A q \in Requests : RequestHolds(q)') /\ RightHeld'
    BY <2>1 DEF IndInv, RequestHolds, Exists, RightHeld, HoldsSource
  <2>. QED BY <1>2, <2>1, <2>2, <2>3, SameRowsMap DEF IndInv
<1>. QED BY <1>1, <1>2

LEMMA InitHolds == Init => IndInv /\ Contract!Init
<1>. SUFFICES ASSUME Init PROVE IndInv /\ Contract!Init
  OBVIOUS
<1>1. /\ right = "active" /\ course = NoCourse /\ published = <<>>
      /\ version = [v \in Versions |-> NoVersion] /\ request = [q \in Requests |-> Idle]
  BY DEF Init
<1>2. NoVersion.status = "none" /\ NoVersion.before = None /\ NoVersion.hash = None
      /\ NoCourse.shown = None
  BY DEF NoVersion, NoCourse
<1>3. Idle.pc = "idle" /\ Idle.locked = FALSE
  BY DEF Idle
<1>4. TypeOK
  BY <1>1, NoVersionType, NoCourseType, IdleType, EmptySeq DEF TypeOK
<1>5. Started /\ OneSuccessor /\ ShownIsPublished
  BY <1>1, <1>2 DEF Started, Exists, OneSuccessor, ShownIsPublished
<1>6. \A v \in Versions : SoundRow(version[v], course.policy)
  BY <1>1, <1>2 DEF SoundRow, Approved
<1>7. FactsTellPointer
  BY <1>1, <1>2 DEF FactsTellPointer, Told
<1>8. (\A q \in Requests : RequestHolds(q)) /\ RightHeld
  BY <1>1, <1>3 DEF RequestHolds, RightHeld, HoldsSource
<1>9. Contract!Init
  <2>1. \A v \in Versions : Stage(v) = "none"
    BY <1>1, <1>2, StageIs
  <2>2. /\ Stages = [v \in Versions |-> "none"]
        /\ Contents = [v \in Versions |-> None]
        /\ Befores = [v \in Versions |-> None]
        /\ course.shown = None
    BY <1>1, <1>2, <2>1 DEF Stages, Contents, Befores
  <2>. QED BY <2>2, Zenon DEF Contract!Init, Stages, Contents, Befores
<1>. QED BY <1>4, <1>5, <1>6, <1>7, <1>8, <1>9 DEF IndInv

-----------------------------------------------------------------------------
(* Whom a request waits for.                                                *)

\* What the locks that q holds say of it.
LocksGenerated(q) ==
    LET r == request[q] IN
    /\ r.pc = "version" => ~r.locked
    /\ r.pc = "source" => r.locked
    /\ r.pc = "version" \/ r.locked =>
          r.kind \in {"approve", "publish"} /\ course.origin = "ai_assisted"
    /\ r.locked => r.pc \in {"source", "read", "save"}
    /\ r.pc \in {"read", "save"} /\ AiAssisted(r.kind) => r.locked

\* One request at a time holds a version, the source, or the course.
LockedOnce ==
    \A p, q \in Requests :
        /\ request[p].locked /\ request[q].locked /\ request[p].version = request[q].version
              => p = q
        /\ HoldsSource(p) /\ HoldsSource(q) => p = q
        /\ request[p].pc = "save" /\ request[q].pc = "save" => p = q

LockInv == LockedOnce /\ \A q \in Requests : LocksGenerated(q)

\* How a request takes its locks: it begins with none; the version of a generated course
\* first, then its source, then the course; and it lets go of all of them at once.
TakesLock(q, new) ==
    LET old == request[q]
        same == new.kind = old.kind /\ new.version = old.version
    IN
    \/ /\ old.pc = "idle" /\ ~new.locked
       /\ new.pc = IF AiAssisted(new.kind) THEN "version" ELSE "read"
    \/ /\ same /\ old.pc = "version" /\ new.pc = "source" /\ new.locked
       /\ VersionFree(q, old.version)
    \/ /\ same /\ old.pc = "source" /\ new.pc = "read" /\ new.locked = old.locked
       /\ SourceFree
    \/ /\ same /\ old.pc = "read" /\ new.pc = "save" /\ new.locked = old.locked
       /\ CourseFree(q)
    \/ new = Idle

LEMMA ReadingTakes ==
    ASSUME IndInv, NEW q \in Requests, NEW v \in Versions, request[q].pc = "idle",
           NEW kind \in Edits \cup Transitions \cup {"successor"},
           \/ Goes(q, Reading(kind, v))
           \/ \E a \in Actors : Goes(q, [Reading(kind, v) EXCEPT !.actor = a])
           \/ \E m \in Metas : Goes(q, [Reading(kind, v) EXCEPT !.meta = m])
           \/ \E k \in Curricula : Goes(q, [Reading(kind, v) EXCEPT !.curriculum = k])
    PROVE  \E state : RequestMoved(q, state) /\ TakesLock(q, state)
<1>. DEFINE read == Reading(kind, v)
<1>1. read \in RequestStates /\ ~read.locked /\ read.kind = kind
  BY ReadingType
<1>2. read.pc = IF AiAssisted(kind) THEN "version" ELSE "read"
  BY DEF Reading, Idle
<1>. HIDE DEF read
<1>3. ASSUME NEW state \in RequestStates, Goes(q, state),
             state.pc = read.pc, state.locked = read.locked, state.kind = read.kind
      PROVE  RequestMoved(q, state) /\ TakesLock(q, state)
  BY <1>1, <1>2, <1>3, GoesMoves DEF IndInv, TakesLock
<1>4. CASE Goes(q, Reading(kind, v))
  <2>1. Goes(q, read)
    BY <1>4 DEF read
  <2>. QED BY <1>1, <1>3, <2>1
<1>5. ASSUME NEW a \in Actors, Goes(q, [Reading(kind, v) EXCEPT !.actor = a])
      PROVE  \E state : RequestMoved(q, state) /\ TakesLock(q, state)
  <2>. DEFINE state == [read EXCEPT !.actor = a]
  <2>1. Goes(q, state)
    BY <1>5 DEF read
  <2>2. state \in RequestStates /\ state.pc = read.pc /\ state.locked = read.locked
        /\ state.kind = read.kind
    BY <1>1, BringsType
  <2>. HIDE DEF state
  <2>. QED BY <1>3, <2>1, <2>2
<1>6. ASSUME NEW m \in Metas, Goes(q, [Reading(kind, v) EXCEPT !.meta = m])
      PROVE  \E state : RequestMoved(q, state) /\ TakesLock(q, state)
  <2>. DEFINE state == [read EXCEPT !.meta = m]
  <2>1. Goes(q, state)
    BY <1>6 DEF read
  <2>2. state \in RequestStates /\ state.pc = read.pc /\ state.locked = read.locked
        /\ state.kind = read.kind
    BY <1>1, BringsType
  <2>. HIDE DEF state
  <2>. QED BY <1>3, <2>1, <2>2
<1>7. ASSUME NEW k \in Curricula, Goes(q, [Reading(kind, v) EXCEPT !.curriculum = k])
      PROVE  \E state : RequestMoved(q, state) /\ TakesLock(q, state)
  <2>. DEFINE state == [read EXCEPT !.curriculum = k]
  <2>1. Goes(q, state)
    BY <1>7 DEF read
  <2>2. state \in RequestStates /\ state.pc = read.pc /\ state.locked = read.locked
        /\ state.kind = read.kind
    BY <1>1, BringsType
  <2>. HIDE DEF state
  <2>. QED BY <1>3, <2>1, <2>2
<1>. QED BY <1>4, <1>5, <1>6, <1>7

LEMMA BeginTakes ==
    ASSUME IndInv, NEW q \in Requests, Begin(q)
    PROVE  \E state : RequestMoved(q, state) /\ TakesLock(q, state)
<1>1. PICK v \in Versions :
        \/ BeginUpdate(q, v) \/ BeginReplace(q, v) \/ BeginSubmit(q, v)
        \/ \E kind \in {"request_changes", "approve"} : BeginReview(q, kind, v)
        \/ BeginPublish(q, v) \/ BeginWithdraw(q, v) \/ BeginArchive(q, v)
        \/ BeginSuccessor(q, v)
  BY DEF Begin
<1>2. request[q].pc = "idle"
  BY <1>1 DEF BeginUpdate, BeginReplace, BeginSubmit, BeginReview, BeginPublish, BeginWithdraw,
              BeginArchive, BeginSuccessor, Begins
<1>3. CASE BeginUpdate(q, v)
  BY <1>2, <1>3, ReadingTakes DEF BeginUpdate, Edits
<1>4. CASE BeginReplace(q, v)
  BY <1>2, <1>4, ReadingTakes DEF BeginReplace, Edits
<1>5. CASE BeginSubmit(q, v)
  BY <1>2, <1>5, ReadingTakes DEF BeginSubmit, Transitions
<1>6. ASSUME NEW kind \in {"request_changes", "approve"}, BeginReview(q, kind, v)
      PROVE  \E state : RequestMoved(q, state) /\ TakesLock(q, state)
  <2>1. PICK a \in Actors : Goes(q, [Reading(kind, v) EXCEPT !.actor = a])
    BY <1>6 DEF BeginReview
  <2>. QED BY <1>2, <2>1, ReadingTakes DEF Transitions
<1>7. CASE BeginPublish(q, v)
  BY <1>2, <1>7, ReadingTakes DEF BeginPublish, Transitions
<1>8. CASE BeginWithdraw(q, v)
  BY <1>2, <1>8, ReadingTakes DEF BeginWithdraw, Transitions
<1>9. CASE BeginArchive(q, v)
  BY <1>2, <1>9, ReadingTakes DEF BeginArchive, Transitions
<1>10. CASE BeginSuccessor(q, v)
  BY <1>2, <1>10, ReadingTakes DEF BeginSuccessor
<1>. QED BY <1>1, <1>3, <1>4, <1>5, <1>6, <1>7, <1>8, <1>9, <1>10

LEMMA LockTakes ==
    ASSUME IndInv, NEW q \in Requests, Lock(q)
    PROVE  \E state : RequestMoved(q, state) /\ TakesLock(q, state)
<1>0. request[q] \in RequestStates /\ TypeOK
  BY DEF IndInv, TypeOK
<1>1. CASE LockVersion(q)
  <2>. DEFINE state == [request[q] EXCEPT !.pc = "source", !.locked = TRUE]
  <2>1. /\ state \in RequestStates /\ state.pc = "source" /\ state.locked
        /\ state.kind = request[q].kind /\ state.version = request[q].version
    BY <1>0 DEF RequestStates
  <2>2. Goes(q, state) /\ request[q].pc = "version" /\ VersionFree(q, request[q].version)
    BY <1>1 DEF LockVersion
  <2>. HIDE DEF state
  <2>. QED BY <1>0, <2>1, <2>2, GoesMoves DEF TakesLock
<1>2. CASE LockSource(q)
  <2>. DEFINE state == [request[q] EXCEPT !.pc = "read"]
  <2>1. /\ state \in RequestStates /\ state.pc = "read" /\ state.locked = request[q].locked
        /\ state.kind = request[q].kind /\ state.version = request[q].version
    BY <1>0 DEF RequestStates
  <2>2. Goes(q, state) /\ request[q].pc = "source" /\ SourceFree
    BY <1>2 DEF LockSource
  <2>. HIDE DEF state
  <2>. QED BY <1>0, <2>1, <2>2, GoesMoves DEF TakesLock
<1>3. CASE LockCourse(q)
  <2>. DEFINE state == [request[q] EXCEPT !.pc = "save"]
  <2>1. /\ state \in RequestStates /\ state.pc = "save" /\ state.locked = request[q].locked
        /\ state.kind = request[q].kind /\ state.version = request[q].version
    BY <1>0 DEF RequestStates
  <2>2. Goes(q, state) /\ request[q].pc = "read" /\ CourseFree(q)
    BY <1>3 DEF LockCourse
  <2>. HIDE DEF state
  <2>. QED BY <1>0, <2>1, <2>2, GoesMoves DEF TakesLock
<1>. QED BY <1>1, <1>2, <1>3 DEF Lock

LEMMA RequestTakes ==
    ASSUME IndInv, NEW q \in Requests,
           Begin(q) \/ Lock(q) \/ Finish(q) \/ DeadlockAbort(q) \/ Rollback(q)
    PROVE  \E state : RequestMoved(q, state) /\ TakesLock(q, state)
<1>1. CASE Finish(q) \/ DeadlockAbort(q) \/ Rollback(q)
  <2>1. Ends(q)
    BY <1>1 DEF Finish, DeadlockAbort, Rollback, SourceUnavailable, CourseChanged, StoreEdit,
                SaveTransition, SaveRefused, SaveSuccessor, Conflict
  <2>2. RequestMoved(q, Idle)
    BY <2>1, EndsMoves DEF IndInv
  <2>3. TakesLock(q, Idle)
    BY DEF TakesLock
  <2>. QED BY <2>2, <2>3, Zenon
<1>. QED BY <1>1, BeginTakes, LockTakes, Zenon

\* Beginning, locking and giving up change no row.
LEMMA RowsStay ==
    ASSUME NEW q \in Requests, Begin(q) \/ Lock(q) \/ DeadlockAbort(q) \/ Rollback(q)
    PROVE  UNCHANGED rows
<1>1. CASE Begin(q)
  BY <1>1, Zenon DEF Begin, BeginUpdate, BeginReplace, BeginSubmit, BeginReview, BeginPublish,
                     BeginWithdraw, BeginArchive, BeginSuccessor
<1>2. CASE Lock(q)
  BY <1>2, Zenon DEF Lock, LockVersion, LockSource, LockCourse
<1>3. CASE DeadlockAbort(q) \/ Rollback(q)
  BY <1>3, Zenon DEF DeadlockAbort, Rollback
<1>. QED BY <1>1, <1>2, <1>3, Zenon

\* A course is manual or generated for good; it is made while nobody asks for it.
LEMMA OriginStands ==
    ASSUME IndInv, Next
    PROVE  \/ course'.origin = course.origin
           \/ UNCHANGED request /\ \A q \in Requests : request[q].pc = "idle"
<1>0. course \in CourseRows
  BY DEF IndInv, TypeOK
<1>1. CASE CreateCourse \/ CreateAiAssistedDraft
  <2>1. UNCHANGED request /\ course.origin = "none"
    BY <1>1 DEF CreateCourse, CreateAiAssistedDraft, FirstVersion
  <2>2. \A q \in Requests : request[q].pc = "idle"
    BY <2>1 DEF IndInv, Started, RequestHolds
  <2>. QED BY <2>1, <2>2
<1>2. ASSUME NEW q \in Requests, SaveTransition(q)
      PROVE  course'.origin = course.origin
  <2>1. course' \in {course, [course EXCEPT !.shown = request[q].version, !.row = @ + 1],
                     [course EXCEPT !.shown = None, !.row = @ + 1]}
    BY <1>2 DEF SaveTransition
  <2>. QED BY <1>0, <2>1 DEF CourseRows
<1>3. ASSUME NEW q \in Requests, SaveSuccessor(q)
      PROVE  course'.origin = course.origin
  BY <1>0, <1>3 DEF SaveSuccessor, CourseRows
<1>4. ASSUME NEW q \in Requests, Begin(q) \/ Lock(q) \/ DeadlockAbort(q) \/ Rollback(q)
      PROVE  course'.origin = course.origin
  <2>1. UNCHANGED rows
    BY <1>4, RowsStay
  <2>. QED BY <2>1 DEF rows
<1>5. ASSUME NEW q \in Requests,
             \/ SourceUnavailable(q) \/ CourseChanged(q) \/ StoreEdit(q) \/ SaveRefused(q)
             \/ Conflict(q)
      PROVE  course'.origin = course.origin
  BY <1>5 DEF SourceUnavailable, CourseChanged, StoreEdit, SaveRefused, Conflict, rows
<1>6. CASE EndRight \/ LapseRight
  BY <1>6 DEF EndRight, LapseRight, rows
<1>. QED BY <1>1, <1>2, <1>3, <1>4, <1>5, <1>6 DEF Next, Finish

LEMMA TakesKeeps ==
    ASSUME IndInv, LockInv, NEW q \in Requests, NEW new, RequestMoved(q, new), TakesLock(q, new),
           course'.origin = course.origin
    PROVE  LockInv'
<1>0. /\ request'[q] = new
      /\ \A p \in Requests : p # q => request'[p] = request[p]
  BY DEF RequestMoved
<1>1. Idle.pc = "idle" /\ Idle.locked = FALSE
  BY DEF Idle
<1>2. \A p \in Requests : LocksGenerated(p)'
  <2>1. LocksGenerated(q)'
    BY <1>0, <1>1 DEF TakesLock, LockInv, LocksGenerated, AiAssisted
  <2>2. \A p \in Requests : p # q => LocksGenerated(p)'
    BY <1>0 DEF LockInv, LocksGenerated, AiAssisted
  <2>. QED BY <2>1, <2>2
<1>3. ASSUME NEW p \in Requests, p # q
      PROVE  /\ request'[q].locked /\ request[p].locked => request'[q].version # request[p].version
             /\ HoldsSource(q)' => ~HoldsSource(p)
             /\ request'[q].pc = "save" => request[p].pc # "save"
  BY <1>0, <1>1, <1>3
  DEF TakesLock, LockInv, LockedOnce, LocksGenerated, VersionFree, SourceFree, CourseFree, HoldsSource
<1>4. \A p \in Requests : p # q => (HoldsSource(p)' <=> HoldsSource(p))
  BY <1>0 DEF HoldsSource
<1>5. LockedOnce'
  BY <1>0, <1>3, <1>4 DEF LockInv, LockedOnce
<1>. QED BY <1>2, <1>5 DEF LockInv

LEMMA LockStep ==
    ASSUME IndInv, LockInv, [Next]_vars
    PROVE  LockInv'
<1>1. ASSUME UNCHANGED request, course'.origin = course.origin
      PROVE  LockInv'
  BY <1>1 DEF LockInv, LockedOnce, LocksGenerated, HoldsSource, AiAssisted
<1>2. ASSUME UNCHANGED request, \A q \in Requests : request[q].pc = "idle"
      PROVE  LockInv'
  BY <1>2 DEF LockInv, LockedOnce, LocksGenerated, HoldsSource
<1>3. CASE UNCHANGED vars
  BY <1>1, <1>3 DEF vars
<1>4. CASE EndRight \/ LapseRight \/ CreateCourse \/ CreateAiAssistedDraft
  <2>1. UNCHANGED request /\ Next
    BY <1>4 DEF EndRight, LapseRight, CreateCourse, CreateAiAssistedDraft, FirstVersion, Next
  <2>. QED BY <1>1, <1>2, <2>1, OriginStands
<1>5. ASSUME NEW q \in Requests,
             Begin(q) \/ Lock(q) \/ Finish(q) \/ DeadlockAbort(q) \/ Rollback(q)
      PROVE  LockInv'
  <2>1. Next
    BY <1>5 DEF Next
  <2>. QED BY <1>2, <1>5, <2>1, OriginStands, RequestTakes, TakesKeeps
<1>. QED BY <1>3, <1>4, <1>5 DEF Next

LEMMA LockStart == Init => LockInv
<1>1. Idle.pc = "idle" /\ Idle.locked = FALSE
  BY DEF Idle
<1>. QED BY <1>1 DEF Init, LockInv, LockedOnce, LocksGenerated, HoldsSource

\* Whose transition the trigger of the source's right refuses had that right in force when
\* it locked it, and holds it: no decision can have ended it.
LapseOnly(q) == SaveRefused(q) => right = "lapsed"

LEMMA RefusedLapsed ==
    ASSUME IndInv, LockInv, NEW q \in Requests
    PROVE  LapseOnly(q)
<1>. SUFFICES ASSUME SaveRefused(q)
              PROVE  right = "lapsed"
  BY DEF LapseOnly
<1>1. /\ request[q].pc \in {"read", "save"}
      /\ AiAssisted(request[q].kind)
      /\ right # "active"
  BY DEF SaveRefused, Ready, SourceGuarded, AiAssisted
<1>2. HoldsSource(q)
  BY <1>1 DEF LockInv, LocksGenerated, HoldsSource
<1>3. right # "ended" /\ right \in {"active", "ended", "lapsed"}
  BY <1>2 DEF IndInv, RightHeld, TypeOK
<1>. QED BY <1>1, <1>3

\* Requests of which each waits for one of them.
Circle(circle) == circle # {} /\ \A p \in circle : \E o \in circle : o \in Blockers(p)

\* CirclesAreGenerated: transactions wait for one another in a circle only where one
\* approves or publishes a version of a generated course, which it holds, and another
\* holds the course, to change the state of that same version or to succeed it.  The
\* requests for manual courses never do: all of them lock the course before the version.
CirclesAreGenerated ==
    \A circle \in SUBSET Requests : Circle(circle) =>
        /\ course.origin = "ai_assisted"
        /\ \E p, o \in circle :
              /\ request[p].locked /\ request[p].pc \in {"source", "read"}
              /\ request[p].kind \in {"approve", "publish"}
              /\ request[o].pc = "save" /\ ~request[o].locked
              /\ request[o].kind \notin {"approve", "publish"}
              /\ request[o].version = request[p].version

LEMMA CirclesShown ==
    ASSUME LockInv
    PROVE  CirclesAreGenerated
<1>. SUFFICES ASSUME NEW circle \in SUBSET Requests, Circle(circle)
              PROVE  /\ course.origin = "ai_assisted"
                     /\ \E p, o \in circle :
                           /\ request[p].locked /\ request[p].pc \in {"source", "read"}
                           /\ request[p].kind \in {"approve", "publish"}
                           /\ request[o].pc = "save" /\ ~request[o].locked
                           /\ request[o].kind \notin {"approve", "publish"}
                           /\ request[o].version = request[p].version
  BY DEF CirclesAreGenerated
<1>1. \A q \in Requests : LocksGenerated(q)
  BY DEF LockInv
\* One that holds its version waits for no other holder of it.
<1>2. ASSUME NEW q \in circle, NEW p \in circle, p \in Blockers(q)
      PROVE  \/ /\ request[q].pc \in {"version", "read", "save"} /\ ~request[q].locked
                /\ request[p].locked /\ request[p].version = request[q].version
             \/ request[q].pc = "source" /\ HoldsSource(p)
             \/ request[q].pc = "read" /\ request[p].pc = "save"
  BY <1>2 DEF Blockers, LockInv, LockedOnce
<1>3. ASSUME NEW q \in circle, request[q].locked
      PROVE  request[q].pc \in {"source", "read"} /\ \E o \in circle : request[o].pc = "save"
  <2>1. ASSUME NEW h \in circle, HoldsSource(h)
        PROVE  request[h].pc = "read" /\ \E o \in circle : request[o].pc = "save"
    <3>1. request[h].locked /\ request[h].pc # "source"
      BY <2>1 DEF HoldsSource
    <3>2. PICK o \in circle : o \in Blockers(h)
      BY DEF Circle
    <3>. QED BY <1>2, <3>1, <3>2
  <2>2. PICK o \in circle : o \in Blockers(q)
    BY DEF Circle
  <2>. QED BY <1>2, <1>3, <2>1, <2>2
<1>4. \E o \in circle : request[o].pc = "save"
  <2>1. PICK q \in circle : TRUE
    BY DEF Circle
  <2>2. PICK p \in circle : p \in Blockers(q)
    BY DEF Circle
  <2>3. request[p].locked \/ request[p].pc = "save"
    BY <1>2, <2>2 DEF HoldsSource
  <2>. QED BY <1>3, <2>3
<1>5. PICK o \in circle : request[o].pc = "save"
  BY <1>4
<1>6. PICK p \in circle : p \in Blockers(o)
  BY DEF Circle
<1>7. /\ ~request[o].locked /\ request[p].locked /\ request[p].version = request[o].version
      /\ request[p].pc \in {"source", "read"}
  BY <1>2, <1>3, <1>5, <1>6
<1>8. request[p].kind \in {"approve", "publish"} /\ course.origin = "ai_assisted"
  BY <1>1, <1>7 DEF LocksGenerated
<1>9. request[o].kind \notin {"approve", "publish"}
  BY <1>1, <1>5, <1>7, <1>8 DEF LocksGenerated, AiAssisted
<1>. QED BY <1>5, <1>7, <1>8, <1>9

-----------------------------------------------------------------------------
(* What a request writes over.                                              *)

\* Whoever changes a version that was there, or the course, replaces the row it decided
\* on, whatever other requests did since it was read without a lock.
CurrentVersion(v) ==
    Exists(v) /\ version'[v] # version[v] =>
        \E q \in Requests :
            /\ request[q].version = v /\ request[q].read = version[v]
            /\ request[q].kind \in {"publish", "withdraw"} => request[q].course = course
            /\ request'[q] = Idle

CurrentCourse ==
    course.origin # "none" /\ course' # course =>
        \E q \in Requests :
            /\ request[q].kind \in {"publish", "withdraw", "successor"}
            /\ request[q].course = course
            /\ request[q].read = version[request[q].version]
            /\ request'[q] = Idle

\* WritesAreCurrent: no request's write is lost under another's.
WritesAreCurrent == [][CurrentCourse /\ \A v \in Versions : CurrentVersion(v)]_vars

LEMMA SaveCurrent ==
    ASSUME IndInv, NEW q \in Requests, StoreEdit(q) \/ SaveTransition(q) \/ SaveSuccessor(q)
    PROVE  CurrentCourse /\ \A v \in Versions : CurrentVersion(v)
<1>1. /\ Ready(q) /\ Agrees(q)
      /\ Ends(q)
  BY DEF StoreEdit, SaveTransition, SaveSuccessor
<1>2. PICK v \in Versions :
        /\ v = request[q].version /\ request[q].read = version[v]
        /\ SameCourse(q) => request[q].course = course
        /\ Exists(v) /\ Decided(request[q], course.policy)
  BY <1>1, Compared DEF Agrees
<1>3. request'[q] = Idle
  BY <1>1, EndsMoves DEF IndInv, RequestMoved
<1>4. request[q].kind \in {"publish", "withdraw", "successor"} => request[q].course = course
  BY <1>1, <1>2 DEF Agrees
<1>5. version \in [Versions -> VersionRows]
  BY DEF IndInv, TypeOK
<1>6. \A w \in Versions : w # v /\ Exists(w) => version'[w] = version[w]
  <2>1. CASE StoreEdit(q)
    BY <1>2, <2>1, EditEffect DEF RowMoved
  <2>2. CASE SaveTransition(q)
    BY <1>2, <2>2, TransitionEffect DEF RowMoved
  <2>3. CASE SaveSuccessor(q)
    <3>1. PICK w \in Versions : ~Exists(w) /\ \E row : version' = [version EXCEPT ![w] = row]
      BY <2>3, Zenon DEF SaveSuccessor, NextNumber
    <3>. QED BY <1>5, <3>1
  <2>. QED BY <2>1, <2>2, <2>3, Zenon
<1>7. course' # course => request[q].kind \in {"publish", "withdraw", "successor"}
  BY DEF StoreEdit, SaveTransition, SaveSuccessor
<1>8. \A w \in Versions : CurrentVersion(w)
  BY <1>2, <1>3, <1>4, <1>6 DEF CurrentVersion
<1>9. CurrentCourse
  BY <1>2, <1>3, <1>4, <1>7 DEF CurrentCourse
<1>. QED BY <1>8, <1>9, Zenon

LEMMA StepCurrent ==
    ASSUME IndInv, [Next]_vars
    PROVE  CurrentCourse /\ \A v \in Versions : CurrentVersion(v)
<1>1. ASSUME UNCHANGED <<course, version>>
      PROVE  CurrentCourse /\ \A v \in Versions : CurrentVersion(v)
  BY <1>1 DEF CurrentCourse, CurrentVersion
<1>2. CASE CreateCourse \/ CreateAiAssistedDraft
  <2>1. course.origin = "none"
    BY <1>2 DEF CreateCourse, CreateAiAssistedDraft, FirstVersion
  <2>2. \A v \in Versions : ~Exists(v)
    BY <2>1 DEF IndInv, Started
  <2>. QED BY <2>1, <2>2 DEF CurrentCourse, CurrentVersion
<1>3. ASSUME NEW q \in Requests, Begin(q) \/ Lock(q) \/ DeadlockAbort(q) \/ Rollback(q)
      PROVE  UNCHANGED <<course, version>>
  <2>1. UNCHANGED rows
    BY <1>3, RowsStay
  <2>. QED BY <2>1 DEF rows
<1>4. ASSUME NEW q \in Requests, Finish(q)
      PROVE  CurrentCourse /\ \A v \in Versions : CurrentVersion(v)
  <2>1. CASE SourceUnavailable(q) \/ CourseChanged(q) \/ SaveRefused(q) \/ Conflict(q)
    BY <1>1, <2>1 DEF SourceUnavailable, CourseChanged, SaveRefused, Conflict, rows
  <2>. QED BY <1>4, <2>1, SaveCurrent DEF Finish
<1>5. CASE EndRight \/ LapseRight \/ UNCHANGED vars
  BY <1>1, <1>5 DEF EndRight, LapseRight, rows, vars
<1>. QED BY <1>1, <1>2, <1>3, <1>4, <1>5 DEF Next

-----------------------------------------------------------------------------
(* What learners see.                                                       *)

\* The rows again, as what CourseContract promises is read in PublicationProofs.
Reader == INSTANCE PublicationProofs WITH
    stage   <- [v \in Versions |-> Stage(v)],
    content <- [v \in Versions |-> version[v].hash],
    before  <- [v \in Versions |-> version[v].before],
    shown   <- course.shown

\* ReadersSeePublication: whoever looks at the published versions alone, as Learning
\* does, sees PublicationContract.
ReadersSeePublication == Reader!Publication!Spec

LEMMA SameContract == Contract!Spec => Reader!Spec
<1>1. Contract!Init => Reader!Init
  BY DEF Contract!Init, Reader!Init
<1>2. [Contract!Next]_(Contract!vars) => [Reader!Next]_(Reader!vars)
  BY ZenonT(60)
  DEF Contract!vars, Reader!vars, Contract!Next, Reader!Next, Contract!Moves, Reader!Moves,
         Contract!First, Reader!First, Contract!Succeed, Reader!Succeed,
         Contract!Edit, Reader!Edit, Contract!Submit, Reader!Submit,
         Contract!Return, Reader!Return, Contract!Approve, Reader!Approve,
         Contract!Publish, Reader!Publish, Contract!Withdraw, Reader!Withdraw,
         Contract!Archive, Reader!Archive, Contract!Settled, Reader!Settled
<1>. QED BY <1>1, <1>2, PTL DEF Contract!Spec, Reader!Spec

-----------------------------------------------------------------------------
(* The theorems.                                                            *)

\* The inductive invariant: what every row, and every request in progress, rests on.
THEOREM InvariantHolds == Spec => []IndInv
<1>1. Init => IndInv
  BY InitHolds
<1>2. IndInv /\ [Next]_vars => IndInv'
  BY StepHolds
<1>. QED BY <1>1, <1>2, PTL DEF Spec

\* Every row, and every request in progress, has the shape the schema gives it.
THEOREM TypeCorrect == Spec => []TypeOK
<1>1. IndInv => TypeOK
  BY DEF IndInv
<1>. QED BY InvariantHolds, <1>1, PTL

\* A version's hash is that of its rows, a version is published as it was submitted and
\* approved, by a reviewer the policy allows, and the course shows a published version.
THEOREM PublishedAsReviewed == Spec => []PublishedExactly
<1>1. IndInv => PublishedExactly
  BY DEF IndInv, PublishedExactly, HashTells, ApprovedAsReviewed, ShownIsPublished,
         SoundRow, Reviewed, Exists, Approved
<1>. QED BY InvariantHolds, <1>1, PTL

\* Replaying the published and withdrawn facts gives what the course shows.
THEOREM FactsTell == Spec => []FactsTellPointer
<1>1. IndInv => FactsTellPointer
  BY DEF IndInv
<1>. QED BY InvariantHolds, <1>1, PTL

\* No decision ends the right to a source under a request that approves or publishes what
\* was generated from it.
THEOREM RightStays == Spec => []RightHeld
<1>1. IndInv => RightHeld
  BY DEF IndInv
<1>. QED BY InvariantHolds, <1>1, PTL

\* What passed the comparison is refused neither by the triggers of versions, curricula and
\* the pointer nor by the unique index of successors; the trigger of the source's right
\* refuses an approval or a publication only if the right lapsed since it was locked.
THEOREM TriggersRefuseLapseOnly == Spec => TriggersAccept
<1>. DEFINE A == Accepts /\ \A q \in Requests : LapseOnly(q)
<1>1. Init => LockInv
  BY LockStart
<1>2. IndInv /\ LockInv /\ [Next]_vars => LockInv'
  BY LockStep
<1>3. IndInv /\ LockInv /\ [Next]_vars => [A]_vars
  BY StepHolds, RefusedLapsed
<1>4. [A]_vars <=>
        [/\ \A v \in Versions : VersionTriggerAllows(version[v], version'[v])
         /\ PointerTriggerAllows(course', version')
         /\ \A v, w \in Versions :
               version'[v].before = version'[w].before /\ v # w => version'[v].before = None
         /\ \A q \in Requests : SaveRefused(q) => right = "lapsed"]_vars
  BY Zenon DEF Accepts, LapseOnly
<1>. HIDE DEF A
<1>. QED BY InvariantHolds, <1>1, <1>2, <1>3, <1>4, PTL DEF Spec, TriggersAccept

\* Whoever sees the hashes, the states and the pointer alone sees CourseContract, however
\* many requests author, review and publish at once.
THEOREM CoursesImplementContract == Spec => ImplementsContract
<1>1. Init => Contract!Init
  BY InitHolds
<1>2. IndInv /\ [Next]_vars => [Contract!Next]_(Contract!vars)
  BY StepHolds DEF Maps
<1>. QED BY InvariantHolds, <1>1, <1>2, PTL DEF Spec, ImplementsContract, Contract!Spec

\* Requests wait for one another in a circle, of which the database has to abort one, only
\* over a version of a generated course: manual courses never deadlock.
THEOREM DeadlocksAreOfGenerated == Spec => []CirclesAreGenerated
<1>1. Init => LockInv
  BY LockStart
<1>2. IndInv /\ LockInv /\ [Next]_vars => LockInv'
  BY LockStep
<1>3. LockInv => CirclesAreGenerated
  BY CirclesShown
<1>. QED BY <1>1, <1>2, <1>3, InvariantHolds, PTL DEF Spec

\* Every write replaces the row the request decided on, however many requests decide on
\* the same row at once.
THEOREM NoLostWrites == Spec => WritesAreCurrent
<1>. DEFINE A == CurrentCourse /\ \A v \in Versions : CurrentVersion(v)
<1>1. IndInv /\ [Next]_vars => [A]_vars
  BY StepCurrent
<1>. HIDE DEF A
<1>2. Spec => [][A]_vars
  BY <1>1, InvariantHolds, PTL DEF Spec
<1>. QED BY <1>2 DEF WritesAreCurrent, A

\* From the requests, rows and locks of the authors to what a learner relies on: a version
\* says the same from its publication on, and the course shows one that is published.
THEOREM LearnersSee == Spec => ReadersSeePublication
  BY CoursesImplementContract, SameContract, Reader!CoursesPublish, PTL
  DEF ImplementsContract, ReadersSeePublication

=============================================================================
