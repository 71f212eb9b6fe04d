-------------------------- MODULE CourseLifecycle --------------------------
(***************************************************************************)
(* One course, its versions and the requests that author, review and       *)
(* publish them (courses/services.py, courses/repositories.py and          *)
(* api/course_composition.py).                                             *)
(*                                                                         *)
(* A request is one READ COMMITTED transaction.  It reads the course and   *)
(* the version without a lock and decides on what it read; an approval or  *)
(* publication of a generated course then locks the version and the source *)
(* it was generated from; the repository locks the course, unless only the *)
(* version's content changes, and the version, compares, and writes.       *)
(* Every lock is held to the end of the transaction, and PostgreSQL ends   *)
(* one of a circle of waiting transactions.                                *)
(*                                                                         *)
(* A request whose checks refuse it leaves nothing behind, nor does one    *)
(* that an idempotency record or an existing successor answers: neither is *)
(* a step.                                                                 *)
(***************************************************************************)
EXTENDS Naturals, Sequences

CONSTANTS
    MaxVersions,    \* bound: versions of the course
    Requests,       \* requests in progress at a time
    Actors,         \* people; each is one principal with one membership
    Metas,          \* locale, title and description of a version
    Curricula,      \* sections, lessons and blocks of a version
    Empty,          \* the curriculum of a course created by hand
    Policies,       \* reviewer policies a course may be created with
    Room,           \* bound: the row up to which a version is edited or refused,
                    \* by its state
    None

\* A version is known by its version_number.
Versions == 1 .. MaxVersions

ASSUME BoundAssumption == MaxVersions \in Nat
ASSUME NoneAssumption == None \notin Versions \cup Actors \cup (Metas \X Curricula)
ASSUME PolicyAssumption ==
    Policies \subseteq {"self_review_allowed", "separate_reviewer_required"}
ASSUME EmptyAssumption == Empty \in Curricula

VARIABLES
    right,          \* the generate authorization of the source
    course,         \* the Course row
    version,        \* the CourseVersion rows
    published,      \* the course.version.published.v1 and withdrawn.v1 facts
    request         \* the transactions in progress

vars == <<right, course, version, published, request>>

-----------------------------------------------------------------------------
Hashes == Metas \X Curricula

\* canonical_content_hash: two contents share a hash only if they are the same.
Hash(meta, curriculum) == <<meta, curriculum>>

\* validate_complete_course
Complete(curriculum) == curriculum # Empty

Edits       == {"update", "replace"}
Transitions == {"submit_review", "request_changes", "approve", "publish", "withdraw", "archive"}
Mutable     == {"draft", "changes_requested"}
Approved    == {"approved", "published", "withdrawn", "archived"}
Statuses    == Mutable \cup Approved \cup {"under_review"}

\* _TRANSITIONS
Sources(kind) ==
    CASE kind = "submit_review"                 -> Mutable
      [] kind \in {"request_changes", "approve"} -> {"under_review"}
      [] kind = "publish"                       -> {"approved"}
      [] kind = "withdraw"                      -> {"published"}
      [] kind = "archive"                       -> {"withdrawn"}

Target(kind) ==
    CASE kind = "submit_review"   -> "under_review"
      [] kind = "request_changes" -> "changes_requested"
      [] kind = "approve"         -> "approved"
      [] kind = "publish"         -> "published"
      [] kind = "withdraw"        -> "withdrawn"
      [] kind = "archive"         -> "archived"

Reviews ==
    [decision : {"none", "changes_requested", "approved"},
     hash     : Hashes \cup {None},
     reviewer : Actors \cup {None},
     self     : BOOLEAN]

VersionRows ==
    [status     : Statuses \cup {"none"},
     before     : Versions \cup {None},     \* predecessor_version_id
     meta       : Metas \cup {None},
     curriculum : Curricula \cup {None},
     hash       : Hashes \cup {None},       \* content_hash
     submitted  : Hashes \cup {None},
     approved   : Hashes \cup {None},
     row        : Nat,                      \* row_version
     submitter  : Actors \cup {None},       \* of its latest submitted fact
     review     : Reviews]                  \* its latest review

CourseRows ==
    [origin : {"none", "manual", "ai_assisted"},
     policy : Policies \cup {"none"},
     shown  : Versions \cup {None},         \* current_published_version_id
     row    : Nat]

Facts ==
    [kind : {"publish", "withdraw"}, version : Versions, previous : Versions \cup {None}]

\* pc is what a request asks for next: the version and the source of a generated
\* course, the course or, for an edit, the version (read), the version with the
\* course held (save).
RequestStates ==
    [pc         : {"idle", "version", "source", "read", "save"},
     kind       : Edits \cup Transitions \cup {"successor", "none"},
     version    : Versions \cup {None},
     actor      : Actors \cup {None},
     meta       : Metas \cup {None},        \* what an edit brings
     curriculum : Curricula \cup {None},
     read       : VersionRows,              \* what it decided on
     course     : CourseRows,
     locked     : BOOLEAN]                  \* it holds the version and the source

NoReview  == [decision |-> "none", hash |-> None, reviewer |-> None, self |-> FALSE]
NoVersion == [status |-> "none", before |-> None, meta |-> None,
              curriculum |-> None, hash |-> None, submitted |-> None, approved |-> None,
              row |-> 0, submitter |-> None, review |-> NoReview]
NoCourse  == [origin |-> "none", policy |-> "none", shown |-> None, row |-> 0]
Idle      == [pc |-> "idle", kind |-> "none", version |-> None, actor |-> None,
              meta |-> None, curriculum |-> None, read |-> NoVersion, course |-> NoCourse,
              locked |-> FALSE]

TypeOK ==
    /\ right \in {"active", "ended", "lapsed"}
    /\ course \in CourseRows
    /\ version \in [Versions -> VersionRows]
    /\ published \in Seq(Facts)
    /\ request \in [Requests -> RequestStates]

Init ==
    /\ right = "active"
    /\ course = NoCourse
    /\ version = [v \in Versions |-> NoVersion]
    /\ published = <<>>
    /\ request = [q \in Requests |-> Idle]

rows == <<course, version, published>>
Goes(q, state) == request' = [request EXCEPT ![q] = state]
Ends(q) == Goes(q, Idle)

Exists(v) == version[v].status # "none"

\* Max(version_number) + 1
NextNumber(w) == ~Exists(w) /\ \A v \in Versions : v < w => Exists(v)

-----------------------------------------------------------------------------
(* The generate authorization of the source, which generation_services ended *)
(* or the clock did: a decision on it locks the rows a publication holds.    *)

\* Mutant: the source is read without a lock.
SourceFreeAlways == TRUE

\* q holds the source document, its version and its generate authorization.
HoldsSource(q) == request[q].locked /\ request[q].pc # "source"
SourceFree == \A q \in Requests : ~HoldsSource(q)

EndRight ==
    /\ course.origin = "ai_assisted"
    /\ right = "active"
    /\ SourceFree
    /\ right' = "ended"
    /\ UNCHANGED <<rows, request>>

LapseRight ==
    /\ course.origin = "ai_assisted"
    /\ right = "active"
    /\ right' = "lapsed"
    /\ UNCHANGED <<rows, request>>

-----------------------------------------------------------------------------
(* A course and its first version, in one transaction                       *)

FirstVersion(origin, policy, v, meta, curriculum) ==
    /\ course.origin = "none"
    /\ NextNumber(v)
    /\ course' = [origin |-> origin, policy |-> policy, shown |-> None, row |-> 1]
    /\ version' = [version EXCEPT ![v] =
            [NoVersion EXCEPT !.status = "draft", !.meta = meta, !.curriculum = curriculum,
                              !.hash = Hash(meta, curriculum), !.row = 1]]
    /\ UNCHANGED <<right, published, request>>

CreateCourse ==
    \E policy \in Policies, v \in Versions, m \in Metas :
        FirstVersion("manual", policy, v, m, Empty)

\* Called by canonicalize_generation, which holds the right.
CreateAiAssistedDraft ==
    /\ right = "active"
    /\ \E policy \in Policies, v \in Versions, m \in Metas, k \in Curricula :
          Complete(k) /\ FirstVersion("ai_assisted", policy, v, m, k)

-----------------------------------------------------------------------------
(* The first read of a request and what it decides                          *)

AiAssisted(kind) == course.origin = "ai_assisted" /\ kind \in {"approve", "publish"}

\* Request q read version v, in one of these states, and goes on as kind.
Begins(q, kind, v, states) ==
    /\ request[q].pc = "idle"
    /\ version[v].status \in states

Reading(kind, v) ==
    [Idle EXCEPT !.pc = IF AiAssisted(kind) THEN "version" ELSE "read",
                 !.kind = kind, !.version = v, !.read = version[v], !.course = course]

BeginUpdate(q, v) ==
    /\ Begins(q, "update", v, Mutable)
    /\ version[v].row < Room[v][version[v].status]
    /\ \E m \in Metas : Goes(q, [Reading("update", v) EXCEPT !.meta = m])
    /\ UNCHANGED <<right, rows>>

BeginReplace(q, v) ==
    /\ Begins(q, "replace", v, Mutable)
    /\ version[v].row < Room[v][version[v].status]
    /\ \E k \in Curricula : Goes(q, [Reading("replace", v) EXCEPT !.curriculum = k])
    /\ UNCHANGED <<right, rows>>

BeginSubmit(q, v) ==
    /\ Begins(q, "submit_review", v, Sources("submit_review"))
    /\ Complete(version[v].curriculum)
    /\ \E a \in Actors : Goes(q, [Reading("submit_review", v) EXCEPT !.actor = a])
    /\ UNCHANGED <<right, rows>>

\* What authorize_transition and transition_version ask of a reviewer.
MayReview(v, a) ==
    /\ version[v].submitted = version[v].hash
    /\ version[v].submitter # None
    /\ ~(version[v].submitter = a /\ course.policy = "separate_reviewer_required")

BeginReview(q, kind, v) ==
    /\ Begins(q, kind, v, Sources(kind))
    /\ kind = "request_changes" => version[v].row < Room[v][version[v].status]
    /\ \E a \in Actors :
          /\ MayReview(v, a)
          /\ Goes(q, [Reading(kind, v) EXCEPT !.actor = a])
    /\ UNCHANGED <<right, rows>>

BeginPublish(q, v) ==
    /\ Begins(q, "publish", v, Sources("publish"))
    /\ version[v].submitted = version[v].hash
    /\ version[v].approved = version[v].hash
    /\ Goes(q, Reading("publish", v))
    /\ UNCHANGED <<right, rows>>

\* Mutant: any published version can be withdrawn.
BeginWithdrawAny(q, v) ==
    /\ Begins(q, "withdraw", v, Sources("withdraw"))
    /\ Goes(q, Reading("withdraw", v))
    /\ UNCHANGED <<right, rows>>

BeginWithdraw(q, v) ==
    /\ Begins(q, "withdraw", v, Sources("withdraw"))
    /\ course.shown = v
    /\ Goes(q, Reading("withdraw", v))
    /\ UNCHANGED <<right, rows>>

BeginArchive(q, v) ==
    /\ Begins(q, "archive", v, Sources("archive"))
    /\ Goes(q, Reading("archive", v))
    /\ UNCHANGED <<right, rows>>

NoSuccessor(v) == \A w \in Versions : version[w].before # v

BeginSuccessor(q, v) ==
    /\ Begins(q, "successor", v, Approved)
    /\ NoSuccessor(v)
    /\ \E w \in Versions : ~Exists(w)
    /\ Goes(q, Reading("successor", v))
    /\ UNCHANGED <<right, rows>>

-----------------------------------------------------------------------------
(* lock_generated_course_publication                                        *)

\* No other request holds the row of version v.
VersionFree(q, v) ==
    \A p \in Requests \ {q} : ~(request[p].locked /\ request[p].version = v)

LockVersion(q) ==
    /\ request[q].pc = "version"
    /\ VersionFree(q, request[q].version)
    /\ Goes(q, [request[q] EXCEPT !.pc = "source", !.locked = TRUE])
    /\ UNCHANGED <<right, rows>>

LockSource(q) ==
    /\ request[q].pc = "source"
    /\ SourceFree
    /\ right = "active"
    /\ Goes(q, [request[q] EXCEPT !.pc = "read"])
    /\ UNCHANGED <<right, rows>>

SourceUnavailable(q) ==
    /\ request[q].pc = "source"
    /\ SourceFree
    /\ right # "active"
    /\ Ends(q)
    /\ UNCHANGED <<right, rows>>

-----------------------------------------------------------------------------
(* DjangoCourseRepository.save reads course and version a second time, to    *)
(* choose what to lock and compare with.  What it reads is as old as the     *)
(* lock it takes next, or differs from it only if the comparison fails.      *)

NewStatus(q) ==
    IF request[q].kind \in Transitions THEN Target(request[q].kind) ELSE request[q].read.status

\* The course is locked to change a version's status, or to make a successor.
NeedsCourse(q) ==
    \/ request[q].kind = "successor"
    \/ version[request[q].version].status # NewStatus(q)

\* The second read finds that the course changed, and the request is none that
\* changes the course (_save_transition).
CourseChanged(q) ==
    /\ request[q].pc = "read"
    /\ request[q].kind \notin {"publish", "withdraw", "successor"}
    /\ NeedsCourse(q)
    /\ course # request[q].course
    /\ Ends(q)
    /\ UNCHANGED <<right, rows>>

\* No other request holds the course's row.
CourseFree(q) == \A p \in Requests \ {q} : request[p].pc # "save"

LockCourse(q) ==
    /\ request[q].pc = "read"
    /\ NeedsCourse(q)
    /\ CourseFree(q)
    /\ Goes(q, [request[q] EXCEPT !.pc = "save"])
    /\ UNCHANGED <<right, rows>>

-----------------------------------------------------------------------------
(* CourseRepository: the version is locked, compared and written            *)

\* Mutant: the version's row is not compared.
SameRowAnyway(q) == TRUE

\* The version is in the row the client named, that of the first read.
SameRow(q) == version[request[q].version].row = request[q].read.row

\* Mutant: the course's row is not compared.
SameCourseAnyway(q) == TRUE

\* The course is in the row the client named.
SameCourse(q) == course.row = request[q].course.row

\* Mutant: the status is compared in place of the row.
AgreesOnStatus(q) ==
    /\ version[request[q].version].status = request[q].read.status
    /\ request[q].kind \in {"publish", "withdraw", "successor"} => SameCourse(q)
    /\ request[q].kind = "successor" => NoSuccessor(request[q].version)

\* The comparisons; status, hash and pointer are compared too, and are those of
\* their rows.
Agrees(q) ==
    /\ SameRow(q)
    /\ request[q].kind \in {"publish", "withdraw", "successor"} => SameCourse(q)
    /\ request[q].kind = "successor" => NoSuccessor(request[q].version)

\* q has the last of its locks.
Ready(q) ==
    /\ VersionFree(q, request[q].version)
    /\ \/ request[q].pc = "save"
       \/ request[q].pc = "read" /\ ~NeedsCourse(q)

StoreEdit(q) ==
    LET v    == request[q].version
        meta == IF request[q].kind = "update" THEN request[q].meta ELSE request[q].read.meta
        curriculum == IF request[q].kind = "replace" THEN request[q].curriculum
                                                     ELSE request[q].read.curriculum
    IN
    /\ Ready(q)
    /\ request[q].kind \in Edits
    /\ Agrees(q)
    /\ version' = [version EXCEPT
          ![v].meta       = IF request[q].kind = "update" THEN meta ELSE @,
          ![v].curriculum = IF request[q].kind = "replace" THEN curriculum ELSE @,
          ![v].hash       = Hash(meta, curriculum),
          ![v].submitted  = None,
          ![v].approved   = None,
          ![v].row        = @ + 1]
    /\ Ends(q)
    /\ UNCHANGED <<right, course, published>>

\* The hashes transition_version writes, from what it read first.
Submitted(q) ==
    IF request[q].kind = "submit_review" THEN request[q].read.hash ELSE request[q].read.submitted
ApprovedHash(q) ==
    CASE request[q].kind = "submit_review" -> None
      [] request[q].kind = "approve"       -> request[q].read.hash
      [] OTHER                             -> request[q].read.approved

\* append_review: the decision on the hash that was read.
ReviewOf(q) ==
    [decision |-> IF request[q].kind = "approve" THEN "approved" ELSE "changes_requested",
     hash     |-> request[q].read.hash,
     reviewer |-> request[q].actor,
     self     |-> request[q].actor = request[q].read.submitter]

\* What guard_generated_course_publication asks as the row is written.
SourceGuarded(q) ==
    course.origin = "ai_assisted" /\ request[q].kind \in {"approve", "publish"}

SaveTransition(q) ==
    LET v == request[q].version
        kind == request[q].kind
    IN
    /\ Ready(q)
    /\ kind \in Transitions
    /\ Agrees(q)
    /\ SourceGuarded(q) => right = "active"
    /\ version' = [version EXCEPT
          ![v].status    = Target(kind),
          ![v].submitted = Submitted(q),
          ![v].approved  = ApprovedHash(q),
          ![v].row       = @ + 1,
          ![v].submitter = IF kind = "submit_review" THEN request[q].actor ELSE @,
          ![v].review    = IF kind \in {"request_changes", "approve"} THEN ReviewOf(q) ELSE @]
    /\ course' = CASE kind = "publish"  -> [course EXCEPT !.shown = v, !.row = @ + 1]
                   [] kind = "withdraw" -> [course EXCEPT !.shown = None, !.row = @ + 1]
                   [] OTHER             -> course
    /\ published' = CASE kind = "publish" ->
                           Append(published, [kind |-> kind, version |-> v,
                                              previous |-> request[q].course.shown])
                      [] kind = "withdraw" ->
                           Append(published, [kind |-> kind, version |-> v, previous |-> None])
                      [] OTHER -> published
    /\ Ends(q)
    /\ UNCHANGED right

\* The trigger refuses the write: the right lapsed since it was locked.
SaveRefused(q) ==
    /\ Ready(q)
    /\ request[q].kind \in Transitions
    /\ Agrees(q)
    /\ SourceGuarded(q)
    /\ right # "active"
    /\ Ends(q)
    /\ UNCHANGED <<right, rows>>

SaveSuccessor(q) ==
    LET v == request[q].version IN
    /\ Ready(q)
    /\ request[q].kind = "successor"
    /\ Agrees(q)
    /\ \E w \in Versions :
          /\ NextNumber(w)
          /\ version' = [version EXCEPT ![w] =
                [NoVersion EXCEPT !.status = "draft", !.before = v, !.row = 1,
                                  !.meta = version[v].meta, !.hash = version[v].hash,
                                  !.curriculum = version[v].curriculum]]
    /\ course' = [course EXCEPT !.row = @ + 1]
    /\ Ends(q)
    /\ UNCHANGED <<right, published>>

\* Mutant: on a conflict the transaction compares once more.
ConflictRetries(q) ==
    /\ Ready(q)
    /\ ~Agrees(q)
    /\ Goes(q, [request[q] EXCEPT !.pc = "read"])
    /\ UNCHANGED <<right, rows>>

\* What was read is no longer so; or another request made the successor.
Conflict(q) ==
    /\ Ready(q)
    /\ ~Agrees(q)
    /\ Ends(q)
    /\ UNCHANGED <<right, rows>>

-----------------------------------------------------------------------------
(* The requests that request q waits for *)
Blockers(q) ==
    {p \in Requests \ {q} :
        \/ /\ \/ request[q].pc \in {"version", "save"}
              \/ request[q].pc = "read" /\ ~NeedsCourse(q)
           /\ request[p].locked
           /\ request[p].version = request[q].version
        \/ request[q].pc = "source" /\ HoldsSource(p)
        \/ request[q].pc = "read" /\ NeedsCourse(q) /\ request[p].pc = "save"}

\* PostgreSQL aborts one of a circle of transactions that wait for one another.
DeadlockAbort(q) ==
    /\ \E circle \in SUBSET Requests :
          /\ q \in circle
          /\ \A p \in circle : \E o \in circle : o \in Blockers(p)
          /\ \A p \in circle : \E o \in circle : p \in Blockers(o)
    /\ Ends(q)
    /\ UNCHANGED <<right, rows>>

\* The process or its connection dies: the transaction is rolled back.
Rollback(q) ==
    /\ request[q].pc # "idle"
    /\ Ends(q)
    /\ UNCHANGED <<right, rows>>

-----------------------------------------------------------------------------
Begin(q) ==
    \E v \in Versions :
        \/ BeginUpdate(q, v)
        \/ BeginReplace(q, v)
        \/ BeginSubmit(q, v)
        \/ \E kind \in {"request_changes", "approve"} : BeginReview(q, kind, v)
        \/ BeginPublish(q, v)
        \/ BeginWithdraw(q, v)
        \/ BeginArchive(q, v)
        \/ BeginSuccessor(q, v)

Lock(q) == LockVersion(q) \/ LockSource(q) \/ LockCourse(q)

Finish(q) ==
    \/ SourceUnavailable(q)
    \/ CourseChanged(q)
    \/ StoreEdit(q)
    \/ SaveTransition(q)
    \/ SaveRefused(q)
    \/ SaveSuccessor(q)
    \/ Conflict(q)

Next ==
    \/ EndRight \/ LapseRight
    \/ CreateCourse \/ CreateAiAssistedDraft
    \/ \E q \in Requests : \/ Begin(q)
                           \/ Lock(q)
                           \/ Finish(q)
                           \/ DeadlockAbort(q)
                           \/ Rollback(q)

Spec == Init /\ [][Next]_vars

\* A request in progress goes on, a free row lock is granted to one that keeps
\* asking for it (PostgreSQL queues the waiting transactions), and one of a circle
\* is aborted (deadlock_timeout).
Fairness ==
    /\ \A q \in Requests : SF_vars(Lock(q) \/ Finish(q))
    /\ WF_vars(\E q \in Requests : DeadlockAbort(q))

FairSpec == Spec /\ Fairness

-----------------------------------------------------------------------------
(* What must always hold                                                    *)

\* The stored hash of a version is the hash of its stored rows: title edits and
\* curriculum replacements of several requests never mix.
HashTells == \A v \in Versions :
    Exists(v) => version[v].hash = Hash(version[v].meta, version[v].curriculum)

\* From its approval on, a version says what was submitted and what its reviewer
\* approved, a complete course; the review tells whether the reviewer was the
\* submitter, and where the policy separates them it was somebody else.
ApprovedAsReviewed == \A v \in Versions :
    version[v].status \in Approved =>
        LET row == version[v] IN
        /\ row.submitted = row.hash /\ row.approved = row.hash
        /\ row.review.decision = "approved" /\ row.review.hash = row.hash
        /\ row.review.self = (row.review.reviewer = row.submitter)
        /\ course.policy = "separate_reviewer_required" => ~row.review.self
        /\ Complete(row.curriculum)

\* PublishedExactly: the two above, and the course shows a published version.
PublishedExactly ==
    /\ HashTells
    /\ ApprovedAsReviewed
    /\ course.shown # None => version[course.shown].status = "published"

\* What the first n publication facts say the course shows.
Told(n) ==
    IF n > 0 /\ published[n].kind = "publish" THEN published[n].version ELSE None

\* FactsTellPointer: replaying the published and withdrawn facts gives the pointer
\* of the course; each published fact names the version it took the place of, as
\* the fact was made from a read without a lock, and each withdrawn fact the
\* version that was shown.
FactsTellPointer ==
    /\ course.shown = Told(Len(published))
    /\ \A n \in 1 .. Len(published) :
          Told(n - 1) = IF published[n].kind = "publish" THEN published[n].previous
                                                         ELSE published[n].version

\* RightHeld: no decision ends the right to the source of a generated course
\* while a request that found it in force is approving or publishing.
RightHeld == \A q \in Requests : HoldsSource(q) => right # "ended"

\* What enforce_course_version_mutability asks of an update of a version's row,
\* and enforce_mutable_course_child of its curriculum.
VersionTriggerAllows(old, new) ==
    /\ old.status # "none" => new.before = old.before
    /\ old.status \notin Mutable \cup {"none"} =>
          new.meta = old.meta /\ new.hash = old.hash /\ new.curriculum = old.curriculum
    /\ old.status \in {"published", "withdrawn", "archived"} =>
          new.submitted = old.submitted /\ new.approved = old.approved
    /\ old.status = "published" => new.status \in {"published", "withdrawn"}
    /\ old.status = "withdrawn" => new.status \in {"withdrawn", "archived"}
    /\ old.status = "archived"  => new.status = "archived"

\* What enforce_course_identity_and_pointer asks of the course's row, and the
\* version's trigger of a version that is no longer published.
PointerTriggerAllows(row, versions) ==
    row.shown # None => versions[row.shown].status = "published"

\* TriggersAccept: what a request compared and wrote is never what the triggers of
\* versions, curricula and the course's pointer refuse, nor a second successor of a
\* version, which a unique index would; so that conflicts are reported as conflicts.
\* The trigger of the source's right, guard_generated_course_publication, asks at the
\* write what was asked at the lock, and refuses only where the clock has passed
\* valid_until in between: never because somebody decided to end the right.
TriggersAccept ==
    [][/\ \A v \in Versions : VersionTriggerAllows(version[v], version'[v])
       /\ PointerTriggerAllows(course', version')
       /\ \A v, w \in Versions :
             version'[v].before = version'[w].before /\ v # w => version'[v].before = None
       /\ \A q \in Requests : SaveRefused(q) => right = "lapsed"]_vars

\* RequestsSettle: every request ends, although approvals and publications of
\* generated courses lock the version first and all the others the course first.
RequestsSettle == \A q \in Requests : request[q].pc # "idle" ~> request[q].pc = "idle"

-----------------------------------------------------------------------------
(* The lifecycle implements CourseContract                                  *)

Stage(v) ==
    CASE version[v].status \in Mutable        -> "open"
      [] version[v].status = "under_review"   -> "sealed"
      [] version[v].status = "published"      -> "public"
      [] OTHER                                -> version[v].status

Contract == INSTANCE CourseContract WITH
    stage   <- [v \in Versions |-> Stage(v)],
    content <- [v \in Versions |-> version[v].hash],
    before  <- [v \in Versions |-> version[v].before],
    shown   <- course.shown

\* ImplementsContract: whoever looks at the hashes, the states and the pointer
\* alone sees CourseContract.
ImplementsContract == Contract!Spec

=============================================================================
