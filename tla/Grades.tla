------------------------------- MODULE Grades -------------------------------
(***************************************************************************)
(* Grades, their publication, appeals against them and the audit log       *)
(* (services/academic/app/routers/grades.py, models/grades.py).            *)
(*                                                                         *)
(* Nothing here is locked: a request loads the rows it needs, decides on   *)
(* them and commits.  A grade goes by its assessment and its student       *)
(* (uq_grades_assessment_student).  A request that types in a whole list   *)
(* of grades commits them together; its entries do not interact, so a list *)
(* of one stands for it.                                                   *)
(***************************************************************************)
EXTENDS Naturals, Sequences, FiniteSets

CONSTANTS Assessments, Students, Workers, None,
          Appeals,      \* identifiers of appeals, each used once
          Inputs,       \* scores that requests may send
          MaxScore      \* assessments.max_score

ASSUME ScoreAssumption == MaxScore \in Nat /\ Inputs \subseteq Nat
ASSUME NoneAssumption == None \notin Nat \cup Appeals /\ IsFiniteSet(Appeals)

VARIABLES
    created,     \* assessments, in the order of created_at
    score,       \* grades.score, None for a row that is not there
    published,   \* the grades that are published
    appeal,      \* grade_appeals: the grade and the status
    audit,       \* grade_audit_logs, per grade in the order of their commits
    work,        \* per worker: the request it serves
    origin,      \* history: the score last typed in, and the audit rows before it
    contested    \* history: grades two requests were at work on when one committed

gradeVars == <<created, score, published, appeal, audit, work, origin, contested>>

GradeIds == Assessments \X Students
Scores == 0..MaxScore
Open == {"submitted", "under_review"}
Statuses == Open \cup {"accepted", "rejected"}
Rows == [old : Scores, new : Scores]

\* loaded and status: the score and the appeal's status as the request found them.
Free == [step |-> "idle", grades |-> {}, loaded |-> None, new |-> None,
         appeal |-> None, status |-> "none"]
NoAppeal == [grades |-> {}, status |-> "none"]

Work == [step : {"idle", "enter", "publish", "appeal", "decide", "commit"},
         grades : SUBSET GradeIds, loaded : Scores \cup {None},
         new : Scores \cup {None}, appeal : Appeals \cup {None},
         status : Statuses \cup {"none"}]

GradesTypeOK ==
    /\ created \in Seq(Assessments)
    /\ score \in [GradeIds -> Scores \cup {None}]
    /\ published \subseteq GradeIds
    /\ appeal \in [Appeals -> [grades : SUBSET GradeIds, status : Statuses \cup {"none"}]]
    /\ audit \in [GradeIds -> Seq(Rows)]
    /\ work \in [Workers -> Work]
    /\ origin \in [GradeIds -> [score : Scores \cup {None}, rows : Nat]]
    /\ contested \subseteq GradeIds

GradesInit ==
    /\ created = <<>>
    /\ score = [g \in GradeIds |-> None]
    /\ published = {}
    /\ appeal = [p \in Appeals |-> NoAppeal]
    /\ audit = [g \in GradeIds |-> <<>>]
    /\ work = [w \in Workers |-> Free]
    /\ origin = [g \in GradeIds |-> [score |-> None, rows |-> 0]]
    /\ contested = {}

AppealsOf(g) == {p \in Appeals : appeal[p].grades = {g}}
Existing == {created[i] : i \in 1..Len(created)}
OpenOf(g) == {p \in AppealsOf(g) : appeal[p].status \in Open}

Begin(w, request) ==
    /\ work[w] = Free
    /\ work' = [work EXCEPT ![w] = request]
    /\ UNCHANGED <<created, score, published, appeal, audit, origin, contested>>

\* A request ends; while it commits to grade g, another one may be at work on g.
Commit(w, g) ==
    /\ work' = [work EXCEPT ![w] = Free]
    /\ contested' = IF \E v \in Workers \ {w} : g \in work[v].grades
                    THEN contested \cup {g} ELSE contested

-----------------------------------------------------------------------------
\* POST /assessments
CreateAssessment(a) ==
    /\ a \notin Existing
    /\ created' = Append(created, a)
    /\ UNCHANGED <<score, published, appeal, audit, work, origin, contested>>

\* Variant: the range is not checked.
LoadAnyEntry(w, g, s) ==
    /\ g[1] \in Existing
    /\ Begin(w, [Free EXCEPT !.step = "enter", !.grades = {g},
                     !.loaded = score[g], !.new = s])

\* POST /assessments/{id}/grades: the score's range is checked, then the row is
\* looked for.
LoadEntry(w, g, s) ==
    /\ g[1] \in Existing /\ s \in Scores
    /\ Begin(w, [Free EXCEPT !.step = "enter", !.grades = {g},
                     !.loaded = score[g], !.new = s])

\* The row is inserted, unless somebody else has (an integrity error), or its
\* score is updated; the ORM writes it only if it differs from the one loaded.
SaveEntry(w, g) ==
    LET new == work[w].new
        inserts == work[w].loaded = None
        fails == inserts /\ score[g] # None
    IN
    /\ work[w].step = "enter" /\ work[w].grades = {g}
    /\ score' = IF fails \/ new = work[w].loaded THEN score
                ELSE [score EXCEPT ![g] = new]
    /\ origin' = IF fails THEN origin
                 ELSE [origin EXCEPT ![g] = [score |-> new, rows |-> Len(audit[g])]]
    /\ Commit(w, g)
    /\ UNCHANGED <<created, published, appeal, audit>>

\* POST /assessments/{id}/publish: all grades of the assessment there are.
LoadUnpublished(w, a) ==
    Begin(w, [Free EXCEPT !.step = "publish",
                  !.grades = {g \in GradeIds : g[1] = a /\ score[g] # None}])

SavePublished(w) ==
    /\ work[w].step = "publish"
    /\ published' = published \cup work[w].grades
    /\ work' = [work EXCEPT ![w] = Free]
    /\ UNCHANGED <<created, score, appeal, audit, origin, contested>>

\* Variant: an appeal under review does not count as open.
CheckSubmitted(w, g) ==
    /\ g \in published
    /\ \A p \in AppealsOf(g) : appeal[p].status # "submitted"
    /\ Begin(w, [Free EXCEPT !.step = "appeal", !.grades = {g}])

\* POST /grades/{id}/appeals: the student's own grade is published (which it stays)
\* and has no open appeal; with two of them the query fails, which refuses as well.
CheckAppeal(w, g) ==
    /\ g \in published
    /\ OpenOf(g) = {}
    /\ Begin(w, [Free EXCEPT !.step = "appeal", !.grades = {g}])

InsertAppeal(w, g, p) ==
    /\ work[w].step = "appeal" /\ work[w].grades = {g}
    /\ appeal[p] = NoAppeal
    /\ appeal' = [appeal EXCEPT ![p] = [grades |-> {g}, status |-> "submitted"]]
    /\ Commit(w, g)
    /\ UNCHANGED <<created, score, published, audit, origin>>

\* POST /appeals/{id}/decision: the appeal is loaded first, then its grade.
LoadAppeal(w, p) ==
    /\ appeal[p] # NoAppeal
    /\ Begin(w, [Free EXCEPT !.step = "decide", !.grades = appeal[p].grades,
                     !.appeal = p, !.status = appeal[p].status])

LoadGrade(w, g) ==
    /\ work[w].step = "decide" /\ work[w].grades = {g}
    /\ work' = [work EXCEPT ![w].step = "commit", ![w].loaded = score[g]]
    /\ UNCHANGED <<created, score, published, appeal, audit, origin, contested>>

\* _VALID_TRANSITIONS
Allowed(from) ==
    CASE from = "submitted" -> {"under_review", "accepted", "rejected"}
      [] from = "under_review" -> {"accepted", "rejected"}
      [] OTHER -> {}

\* The decision, of what was loaded: the appeal is taken under review or rejected.
SaveReview(w, g, to) ==
    /\ work[w].step = "commit" /\ work[w].grades = {g}
    /\ to \in Allowed(work[w].status) /\ to # "accepted"
    /\ appeal' = [appeal EXCEPT ![work[w].appeal].status = to]
    /\ Commit(w, g)
    /\ UNCHANGED <<created, score, published, audit, origin>>

\* Variant: the row takes the old score after the new one was assigned.
SaveAcceptanceFirst(w, g, s) ==
    /\ work[w].step = "commit" /\ work[w].grades = {g}
    /\ "accepted" \in Allowed(work[w].status)
    /\ s \in Scores
    /\ score' = [score EXCEPT ![g] = s]
    /\ audit' = [audit EXCEPT ![g] = Append(@, [old |-> s, new |-> s])]
    /\ appeal' = [appeal EXCEPT ![work[w].appeal].status = "accepted"]
    /\ Commit(w, g)
    /\ UNCHANGED <<created, published, origin>>

\* It is accepted: a score that differs from the one loaded is corrected, with its
\* row in the audit log.
SaveAcceptance(w, g, s) ==
    LET old == work[w].loaded IN
    /\ work[w].step = "commit" /\ work[w].grades = {g}
    /\ "accepted" \in Allowed(work[w].status)
    /\ s \in Scores
    /\ score' = IF s = old THEN score ELSE [score EXCEPT ![g] = s]
    /\ audit' = IF s = old THEN audit
                ELSE [audit EXCEPT ![g] = Append(@, [old |-> old, new |-> s])]
    /\ appeal' = [appeal EXCEPT ![work[w].appeal].status = "accepted"]
    /\ Commit(w, g)
    /\ UNCHANGED <<created, published, origin>>

\* A request is refused, or its process or client goes away.
Abandon(w) ==
    /\ work[w] # Free
    /\ work' = [work EXCEPT ![w] = Free]
    /\ UNCHANGED <<created, score, published, appeal, audit, origin, contested>>

GradesStep(w) ==
    \/ \E a \in Assessments : LoadUnpublished(w, a)
    \/ \E p \in Appeals : LoadAppeal(w, p)
    \/ \E g \in GradeIds :
           \/ \E s \in Inputs : LoadEntry(w, g, s) \/ SaveAcceptance(w, g, s)
           \/ SaveEntry(w, g) \/ CheckAppeal(w, g) \/ LoadGrade(w, g)
           \/ \E p \in Appeals : InsertAppeal(w, g, p)
           \/ \E to \in Statuses : SaveReview(w, g, to)
    \/ SavePublished(w) \/ Abandon(w)

GradesNext ==
    \/ \E a \in Assessments : CreateAssessment(a)
    \/ \E w \in Workers : GradesStep(w)

GradesSpec == GradesInit /\ [][GradesNext]_gradeVars

-----------------------------------------------------------------------------
(* Properties *)

\* The audit rows written since the score was last typed in.
Since(g) == {i \in 1..Len(audit[g]) : i > origin[g].rows}

\* The audit log explains every score: its rows lead, one from the next, from the
\* score that was typed in to the score that stands, unless two requests were at
\* work on the grade at a time (decide_appeal writes score and row together, from
\* what it loaded).
LogExplainsScore ==
    \A g \in GradeIds \ contested :
        LET rows == audit[g]
            before(i) == IF i = origin[g].rows + 1 THEN origin[g].score ELSE rows[i - 1].new
        IN /\ \A i \in Since(g) : rows[i].old = before(i)
           /\ score[g] = before(Len(rows) + 1)

\* A grade has one open appeal at most, and every row of its audit log is due to an
\* accepted appeal of its own, unless two requests were at work on it at a time
\* (create_appeal, _VALID_TRANSITIONS).
OneAppealAtATime ==
    \A g \in GradeIds \ contested :
        /\ Cardinality(OpenOf(g)) <= 1
        /\ Len(audit[g]) <= Cardinality({p \in AppealsOf(g) : appeal[p].status = "accepted"})
=============================================================================
