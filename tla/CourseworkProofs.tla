-------------------------- MODULE CourseworkProofs --------------------------
(***************************************************************************)
(* Proofs about Coursework, alone and below Standing: its types, the audit *)
(* log and the appeals of a grade, the graph of prerequisites, what it     *)
(* means to be registered and, in Standing, to be on a list of students at *)
(* risk, for any number of students, courses, assessments, meetings and    *)
(* workers.                                                                *)
(***************************************************************************)
EXTENDS Standing, FiniteSetTheorems, TLAPS

USE ScoreAssumption, NoneAssumption, CourseAssumption, OfferingAssumption

-----------------------------------------------------------------------------
(* Types *)

\* Grades that somebody works on, other than to type them in, are there; so the old
\* score of an audit row is one.
Scored == {g \in GradeIds : score[g] # None}
SoundWork(r) ==
    /\ r.step \in {"publish", "appeal", "decide", "commit"} => r.grades \subseteq Scored
    /\ r.step = "enter" => r.new \in Scores
    /\ r.step = "commit" => r.loaded \in Scores
    /\ r.step \in {"decide", "commit"} =>
           /\ r.appeal \in Appeals /\ r.status # "none"
           /\ r.grades = appeal[r.appeal].grades /\ r.grades # {}
RowsExist ==
    /\ published \subseteq Scored
    /\ \A p \in Appeals :
           /\ appeal[p].grades \subseteq Scored
           /\ appeal[p].status = "none" <=> appeal[p].grades = {}
    /\ \A w \in Workers : SoundWork(work[w])

GInv == GradesTypeOK /\ RowsExist

LEMMA InitGInv == GradesInit => GInv
  BY DEF GradesInit, GInv, GradesTypeOK, RowsExist, SoundWork, Scored, Free, NoAppeal, Work, GradeIds

\* Work stays sound while grades stay and appeals keep theirs.
LEMMA SoundStays ==
  ASSUME Scored \subseteq Scored',
         \A p \in Appeals : appeal[p].grades # {} => appeal'[p].grades = appeal[p].grades,
         NEW r, SoundWork(r)
  PROVE  SoundWork(r)'
  BY DEF SoundWork

LEMMA Freed ==
  ASSUME GInv, NEW w \in Workers, work' = [work EXCEPT ![w] = Free],
         Scored \subseteq Scored',
         \A p \in Appeals : appeal[p].grades # {} => appeal'[p].grades = appeal[p].grades
  PROVE  work' \in [Workers -> Work] /\ \A v \in Workers : SoundWork(work[v])'
<1>1. Free \in Work /\ Free.step = "idle"
    BY DEF Free, Work
<1>2. work' \in [Workers -> Work]
    BY <1>1 DEF GInv, GradesTypeOK
<1>3. ASSUME NEW v \in Workers PROVE SoundWork(work[v])'
  <2>1. CASE v = w
    <3>1. work'[v] = Free
        BY <2>1 DEF GInv, GradesTypeOK
    <3> QED
        BY <3>1, <1>1 DEF SoundWork
  <2>2. CASE v # w
    <3>1. work'[v] = work[v] /\ SoundWork(work[v])
        BY <2>2 DEF GInv, GradesTypeOK, RowsExist
    <3>2. SoundWork(work[v])'
        BY <3>1 DEF SoundWork
    <3> QED
        BY <3>2
  <2> QED
      BY <2>1, <2>2
<1> QED
    BY <1>2, <1>3

LEMMA WorkBegins ==
  ASSUME GInv, NEW w \in Workers, NEW r \in Work, Begin(w, r), SoundWork(r)
  PROVE  GInv'
<1>1. /\ work' = [work EXCEPT ![w] = r]
      /\ UNCHANGED <<created, score, published, appeal, audit, origin, contested>>
    BY DEF Begin
<1>2. Scored' = Scored
    BY <1>1 DEF Scored
<1>3. work' \in [Workers -> Work]
    BY <1>1 DEF GInv, GradesTypeOK
<1>4. \A v \in Workers : SoundWork(work[v])'
    BY <1>1, <1>2 DEF GInv, GradesTypeOK, RowsExist, SoundWork
<1> QED
    BY <1>1, <1>2, <1>3, <1>4 DEF GInv, GradesTypeOK, RowsExist

\* An appeal's status is written.
LEMMA StatusSet ==
  ASSUME GInv, NEW q \in Appeals, appeal[q].grades # {}, NEW to \in Statuses,
         appeal' = [appeal EXCEPT ![q].status = to]
  PROVE  /\ appeal' \in [Appeals -> [grades : SUBSET GradeIds, status : Statuses \cup {"none"}]]
         /\ \A p \in Appeals : appeal'[p].grades = appeal[p].grades
         /\ \A p \in Appeals : appeal'[p].status = "none" <=> appeal[p].grades = {}
<1>1. appeal \in [Appeals -> [grades : SUBSET GradeIds, status : Statuses \cup {"none"}]]
    BY DEF GInv, GradesTypeOK
<1>2. appeal' \in [Appeals -> [grades : SUBSET GradeIds, status : Statuses \cup {"none"}]]
    BY <1>1
<1>3. /\ appeal'[q].status = to /\ appeal'[q].grades = appeal[q].grades
      /\ \A p \in Appeals \ {q} : appeal'[p] = appeal[p]
    BY <1>1
<1>4. to # "none"
    BY DEF Statuses, Open
<1> QED
    BY <1>2, <1>3, <1>4 DEF GInv, RowsExist

LEMMA GInvStep == GInv /\ GradesNext => GInv'
<1> SUFFICES ASSUME GInv, GradesNext PROVE GInv'
    OBVIOUS
<1> USE DEF GradeIds
<1>1. ASSUME NEW a \in Assessments, CreateAssessment(a) PROVE GInv'
    BY <1>1 DEF CreateAssessment, GInv, GradesTypeOK, RowsExist, SoundWork, Scored
<1>2. ASSUME NEW w \in Workers, NEW a \in Assessments, LoadUnpublished(w, a) PROVE GInv'
  <2> DEFINE r == [Free EXCEPT !.step = "publish",
                       !.grades = {g \in GradeIds : g[1] = a /\ score[g] # None}]
  <2>1. r \in Work /\ SoundWork(r)
      BY DEF Free, Work, SoundWork, Scored
  <2> QED
      BY <1>2, <2>1, WorkBegins DEF LoadUnpublished
<1>3. ASSUME NEW w \in Workers, NEW p \in Appeals, LoadAppeal(w, p) PROVE GInv'
  <2> DEFINE r == [Free EXCEPT !.step = "decide", !.grades = appeal[p].grades,
                       !.appeal = p, !.status = appeal[p].status]
  <2>1. appeal[p].grades \subseteq Scored /\ appeal[p].grades # {} /\ appeal[p].status # "none"
    <3>1. appeal[p] # NoAppeal /\ appeal[p] \in [grades : SUBSET GradeIds, status : Statuses \cup {"none"}]
        BY <1>3 DEF LoadAppeal, GInv, GradesTypeOK
    <3>2. appeal[p].grades # {} \/ appeal[p].status # "none"
        BY <3>1 DEF NoAppeal
    <3> QED
        BY <3>2 DEF GInv, RowsExist
  <2>2. r \in Work
      BY DEF Free, Work, GInv, GradesTypeOK
  <2>3. SoundWork(r)
      BY <2>1 DEF SoundWork, Free
  <2> QED
      BY <1>3, <2>2, <2>3, WorkBegins DEF LoadAppeal
<1>4. ASSUME NEW w \in Workers, NEW g \in GradeIds, NEW s \in Inputs, LoadEntry(w, g, s) PROVE GInv'
  <2> DEFINE r == [Free EXCEPT !.step = "enter", !.grades = {g}, !.loaded = score[g], !.new = s]
  <2>1. r \in Work /\ SoundWork(r)
      BY <1>4 DEF LoadEntry, Free, Work, SoundWork, GInv, GradesTypeOK
  <2> QED
      BY <1>4, <2>1, WorkBegins DEF LoadEntry
<1>5. ASSUME NEW w \in Workers, NEW g \in GradeIds, CheckAppeal(w, g) PROVE GInv'
  <2> DEFINE r == [Free EXCEPT !.step = "appeal", !.grades = {g}]
  <2>1. g \in Scored
      BY <1>5 DEF CheckAppeal, GInv, RowsExist
  <2>2. r \in Work /\ SoundWork(r)
      BY <2>1 DEF Free, Work, SoundWork
  <2> QED
      BY <1>5, <2>2, WorkBegins DEF CheckAppeal
<1>6. ASSUME NEW w \in Workers, NEW g \in GradeIds, NEW s \in Inputs, SaveAcceptance(w, g, s)
      PROVE GInv'
  <2>1. /\ work[w].step = "commit" /\ work[w].grades = {g} /\ s \in Scores
        /\ score' = IF s = work[w].loaded THEN score ELSE [score EXCEPT ![g] = s]
        /\ audit' = IF s = work[w].loaded THEN audit
                    ELSE [audit EXCEPT ![g] = Append(@, [old |-> work[w].loaded, new |-> s])]
        /\ appeal' = [appeal EXCEPT ![work[w].appeal].status = "accepted"]
        /\ work' = [work EXCEPT ![w] = Free]
        /\ contested' \in {contested, contested \cup {g}}
        /\ UNCHANGED <<created, published, origin>>
      BY <1>6, Zenon DEF SaveAcceptance, Commit
  <2>2. /\ work[w].loaded \in Scores /\ work[w].appeal \in Appeals
        /\ appeal[work[w].appeal].grades # {}
      BY <2>1 DEF GInv, RowsExist, SoundWork
  <2>3. score' \in [GradeIds -> Scores \cup {None}] /\ Scored \subseteq Scored'
      BY <2>1 DEF GInv, GradesTypeOK, Scored, Scores
  <2>4. /\ appeal' \in [Appeals -> [grades : SUBSET GradeIds, status : Statuses \cup {"none"}]]
        /\ \A p \in Appeals : appeal'[p].grades = appeal[p].grades
        /\ \A p \in Appeals : appeal'[p].status = "none" <=> appeal[p].grades = {}
      BY <2>1, <2>2, StatusSet, "accepted" \in Statuses DEF Statuses
  <2>5. audit' \in [GradeIds -> Seq(Rows)]
    <3> DEFINE row == [old |-> work[w].loaded, new |-> s]
    <3>1. row \in Rows /\ audit \in [GradeIds -> Seq(Rows)]
        BY <2>1, <2>2 DEF GInv, GradesTypeOK, Rows
    <3>2. audit' = audit \/ audit' = [audit EXCEPT ![g] = Append(@, row)]
        BY <2>1
    <3>3. Append(audit[g], row) \in Seq(Rows)
        BY <3>1
    <3> HIDE DEF row
    <3> QED
        BY <3>1, <3>2, <3>3
  <2>6. work' \in [Workers -> Work] /\ \A v \in Workers : SoundWork(work[v])'
      BY <2>1, <2>3, <2>4, Freed
  <2> QED
      BY <2>1, <2>3, <2>4, <2>5, <2>6 DEF GInv, GradesTypeOK, RowsExist
<1>7. ASSUME NEW w \in Workers, NEW g \in GradeIds, SaveEntry(w, g) PROVE GInv'
  <2>1. /\ work[w].step = "enter"
        /\ score' \in {score, [score EXCEPT ![g] = work[w].new]}
        /\ origin' \in {origin, [origin EXCEPT ![g] = [score |-> work[w].new, rows |-> Len(audit[g])]]}
        /\ work' = [work EXCEPT ![w] = Free]
        /\ contested' \in {contested, contested \cup {g}}
        /\ UNCHANGED <<created, published, appeal, audit>>
      BY <1>7, Zenon DEF SaveEntry, Commit
  <2>2. work[w].new \in Scores
      BY <2>1 DEF GInv, RowsExist, SoundWork
  <2>3. score' \in [GradeIds -> Scores \cup {None}] /\ Scored \subseteq Scored'
    <3>1. score' = score \/ score' = [score EXCEPT ![g] = work[w].new]
        BY <2>1
    <3>2. score \in [GradeIds -> Scores \cup {None}] /\ work[w].new # None
        BY <2>2 DEF GInv, GradesTypeOK, Scores
    <3> QED
        BY <3>1, <3>2, <2>2 DEF Scored
  <2>4. origin' \in [GradeIds -> [score : Scores \cup {None}, rows : Nat]]
    <3> DEFINE new == [score |-> work[w].new, rows |-> Len(audit[g])]
    <3>1. /\ origin' = origin \/ origin' = [origin EXCEPT ![g] = new]
          /\ origin \in [GradeIds -> [score : Scores \cup {None}, rows : Nat]]
        BY <2>1 DEF GInv, GradesTypeOK
    <3>2. new \in [score : Scores \cup {None}, rows : Nat]
        BY <2>2 DEF GInv, GradesTypeOK
    <3> HIDE DEF new
    <3> QED
        BY <3>1, <3>2
  <2>5. work' \in [Workers -> Work] /\ \A v \in Workers : SoundWork(work[v])'
      BY <2>1, <2>3, Freed
  <2> QED
      BY <2>1, <2>3, <2>4, <2>5 DEF GInv, GradesTypeOK, RowsExist
<1>8. ASSUME NEW w \in Workers, NEW g \in GradeIds, LoadGrade(w, g) PROVE GInv'
  <2>1. /\ work[w].step = "decide" /\ work[w].grades = {g}
        /\ work' = [work EXCEPT ![w].step = "commit", ![w].loaded = score[g]]
        /\ UNCHANGED <<created, score, published, appeal, audit, origin, contested>>
      BY <1>8 DEF LoadGrade
  <2>2. score[g] \in Scores
      BY <2>1 DEF GInv, GradesTypeOK, RowsExist, SoundWork, Scored
  <2>3. work' \in [Workers -> Work]
    <3>1. work \in [Workers -> Work] /\ work[w] \in Work
        BY DEF GInv, GradesTypeOK
    <3>2. [work[w] EXCEPT !.step = "commit", !.loaded = score[g]] \in Work
        BY <3>1, <2>2 DEF Work
    <3>3. work' = [work EXCEPT ![w] = [work[w] EXCEPT !.step = "commit", !.loaded = score[g]]]
        BY <2>1
    <3> QED
        BY <3>1, <3>2, <3>3
  <2>4. Scored' = Scored
      BY <2>1 DEF Scored
  <2>5. /\ \A v \in Workers \ {w} : work'[v] = work[v]
        /\ work'[w].step = "commit" /\ work'[w].loaded = score[g]
        /\ work'[w].grades = work[w].grades /\ work'[w].appeal = work[w].appeal
        /\ work'[w].status = work[w].status
      BY <2>1 DEF GInv, GradesTypeOK, Work
  <2>6. ASSUME NEW v \in Workers PROVE SoundWork(work[v])'
    <3>1. SoundWork(work[v])
        BY DEF GInv, RowsExist
    <3>2. appeal' = appeal
        BY <2>1
    <3>3. CASE v = w
        BY <3>1, <3>2, <3>3, <2>1, <2>2, <2>4, <2>5 DEF SoundWork
    <3>4. CASE v # w
        BY <3>1, <3>2, <3>4, <2>4, <2>5 DEF SoundWork
    <3> QED
        BY <3>3, <3>4
  <2> QED
      BY <2>1, <2>3, <2>4, <2>6 DEF GInv, GradesTypeOK, RowsExist
<1>9. ASSUME NEW w \in Workers, NEW g \in GradeIds, NEW p \in Appeals, InsertAppeal(w, g, p)
      PROVE GInv'
  <2>1. /\ work[w].step = "appeal" /\ work[w].grades = {g} /\ appeal[p] = NoAppeal
        /\ appeal' = [appeal EXCEPT ![p] = [grades |-> {g}, status |-> "submitted"]]
        /\ work' = [work EXCEPT ![w] = Free]
        /\ contested' \in {contested, contested \cup {g}}
        /\ UNCHANGED <<created, score, published, audit, origin>>
      BY <1>9, Zenon DEF InsertAppeal, Commit
  <2>2. g \in Scored /\ Scored' = Scored
      BY <2>1 DEF GInv, RowsExist, SoundWork, Scored
  <2>3. appeal' \in [Appeals -> [grades : SUBSET GradeIds, status : Statuses \cup {"none"}]]
      BY <2>1 DEF GInv, GradesTypeOK, Statuses, Open
  <2>4. \A q \in Appeals : appeal[q].grades # {} => appeal'[q].grades = appeal[q].grades
      BY <2>1 DEF GInv, GradesTypeOK, NoAppeal
  <2>5. \A q \in Appeals : /\ appeal'[q].grades \subseteq Scored
                            /\ appeal'[q].status = "none" <=> appeal'[q].grades = {}
      BY <2>1, <2>2 DEF GInv, GradesTypeOK, RowsExist
  <2>6. work' \in [Workers -> Work] /\ \A v \in Workers : SoundWork(work[v])'
      BY <2>1, <2>2, <2>4, Freed
  <2> QED
      BY <2>1, <2>2, <2>3, <2>5, <2>6 DEF GInv, GradesTypeOK, RowsExist
<1>10. ASSUME NEW w \in Workers, NEW g \in GradeIds, NEW to \in Statuses, SaveReview(w, g, to)
       PROVE GInv'
  <2>1. /\ work[w].step = "commit" /\ work[w].grades = {g}
        /\ appeal' = [appeal EXCEPT ![work[w].appeal].status = to]
        /\ work' = [work EXCEPT ![w] = Free]
        /\ contested' \in {contested, contested \cup {g}}
        /\ UNCHANGED <<created, score, published, audit, origin>>
      BY <1>10, Zenon DEF SaveReview, Commit
  <2>2. work[w].appeal \in Appeals /\ appeal[work[w].appeal].grades # {} /\ to # "none"
      BY <2>1 DEF GInv, RowsExist, SoundWork, Statuses, Open
  <2>3. /\ appeal' \in [Appeals -> [grades : SUBSET GradeIds, status : Statuses \cup {"none"}]]
        /\ \A p \in Appeals : appeal'[p].grades = appeal[p].grades
        /\ \A p \in Appeals : appeal'[p].status = "none" <=> appeal[p].grades = {}
      BY <2>1, <2>2, StatusSet
  <2>4. Scored' = Scored
      BY <2>1 DEF Scored
  <2>5. work' \in [Workers -> Work] /\ \A v \in Workers : SoundWork(work[v])'
      BY <2>1, <2>3, <2>4, Freed
  <2> QED
      BY <2>1, <2>3, <2>4, <2>5 DEF GInv, GradesTypeOK, RowsExist
<1>11. ASSUME NEW w \in Workers, SavePublished(w) \/ Abandon(w) PROVE GInv'
  <2>1. /\ work' = [work EXCEPT ![w] = Free]
        /\ UNCHANGED <<created, score, appeal, audit, origin, contested>>
        /\ \/ work[w].step = "publish" /\ published' = published \cup work[w].grades
           \/ published' = published
      BY <1>11 DEF SavePublished, Abandon
  <2>2. Scored' = Scored /\ published' \subseteq Scored
      BY <2>1 DEF Scored, GInv, RowsExist, SoundWork
  <2>3. work' \in [Workers -> Work] /\ \A v \in Workers : SoundWork(work[v])'
      BY <2>1, <2>2, Freed
  <2> QED
      BY <2>1, <2>2, <2>3 DEF GInv, GradesTypeOK, RowsExist, Scored
<1> QED
    BY <1>1, <1>2, <1>3, <1>4, <1>5, <1>6, <1>7, <1>8, <1>9, <1>10, <1>11 DEF GradesNext, GradesStep

\* A step of the grades, or none.
LEMMA GradesStay == GInv /\ UNCHANGED gradeVars => GInv'
  BY DEF gradeVars, GInv, GradesTypeOK, RowsExist, SoundWork, Scored

LEMMA GradesMove == [Next]_vars => GradesNext \/ UNCHANGED gradeVars
  BY DEF Next, vars, GradesNext

TInv == GInv /\ TypeOK

LEMMA InitTInv == Init => TInv
  BY InitGInv DEF Init, TInv, GInv, TypeOK, Task, NoTask, Edges, Seats

LEMMA TInvStep == TInv /\ [Next]_vars => TInv'
<1> SUFFICES ASSUME TInv, [Next]_vars PROVE TInv'
    OBVIOUS
<1> DEFINE CoursesTypeOK ==
        /\ catalog \subseteq Courses \cup Offerings
        /\ prereq \subseteq Edges /\ raced \subseteq Edges
        /\ registered \subseteq Seats
        /\ task \in [Workers -> Task]
        /\ owed \in [Seats -> SUBSET Courses]
<1>1. GInv'
    BY GInvStep, GradesStay, GradesMove DEF TInv
<1>2. everPassed' \subseteq Students \X Courses
    BY DEF TInv, TypeOK, Next, vars
<1>3. CoursesTypeOK'
  <2> USE DEF TInv, TypeOK
  <2>1. ASSUME NEW c \in Courses, CreateCourse(c) PROVE CoursesTypeOK'
      BY <2>1 DEF CreateCourse
  <2>2. ASSUME NEW o \in Offerings, CreateOffering(o) PROVE CoursesTypeOK'
      BY <2>2 DEF CreateOffering
  <2>3. ASSUME NEW w \in Workers, NEW r \in Task, Take(w, r) PROVE CoursesTypeOK'
      BY <2>3 DEF Take
  <2>4. ASSUME NEW w \in Workers, NEW c \in Courses, NEW d \in Courses, CheckCycle(w, c, d)
        PROVE  CoursesTypeOK'
    <3> DEFINE r == [NoTask EXCEPT !.step = "edge", !.edge = {<<c, d>>}, !.seen = prereq]
    <3>0. {<<c, d>>} \in SUBSET Edges /\ prereq \in SUBSET Edges
        BY DEF Edges
    <3>1. r \in Task
        BY <3>0 DEF NoTask, Task
    <3> QED
        BY <2>4, <3>1, <2>3 DEF CheckCycle
  <2>5. ASSUME NEW w \in Workers, NEW s \in Students, NEW o \in Offerings, LoadPrerequisites(w, s, o)
        PROVE  CoursesTypeOK'
    <3> DEFINE required == Required(prereq, {CourseOf[o]})
               r == [NoTask EXCEPT !.step = "seat", !.seat = {<<s, o>>}, !.todo = required,
                                   !.owed = required]
    <3>1. required \subseteq Courses
        BY DEF Required
    <3>2. r \in Task
        BY <3>1 DEF NoTask, Task, Seats
    <3> QED
        BY <2>5, <3>2, <2>3 DEF LoadPrerequisites
  <2>6. ASSUME NEW w \in Workers, NEW s \in Students, NEW c \in Courses, QueryPassed(w, s, c)
        PROVE  CoursesTypeOK'
      BY <2>6 DEF QueryPassed, Task
  <2>7. ASSUME NEW w \in Workers, InsertPrerequisite(w) PROVE CoursesTypeOK'
    <3>1. task[w].edge \subseteq Edges /\ NoTask \in Task
        BY DEF Task, NoTask
    <3> QED
        BY <2>7, <3>1 DEF InsertPrerequisite, Done
  <2>8. ASSUME NEW w \in Workers, NEW s \in Students, NEW o \in Offerings,
               InsertRegistration(w, <<s, o>>)
        PROVE  CoursesTypeOK'
    <3>1. task[w].owed \subseteq Courses /\ NoTask \in Task /\ <<s, o>> \in Seats
        BY DEF Task, NoTask, Seats
    <3> QED
        BY <2>8, <3>1 DEF InsertRegistration, Done
  <2>9. ASSUME NEW w \in Workers, GiveUp(w) PROVE CoursesTypeOK'
    <3>1. NoTask \in Task
        BY DEF Task, NoTask
    <3> QED
        BY <2>9, <3>1 DEF GiveUp, Done
  <2>10. CASE UNCHANGED courseVars
      BY <2>10 DEF courseVars
  <2> QED
      BY <2>1, <2>2, <2>4, <2>5, <2>6, <2>7, <2>8, <2>9, <2>10 DEF Next, CoursesStep, vars
<1> QED
    BY <1>1, <1>2, <1>3 DEF TInv, GInv, TypeOK

\* Every variable keeps its type: scores are within their range, whoever types them in
\* or corrects them, and an audit row tells the one score from the other.
THEOREM TypeCorrect == Spec => []TypeOK
<1>1. TInv => TypeOK
    BY DEF TInv
<1> QED
    BY <1>1, InitTInv, TInvStep, PTL DEF Spec

-----------------------------------------------------------------------------
(* The audit log *)

\* What explains the score at row i: what was typed in, or the row before.
Before(g, i) == IF i = origin[g].rows + 1 THEN origin[g].score ELSE audit[g][i - 1].new

\* Undisturbed work goes by the score that stands.
Fresh(g) ==
    \A w \in Workers : work[w].step \in {"enter", "commit"} /\ work[w].grades = {g}
        => work[w].loaded = score[g]
Explained(g) ==
    /\ origin[g].rows <= Len(audit[g])
    /\ \A i \in 1..Len(audit[g]) : i > origin[g].rows => audit[g][i].old = Before(g, i)
    /\ score[g] = Before(g, Len(audit[g]) + 1)

LInv == \A g \in GradeIds \ contested : Fresh(g) /\ Explained(g)

LEMMA InitLInv == GradesInit => LInv
  BY DEF GradesInit, LInv, Fresh, Explained, Before, Free

\* A grade that no request of others is at: nothing changes for it.
LEMMA LogStays ==
  ASSUME GInv, LInv, NEW g \in GradeIds \ contested,
         score'[g] = score[g], audit'[g] = audit[g], origin'[g] = origin[g],
         \A w \in Workers : work'[w].step \in {"enter", "commit"} /\ work'[w].grades = {g} =>
             work'[w] = work[w] \/ work'[w].loaded = score[g]
  PROVE  (Fresh(g) /\ Explained(g))'
<1>1. Fresh(g) /\ Explained(g)
    BY DEF LInv
<1>2. Fresh(g)'
    BY <1>1 DEF Fresh
<1>3. Explained(g)'
    BY <1>1 DEF Explained, Before
<1> QED
    BY <1>2, <1>3

LEMMA ContestedGrows == GradesNext => contested \subseteq contested'
<1> SUFFICES ASSUME GradesNext PROVE contested \subseteq contested'
    OBVIOUS
<1>1. ASSUME NEW w \in Workers, NEW g \in GradeIds, Commit(w, g) PROVE contested \subseteq contested'
    BY <1>1 DEF Commit
<1>2. CASE UNCHANGED contested
    BY <1>2
<1>3. ASSUME NEW a \in Assessments, CreateAssessment(a) PROVE UNCHANGED contested
    BY <1>3 DEF CreateAssessment
<1>4. ASSUME NEW w \in Workers, GradesStep(w)
      PROVE  UNCHANGED contested \/ \E g \in GradeIds : Commit(w, g)
    BY <1>4, Zenon DEF GradesStep, LoadUnpublished, LoadAppeal, Begin, LoadEntry, SaveAcceptance,
       SaveEntry, CheckAppeal, LoadGrade, InsertAppeal, SaveReview, SavePublished, Abandon
<1> QED
    BY <1>1, <1>2, <1>3, <1>4 DEF GradesNext

\* Who commits to a grade that stays undisturbed was alone at it.
LEMMA Alone ==
  ASSUME GInv, NEW w \in Workers, NEW g \in GradeIds, Commit(w, g), g \notin contested'
  PROVE  /\ \A v \in Workers \ {w} : g \notin work[v].grades /\ work'[v] = work[v]
         /\ work'[w] = Free
  BY DEF Commit, GInv, GradesTypeOK

LEMMA AloneIsFresh ==
  ASSUME GInv, NEW w \in Workers, NEW g \in GradeIds, Commit(w, g), g \notin contested'
  PROVE  Fresh(g)'
<1>1. /\ \A v \in Workers \ {w} : g \notin work[v].grades /\ work'[v] = work[v]
      /\ work'[w] = Free
    BY Alone
<1>2. \A v \in Workers : ~(work'[v].step \in {"enter", "commit"} /\ work'[v].grades = {g})
    BY <1>1 DEF Free
<1> QED
    BY <1>2 DEF Fresh

LEMMA LInvStep == GInv /\ LInv /\ GradesNext => LInv'
<1> SUFFICES ASSUME GInv, LInv, GradesNext, NEW g \in GradeIds, g \notin contested'
             PROVE  (Fresh(g) /\ Explained(g))'
    BY DEF LInv
<1> DEFINE Goal == (Fresh(g) /\ Explained(g))'
<1>0. g \notin contested
    BY ContestedGrows
<1>a. /\ GradesTypeOK /\ RowsExist /\ work \in [Workers -> Work]
       /\ audit \in [GradeIds -> Seq(Rows)] /\ audit[g] \in Seq(Rows) /\ Len(audit[g]) \in Nat
       /\ origin[g].rows \in Nat
    BY DEF GInv, GradesTypeOK
<1>1. ASSUME NEW a \in Assessments, CreateAssessment(a) PROVE Goal
    BY <1>0, <1>1, LogStays DEF CreateAssessment
<1>2. ASSUME NEW w \in Workers, NEW r \in Work, Begin(w, r),
             r.step = "enter" => r.grades # {g} \/ r.loaded = score[g], r.step # "commit"
      PROVE  Goal
    BY <1>0, <1>2, LogStays DEF Begin, GInv, GradesTypeOK
<1>3. ASSUME NEW w \in Workers, NEW h \in GradeIds, LoadGrade(w, h) PROVE Goal
  <2>1. /\ \A v \in Workers \ {w} : work'[v] = work[v]
        /\ work'[w].grades = {h} /\ work'[w].loaded = score[h]
      BY <1>3 DEF LoadGrade, Work, GInv, GradesTypeOK
  <2> QED
      BY <1>0, <1>3, <2>1, LogStays DEF LoadGrade
<1>4. ASSUME NEW w \in Workers, work' = [work EXCEPT ![w] = Free],
             score'[g] = score[g], audit'[g] = audit[g], origin'[g] = origin[g]
      PROVE  Goal
  <2>1. \A v \in Workers : work'[v] = work[v] \/ work'[v].step = "idle"
      BY <1>4 DEF Free, GInv, GradesTypeOK
  <2> QED
      BY <1>0, <1>4, <2>1, LogStays
<1>5. ASSUME NEW w \in Workers, SaveEntry(w, g) PROVE Goal
  <2>1. /\ work[w].step = "enter" /\ work[w].grades = {g} /\ Commit(w, g) /\ audit' = audit
      BY <1>5 DEF SaveEntry
  <2>2. work[w].loaded = score[g]
      BY <1>0, <2>1 DEF LInv, Fresh
  <2>3. /\ score'[g] = work[w].new
        /\ origin'[g] = [score |-> work[w].new, rows |-> Len(audit[g])]
      BY <1>5, <2>2 DEF SaveEntry, GInv, GradesTypeOK
  <2>4. Explained(g)'
      BY <1>a, <2>1, <2>3 DEF Explained, Before
  <2>5. Fresh(g)'
      BY <2>1, AloneIsFresh
  <2> QED
      BY <2>4, <2>5
<1>6. ASSUME NEW w \in Workers, NEW s \in Inputs, SaveAcceptance(w, g, s) PROVE Goal
  <2> DEFINE row == [old |-> work[w].loaded, new |-> s]
  <2>1. /\ work[w].step = "commit" /\ work[w].grades = {g} /\ Commit(w, g) /\ origin' = origin
        /\ s \in Scores
        /\ score' = IF s = work[w].loaded THEN score ELSE [score EXCEPT ![g] = s]
        /\ audit' = IF s = work[w].loaded THEN audit
                    ELSE [audit EXCEPT ![g] = Append(@, row)]
      BY <1>6 DEF SaveAcceptance
  <2>2. work[w].loaded = score[g] /\ Explained(g)
      BY <1>0, <2>1 DEF LInv, Fresh
  <2>3. Fresh(g)'
      BY <2>1, AloneIsFresh
  <2>4. CASE s = work[w].loaded
    <3>1. score'[g] = score[g] /\ audit'[g] = audit[g] /\ origin'[g] = origin[g]
        BY <2>1, <2>4
    <3> QED
        BY <2>2, <2>3, <3>1 DEF Explained, Before
  <2>5. CASE s # work[w].loaded
    <3>1. score'[g] = s /\ audit'[g] = Append(audit[g], row) /\ origin'[g] = origin[g]
        BY <2>1, <2>5 DEF GInv, GradesTypeOK
    <3>2. row.old = score[g] /\ row.new = s
        BY <2>2
    <3>3. row \in Rows /\ audit[g] \in Seq(Rows)
        BY <1>a, <2>1 DEF RowsExist, SoundWork, Rows, SaveAcceptance
    <3> HIDE DEF row
    <3>4. /\ Len(audit'[g]) = Len(audit[g]) + 1 /\ audit'[g][Len(audit[g]) + 1] = row
          /\ \A i \in 1..Len(audit[g]) : audit'[g][i] = audit[g][i]
        BY <3>1, <3>3
    <3>n. PICK n \in Nat : n = Len(audit[g])
        BY <1>a
    <3>5. origin[g].rows \in Nat /\ origin[g].rows <= n
        BY <1>a, <2>2, <3>n DEF Explained
    <3>6. Before(g, n + 2)' = s
      <4>1. n + 2 # origin[g].rows + 1 /\ n + 2 - 1 = n + 1
          BY <3>5
      <4> QED
          BY <3>n, <3>1, <3>2, <3>4, <4>1 DEF Before
    <3>7. \A i \in 1..(n + 1) : i > origin[g].rows => Before(g, i)' = Before(g, i)
      <4> SUFFICES ASSUME NEW i \in 1..(n + 1), i > origin[g].rows
                   PROVE  Before(g, i)' = Before(g, i)
          OBVIOUS
      <4>1. i = origin[g].rows + 1 \/ i - 1 \in 1..n
          BY <3>5
      <4>2. i - 1 \in 1..n => audit'[g][i - 1] = audit[g][i - 1]
          BY <3>n, <3>4
      <4> QED
          BY <3>1, <4>1, <4>2 DEF Before
    <3>8. \A i \in 1..(n + 1) : i > origin[g].rows => audit'[g][i].old = Before(g, i)'
      <4>1. \A i \in 1..(n + 1) : i = n + 1 \/ i \in 1..n
          BY <3>5
      <4> QED
          BY <2>2, <3>n, <3>2, <3>4, <3>7, <4>1 DEF Explained
    <3>9. Explained(g)'
      <4>1. origin[g].rows <= n + 1 /\ n + 1 + 1 = n + 2
          BY <3>5
      <4>2. origin'[g] = origin[g] /\ Len(audit'[g]) = n + 1 /\ score'[g] = s
          BY <3>n, <3>1, <3>4
      <4>3. score'[g] = Before(g, Len(audit[g]) + 1)'
          BY <3>6, <4>1, <4>2 DEF Before
      <4> QED
          BY <3>8, <4>1, <4>2, <4>3 DEF Explained
    <3> QED
        BY <2>3, <3>9
  <2> QED
      BY <2>4, <2>5
<1>7. ASSUME NEW w \in Workers, NEW a \in Assessments, LoadUnpublished(w, a) PROVE Goal
  <2> DEFINE r == [Free EXCEPT !.step = "publish",
                       !.grades = {x \in GradeIds : x[1] = a /\ score[x] # None}]
  <2>1. r \in Work /\ r.step = "publish"
      BY DEF Free, Work
  <2> QED
      BY <1>2, <1>7, <2>1 DEF LoadUnpublished
<1>8. ASSUME NEW w \in Workers, NEW p \in Appeals, LoadAppeal(w, p) PROVE Goal
  <2> DEFINE r == [Free EXCEPT !.step = "decide", !.grades = appeal[p].grades,
                       !.appeal = p, !.status = appeal[p].status]
  <2>1. r \in Work /\ r.step = "decide"
      BY DEF Free, Work, GInv, GradesTypeOK
  <2> QED
      BY <1>2, <1>8, <2>1 DEF LoadAppeal
<1>9. ASSUME NEW w \in Workers, NEW h \in GradeIds, NEW s \in Inputs, LoadEntry(w, h, s) PROVE Goal
  <2> DEFINE r == [Free EXCEPT !.step = "enter", !.grades = {h}, !.loaded = score[h], !.new = s]
  <2>1. r \in Work /\ r.step = "enter" /\ (r.grades # {g} \/ r.loaded = score[g])
      BY <1>9 DEF LoadEntry, Free, Work, GInv, GradesTypeOK
  <2> QED
      BY <1>2, <1>9, <2>1 DEF LoadEntry
<1>10. ASSUME NEW w \in Workers, NEW h \in GradeIds, CheckAppeal(w, h) PROVE Goal
  <2> DEFINE r == [Free EXCEPT !.step = "appeal", !.grades = {h}]
  <2>1. r \in Work /\ r.step = "appeal"
      BY DEF Free, Work
  <2> QED
      BY <1>2, <1>10, <2>1 DEF CheckAppeal
<1>11. ASSUME NEW w \in Workers, NEW h \in GradeIds, h # g,
              SaveEntry(w, h) \/ (\E s \in Inputs : SaveAcceptance(w, h, s))
       PROVE  Goal
    BY <1>4, <1>11 DEF SaveEntry, SaveAcceptance, Commit, GInv, GradesTypeOK
<1>12. ASSUME NEW w \in Workers, NEW h \in GradeIds,
              \/ \E p \in Appeals : InsertAppeal(w, h, p)
              \/ \E to \in Statuses : SaveReview(w, h, to)
       PROVE  Goal
    BY <1>4, <1>12 DEF InsertAppeal, SaveReview, Commit
<1>13. ASSUME NEW w \in Workers, SavePublished(w) \/ Abandon(w) PROVE Goal
    BY <1>4, <1>13 DEF SavePublished, Abandon
<1> QED
    BY <1>1, <1>3, <1>5, <1>6, <1>7, <1>8, <1>9, <1>10, <1>11, <1>12, <1>13 DEF GradesNext, GradesStep

\* Whatever is typed in, published and appealed, and however many requests there are, the
\* rows of the audit log lead from what was typed in to the score that stands, for every
\* grade but those that two requests were at work on at a time.
THEOREM LogExplains == Spec => []LogExplainsScore
<1>1. Init => GInv /\ LInv
    BY InitGInv, InitLInv DEF Init
<1>2. GInv /\ LInv /\ [Next]_vars => GInv' /\ LInv'
  <2>1. LInv /\ UNCHANGED gradeVars => LInv'
      BY DEF gradeVars, LInv, Fresh, Explained, Before
  <2> QED
      BY <2>1, GInvStep, LInvStep, GradesStay, GradesMove
<1>3. GInv /\ LInv => LogExplainsScore
    BY DEF GInv, GradesTypeOK, LInv, Explained, Before, LogExplainsScore, Since
<1> QED
    BY <1>1, <1>2, <1>3, PTL DEF Spec

-----------------------------------------------------------------------------
(* The graph of prerequisites *)

\* An edge whose check saw every edge there is, and perhaps more, closes no cycle:
\* what its requirement reaches is closed under requirements, and its course is not
\* in there.
LEMMA CheckedEdge ==
  ASSUME NEW E, NEW F, E \subseteq F, Acyclic(E),
         NEW c \in Courses, NEW d \in Courses, c # d, ~Reaches(F, d, c)
  PROVE  Acyclic(E \cup {<<c, d>>})
<1>1. PICK R \in SUBSET Courses :
          Required(F, {d}) \subseteq R /\ Required(F, R) \subseteq R /\ c \notin R
    BY DEF Reaches
<1> DEFINE Q == R \cup {d}
<1>2. \A b \in Q : Required(E, {b}) \subseteq Q
    BY <1>1 DEF Required
<1>3. ASSUME NEW S \in SUBSET Courses, S # {}
      PROVE  \E b \in S : Required(E \cup {<<c, d>>}, {b}) \cap S = {}
  <2>1. CASE S \cap Q # {}
    <3>1. PICK b \in S \cap Q : Required(E, {b}) \cap (S \cap Q) = {}
        BY <2>1, S \cap Q \in SUBSET Courses DEF Acyclic
    <3>2. Required(E, {b}) \cap S = {} /\ b # c
        BY <1>1, <1>2, <3>1
    <3> QED
        BY <3>1, <3>2 DEF Required
  <2>2. CASE S \cap Q = {}
    <3>1. PICK b \in S : Required(E, {b}) \cap S = {}
        BY <1>3 DEF Acyclic
    <3> QED
        BY <2>2, <3>1 DEF Required
  <2> QED
      BY <2>1, <2>2
<1> QED
    BY <1>3 DEF Acyclic

\* The requests that add an edge have seen no cycle; the edges that saw the others
\* make none.
Checked(r) ==
    r.step = "edge" =>
        \E c, d \in Courses : r.edge = {<<c, d>>} /\ c # d /\ ~Reaches(r.seen, d, c)
EInv == (\A w \in Workers : Checked(task[w])) /\ CyclesAreRaced

LEMMA InitEInv == Init => EInv
  BY DEF Init, EInv, Checked, NoTask, CyclesAreRaced, Acyclic, Required

\* A worker takes a request up, or ends it, while the edges stay.
LEMMA EdgesStay ==
  ASSUME TInv, EInv, NEW w \in Workers, NEW r, Checked(r), task' = [task EXCEPT ![w] = r],
         UNCHANGED <<prereq, raced>>
  PROVE  EInv'
<1>1. \A v \in Workers : task'[v] = r \/ task'[v] = task[v]
    BY DEF TInv, TypeOK
<1>2. \A v \in Workers : Checked(task[v])'
    BY <1>1 DEF EInv, Checked
<1>3. CyclesAreRaced'
    BY DEF EInv, CyclesAreRaced, Acyclic, Required
<1> QED
    BY <1>2, <1>3 DEF EInv

LEMMA EInvStep == TInv /\ EInv /\ [Next]_vars => EInv'
<1> SUFFICES ASSUME TInv, EInv, [Next]_vars PROVE EInv'
    OBVIOUS
<1>1. CASE UNCHANGED <<prereq, raced, task>>
    BY <1>1 DEF EInv, Checked, CyclesAreRaced, Acyclic, Required
<1>2. ASSUME NEW w \in Workers, NEW c \in Courses, NEW d \in Courses, CheckCycle(w, c, d)
      PROVE  EInv'
  <2> DEFINE r == [NoTask EXCEPT !.step = "edge", !.edge = {<<c, d>>}, !.seen = prereq]
  <2>1. r.edge = {<<c, d>>} /\ r.seen = prereq
      BY DEF NoTask
  <2>2. c # d /\ ~Reaches(prereq, d, c)
      BY <1>2 DEF CheckCycle
  <2>3. Checked(r)
      BY <2>1, <2>2 DEF Checked
  <2>4. task' = [task EXCEPT ![w] = r] /\ UNCHANGED <<prereq, raced>>
      BY <1>2 DEF CheckCycle, Take
  <2> QED
      BY <2>3, <2>4, EdgesStay
<1>3. ASSUME NEW w \in Workers, NEW s \in Students, NEW o \in Offerings, LoadPrerequisites(w, s, o)
      PROVE  EInv'
  <2> DEFINE required == Required(prereq, {CourseOf[o]})
             r == [NoTask EXCEPT !.step = "seat", !.seat = {<<s, o>>}, !.todo = required,
                                 !.owed = required]
  <2>1. Checked(r)
      BY DEF Checked, NoTask
  <2> QED
      BY <1>3, <2>1, EdgesStay DEF LoadPrerequisites, Take
<1>4. ASSUME NEW w \in Workers, NEW s \in Students, NEW c \in Courses, QueryPassed(w, s, c)
      PROVE  EInv'
  <2> DEFINE r == [task[w] EXCEPT !.todo = @ \ {c}]
  <2>1. r.step = "seat"
      BY <1>4 DEF QueryPassed, TInv, TypeOK, Task
  <2>2. task' = [task EXCEPT ![w] = r] /\ UNCHANGED <<prereq, raced>>
      BY <1>4 DEF QueryPassed
  <2> QED
      BY <2>1, <2>2, EdgesStay DEF Checked
<1>5. ASSUME NEW w \in Workers, Done(w), UNCHANGED <<prereq, raced>> PROVE EInv'
  <2>1. Checked(NoTask)
      BY DEF Checked, NoTask
  <2> QED
      BY <1>5, <2>1, EdgesStay DEF Done
<1>6. ASSUME NEW w \in Workers, InsertPrerequisite(w) PROVE EInv'
  <2>1. PICK c \in Courses, d \in Courses :
            task[w].edge = {<<c, d>>} /\ c # d /\ ~Reaches(task[w].seen, d, c)
      BY <1>6 DEF InsertPrerequisite, EInv, Checked
  <2>2. \A v \in Workers : Checked(task[v])'
    <3>1. \A v \in Workers : task'[v] = task[v] \/ task'[v] = NoTask
        BY <1>6 DEF InsertPrerequisite, Done, TInv, TypeOK
    <3>2. \A v \in Workers : task'[v].step = "edge" => task'[v] = task[v]
        BY <3>1 DEF NoTask
    <3> QED
        BY <3>2 DEF EInv, Checked
  <2>3. \E G : prereq' \ raced' \subseteq G /\ Acyclic(G)
    <3>1. CASE prereq = task[w].seen /\ raced' = raced
      <4>1. prereq' \ raced' \subseteq (prereq \ raced) \cup {<<c, d>>}
          BY <1>6, <2>1, <3>1 DEF InsertPrerequisite
      <4>2. Acyclic((prereq \ raced) \cup {<<c, d>>})
          BY <2>1, <3>1, CheckedEdge DEF EInv, CyclesAreRaced
      <4> QED
          BY <4>1, <4>2
    <3>2. CASE task[w].edge \subseteq prereq \/ raced' = raced \cup task[w].edge
      <4>1. prereq' \ raced' \subseteq prereq \ raced
          BY <1>6, <3>2 DEF InsertPrerequisite
      <4> QED
          BY <4>1 DEF EInv, CyclesAreRaced
    <3> QED
        BY <1>6, <3>1, <3>2 DEF InsertPrerequisite
  <2>4. CyclesAreRaced'
      BY <2>3 DEF CyclesAreRaced, Acyclic, Required
  <2> QED
      BY <2>2, <2>4 DEF EInv
<1> QED
    BY <1>1, <1>2, <1>3, <1>4, <1>5, <1>6
    DEF Next, CoursesStep, CreateCourse, CreateOffering, InsertRegistration, GiveUp, vars, courseVars

\* Whatever courses there are and however long the chains of their prerequisites: a cycle
\* goes through an edge that was inserted beside one its check had not seen.
THEOREM CyclesNeedARace == Spec => []CyclesAreRaced
<1>1. Init => TInv /\ EInv
    BY InitTInv, InitEInv
<1>2. TInv /\ EInv /\ [Next]_vars => TInv' /\ EInv'
    BY TInvStep, EInvStep
<1>3. EInv => CyclesAreRaced
    BY DEF EInv
<1> QED
    BY <1>1, <1>2, <1>3, PTL DEF Spec

-----------------------------------------------------------------------------
(* Registrations *)

\* What counts as passed is remembered, and so is what a request has found passed.
Remembered == \A s \in Students, c \in Courses : Passed(s, c) => <<s, c>> \in everPassed
Found(r) ==
    r.step = "seat" =>
        \A x \in r.seat, c \in r.owed : c \notin r.todo => <<x[1], c>> \in everPassed
PInv == Remembered /\ (\A w \in Workers : Found(task[w])) /\ RegisteredHadPassed

LEMMA InitPInv == Init => PInv
<1> SUFFICES ASSUME Init PROVE PInv
    OBVIOUS
<1>1. Remembered
    BY DEF Init, GradesInit, Remembered, Passed, PublishedIn
<1>2. \A w \in Workers : Found(task[w])
    BY DEF Init, Found, NoTask
<1> QED
    BY <1>1, <1>2 DEF Init, PInv, RegisteredHadPassed

LEMMA PassedStays ==
  ASSUME UNCHANGED gradeVars, NEW s \in Students, NEW c \in Courses
  PROVE  Passed(s, c)' <=> Passed(s, c)
<1>1. \A o \in Offerings : PublishedIn(s, o)' = PublishedIn(s, o)
    BY DEF gradeVars, PublishedIn
<1>2. \A o \in Offerings : Total(score, PublishedIn(s, o))' = Total(score, PublishedIn(s, o))
    BY DEF gradeVars, PublishedIn
<1> QED
    BY <1>1, <1>2 DEF gradeVars, Passed

LEMMA PInvStep == TInv /\ PInv /\ [Next]_vars => PInv'
<1> SUFFICES ASSUME TInv, PInv, [Next]_vars PROVE PInv'
    OBVIOUS
<1>1. everPassed \subseteq everPassed' /\ Remembered'
  <2>1. CASE Next
    <3>1. \A s \in Students, c \in Courses : Passed(s, c)' => <<s, c>> \in everPassed'
        BY <2>1 DEF Next
    <3> QED
        BY <2>1, <3>1 DEF Next, Remembered
  <2>2. CASE UNCHANGED vars
      BY <2>2, PassedStays DEF vars, PInv, Remembered
  <2> QED
      BY <2>1, <2>2
<1>2. ASSUME NEW w \in Workers, NEW r, Found(r), task' = [task EXCEPT ![w] = r]
      PROVE  \A v \in Workers : Found(task[v])'
  <2>1. \A v \in Workers : task'[v] = r \/ task'[v] = task[v]
      BY <1>2 DEF TInv, TypeOK
  <2> QED
      BY <1>1, <1>2, <2>1 DEF PInv, Found
<1>3. ASSUME UNCHANGED <<registered, owed>> PROVE RegisteredHadPassed'
    BY <1>1, <1>3 DEF PInv, RegisteredHadPassed
<1>4. CASE UNCHANGED <<task, registered, owed>>
  <2>1. \A v \in Workers : Found(task[v])'
      BY <1>1, <1>4 DEF PInv, Found
  <2> QED
      BY <1>1, <1>3, <1>4, <2>1 DEF PInv
<1>5. ASSUME NEW w \in Workers, NEW c \in Courses, NEW d \in Courses, CheckCycle(w, c, d)
      PROVE  PInv'
  <2> DEFINE r == [NoTask EXCEPT !.step = "edge", !.edge = {<<c, d>>}, !.seen = prereq]
  <2>1. Found(r)
      BY DEF Found, NoTask
  <2> QED
      BY <1>1, <1>2, <1>3, <1>5, <2>1 DEF CheckCycle, Take, PInv
<1>6. ASSUME NEW w \in Workers, NEW s \in Students, NEW o \in Offerings, LoadPrerequisites(w, s, o)
      PROVE  PInv'
  <2> DEFINE required == Required(prereq, {CourseOf[o]})
             r == [NoTask EXCEPT !.step = "seat", !.seat = {<<s, o>>}, !.todo = required,
                                 !.owed = required]
  <2>1. Found(r)
      BY DEF Found, NoTask
  <2> QED
      BY <1>1, <1>2, <1>3, <1>6, <2>1 DEF LoadPrerequisites, Take, PInv
<1>7. ASSUME NEW w \in Workers, NEW s \in Students, NEW c \in Courses, QueryPassed(w, s, c),
             UNCHANGED gradeVars
      PROVE  PInv'
  <2> DEFINE r == [task[w] EXCEPT !.todo = @ \ {c}]
  <2>1. /\ task[w].step = "seat" /\ Found(task[w])
        /\ \E o \in Offerings : task[w].seat = {<<s, o>>}
        /\ Passed(s, c)
        /\ task' = [task EXCEPT ![w] = r]
        /\ UNCHANGED <<registered, owed>>
      BY <1>7 DEF QueryPassed, PInv
  <2>2. <<s, c>> \in everPassed
      BY <2>1 DEF PInv, Remembered
  <2>3. /\ r.step = "seat" /\ r.seat = task[w].seat /\ r.owed = task[w].owed
        /\ r.todo = task[w].todo \ {c}
      BY <2>1 DEF TInv, TypeOK, Task
  <2>4. Found(r)
      BY <2>1, <2>2, <2>3 DEF Found
  <2> QED
      BY <1>1, <1>2, <1>3, <2>1, <2>4 DEF PInv
<1>8. ASSUME NEW w \in Workers, Done(w) PROVE \A v \in Workers : Found(task[v])'
  <2>1. Found(NoTask)
      BY DEF Found, NoTask
  <2> QED
      BY <1>2, <1>8, <2>1 DEF Done
<1>9. ASSUME NEW w \in Workers, InsertPrerequisite(w) \/ GiveUp(w) PROVE PInv'
    BY <1>1, <1>3, <1>8, <1>9 DEF InsertPrerequisite, GiveUp, PInv
<1>10. ASSUME NEW w \in Workers, NEW s \in Students, NEW o \in Offerings,
              InsertRegistration(w, <<s, o>>)
       PROVE  PInv'
  <2>1. /\ Found(task[w]) /\ task[w].step = "seat" /\ task[w].seat = {<<s, o>>} /\ task[w].todo = {}
        /\ registered' = registered \cup {<<s, o>>}
        /\ owed' = owed \/ owed' = [owed EXCEPT ![<<s, o>>] = task[w].owed]
        /\ <<s, o>> \in registered => owed' = owed
        /\ <<s, o>> \notin registered => owed' = [owed EXCEPT ![<<s, o>>] = task[w].owed]
      BY <1>10 DEF InsertRegistration, PInv
  <2>2. \A c \in task[w].owed : <<s, c>> \in everPassed
      BY <2>1 DEF Found
  <2>3. ASSUME NEW x \in registered', NEW c \in Courses, c \in owed'[x]
        PROVE  <<x[1], c>> \in everPassed
    <3>1. CASE x \in registered /\ owed'[x] = owed[x]
        BY <2>3, <3>1 DEF PInv, RegisteredHadPassed
    <3>2. CASE x = <<s, o>> /\ owed'[x] = task[w].owed
        BY <2>2, <2>3, <3>2
    <3>3. x \in Seats
        BY <2>1 DEF TInv, TypeOK, Seats
    <3> QED
        BY <2>1, <2>3, <3>1, <3>2, <3>3 DEF TInv, TypeOK
  <2>4. RegisteredHadPassed'
      BY <1>1, <2>3 DEF RegisteredHadPassed
  <2> QED
      BY <1>1, <1>8, <1>10, <2>4 DEF InsertRegistration, PInv
<1> QED
    BY <1>4, <1>5, <1>6, <1>7, <1>9, <1>10
    DEF Next, CoursesStep, CreateCourse, CreateOffering, vars, courseVars

\* Whoever types grades in, publishes and corrects them while the prerequisites are read
\* one by one: who is registered has at some time passed each of them.
THEOREM SeatsAreEarned == Spec => []RegisteredHadPassed
<1>1. Init => TInv /\ PInv
    BY InitTInv, InitPInv
<1>2. TInv /\ PInv /\ [Next]_vars => TInv' /\ PInv'
    BY TInvStep, PInvStep
<1>3. PInv => RegisteredHadPassed
    BY DEF PInv
<1> QED
    BY <1>1, <1>2, <1>3, PTL DEF Spec

-----------------------------------------------------------------------------
(* Appeals *)

AcceptedOf(g) == {p \in AppealsOf(g) : appeal[p].status = "accepted"}

\* What a request has read of the appeals of an undisturbed grade still holds, and each
\* row of the audit log has its accepted appeal.
Minds(g, r) ==
    /\ r.step = "appeal" /\ r.grades = {g} => OpenOf(g) = {}
    /\ r.step \in {"decide", "commit"} /\ r.grades = {g} => appeal[r.appeal].status = r.status
Single(g) == \A p, q \in OpenOf(g) : p = q
Accounted(g) == Len(audit[g]) <= Cardinality(AcceptedOf(g))
AInv ==
    \A g \in GradeIds \ contested :
        Single(g) /\ Accounted(g) /\ (\A w \in Workers : Minds(g, work[w]))

LEMMA FiniteAppeals ==
  ASSUME NEW S, S \subseteq Appeals
  PROVE  IsFiniteSet(S) /\ Cardinality(S) \in Nat
  BY FS_Subset, FS_CardinalityType

LEMMA InitAInv == GradesInit => AInv
<1> SUFFICES ASSUME GradesInit, NEW g \in GradeIds
             PROVE  Single(g) /\ Accounted(g) /\ (\A w \in Workers : Minds(g, work[w]))
    BY DEF AInv
<1>1. AppealsOf(g) = {}
    BY DEF GradesInit, AppealsOf, NoAppeal
<1>2. Single(g)
    BY <1>1 DEF Single, OpenOf
<1>3. Accounted(g)
    BY <1>1, FiniteAppeals DEF Accounted, AcceptedOf, GradesInit
<1>4. \A w \in Workers : Minds(g, work[w])
    BY DEF Minds, GradesInit, Free
<1> QED
    BY <1>2, <1>3, <1>4

\* Nothing changes for the appeals of g.
LEMMA AppealsStay ==
  ASSUME GInv, AInv, NEW g \in GradeIds \ contested, audit'[g] = audit[g],
         \A p \in Appeals : appeal[p].grades = {g} \/ appeal'[p].grades = {g} => appeal'[p] = appeal[p],
         \A w \in Workers : work'[w] = work[w] \/ Minds(g, work[w])'
  PROVE  (Single(g) /\ Accounted(g) /\ (\A w \in Workers : Minds(g, work[w])))'
<1>1. OpenOf(g)' = OpenOf(g)
    BY DEF OpenOf, AppealsOf
<1>2. AcceptedOf(g)' = AcceptedOf(g)
    BY DEF AcceptedOf, AppealsOf
<1>3. Single(g)'
    BY <1>1 DEF AInv, Single
<1>4. Cardinality(AcceptedOf(g))' = Cardinality(AcceptedOf(g))
    BY <1>2
<1>5. Accounted(g)'
    BY <1>4 DEF AInv, Accounted
<1>6. ASSUME NEW w \in Workers, work'[w] = work[w] PROVE Minds(g, work[w])'
  <2>1. Minds(g, work[w]) /\ SoundWork(work[w])
      BY DEF AInv, GInv, RowsExist
  <2>2. work[w].step \in {"decide", "commit"} /\ work[w].grades = {g} =>
            appeal'[work[w].appeal] = appeal[work[w].appeal]
      BY <2>1 DEF SoundWork
  <2> QED
      BY <1>1, <1>6, <2>1, <2>2 DEF Minds
<1> QED
    BY <1>3, <1>5, <1>6

\* The appeals of g stay, and w's request is over.
LEMMA RequestEnds ==
  ASSUME GInv, AInv, NEW g \in GradeIds \ contested, audit'[g] = audit[g],
         \A p \in Appeals : appeal[p].grades = {g} \/ appeal'[p].grades = {g} => appeal'[p] = appeal[p],
         NEW w \in Workers, work' = [work EXCEPT ![w] = Free]
  PROVE  (Single(g) /\ Accounted(g) /\ (\A v \in Workers : Minds(g, work[v])))'
<1>1. \A v \in Workers : work'[v] = work[v] \/ work'[v].step = "idle"
    BY DEF Free, GInv, GradesTypeOK
<1>2. \A v \in Workers : work'[v] = work[v] \/ Minds(g, work[v])'
    BY <1>1 DEF Minds
<1> QED
    BY <1>2, AppealsStay

\* A decision that may be taken was loaded from the one open appeal there is.
LEMMA Decided ==
  ASSUME GInv, AInv, NEW w \in Workers, NEW g \in GradeIds \ contested,
         work[w].step = "commit", work[w].grades = {g}, Allowed(work[w].status) # {}
  PROVE  work[w].appeal \in Appeals /\ OpenOf(g) = {work[w].appeal}
<1>1. /\ work[w].appeal \in Appeals /\ appeal[work[w].appeal].grades = {g}
      /\ appeal[work[w].appeal].status = work[w].status
    BY DEF GInv, RowsExist, SoundWork, AInv, Minds
<1>2. work[w].status \in {"submitted", "under_review"}
    BY DEF Allowed
<1>3. work[w].appeal \in OpenOf(g)
    BY <1>1, <1>2 DEF OpenOf, AppealsOf, Open
<1> QED
    BY <1>1, <1>3 DEF AInv, Single

LEMMA AInvStep == GInv /\ AInv /\ GradesNext => AInv'
<1> SUFFICES ASSUME GInv, AInv, GradesNext, NEW g \in GradeIds, g \notin contested'
             PROVE  (Single(g) /\ Accounted(g) /\ (\A w \in Workers : Minds(g, work[w])))'
    BY DEF AInv
<1> DEFINE Goal == (Single(g) /\ Accounted(g) /\ (\A w \in Workers : Minds(g, work[w])))'
<1>0. g \notin contested
    BY ContestedGrows
<1>a. /\ work \in [Workers -> Work]
      /\ appeal \in [Appeals -> [grades : SUBSET GradeIds, status : Statuses \cup {"none"}]]
      /\ audit \in [GradeIds -> Seq(Rows)] /\ audit[g] \in Seq(Rows) /\ Len(audit[g]) \in Nat
    BY DEF GInv, GradesTypeOK
<1>1. ASSUME NEW a \in Assessments, CreateAssessment(a) PROVE Goal
    BY <1>0, <1>1, AppealsStay DEF CreateAssessment
<1>2. ASSUME NEW w \in Workers, NEW r \in Work, Begin(w, r), Minds(g, r) PROVE Goal
  <2>1. /\ \A v \in Workers : work'[v] = work[v] \/ work'[v] = r
        /\ UNCHANGED <<appeal, audit>>
      BY <1>2 DEF Begin, GInv, GradesTypeOK
  <2>2. \A v \in Workers : work'[v] = work[v] \/ Minds(g, work[v])'
      BY <1>2, <2>1 DEF Minds, OpenOf, AppealsOf
  <2> QED
      BY <1>0, <2>1, <2>2, AppealsStay
<1>3. ASSUME NEW w \in Workers, NEW h \in GradeIds, LoadGrade(w, h) PROVE Goal
  <2>1. /\ \A v \in Workers \ {w} : work'[v] = work[v]
        /\ work[w].step = "decide" /\ work'[w].step = "commit"
        /\ work'[w].grades = work[w].grades /\ work'[w].appeal = work[w].appeal
        /\ work'[w].status = work[w].status
        /\ UNCHANGED <<appeal, audit>>
      BY <1>3, <1>a DEF LoadGrade, Work
  <2>2. Minds(g, work[w])
      BY <1>0 DEF AInv
  <2>3. Minds(g, work[w])'
      BY <2>1, <2>2 DEF Minds, OpenOf, AppealsOf
  <2> QED
      BY <1>0, <2>1, <2>3, AppealsStay
<1>4. ASSUME NEW w \in Workers, NEW p \in Appeals, InsertAppeal(w, g, p) PROVE Goal
  <2>1. /\ work[w].step = "appeal" /\ work[w].grades = {g} /\ appeal[p] = NoAppeal
        /\ appeal' = [appeal EXCEPT ![p] = [grades |-> {g}, status |-> "submitted"]]
        /\ Commit(w, g) /\ audit' = audit
      BY <1>4, Zenon DEF InsertAppeal
  <2>2. /\ appeal'[p] = [grades |-> {g}, status |-> "submitted"]
        /\ \A q \in Appeals \ {p} : appeal'[q] = appeal[q]
        /\ appeal[p].grades = {}
      BY <1>a, <2>1 DEF NoAppeal
  <2>3. OpenOf(g) = {}
      BY <1>0, <2>1 DEF AInv, Minds
  <2>4. OpenOf(g)' = {p}
      BY <2>2, <2>3 DEF OpenOf, AppealsOf, Open
  <2>5. AcceptedOf(g)' = AcceptedOf(g)
      BY <2>2 DEF AcceptedOf, AppealsOf
  <2>6. Cardinality(AcceptedOf(g))' = Cardinality(AcceptedOf(g))
      BY <2>5
  <2>7. /\ \A v \in Workers \ {w} : g \notin work[v].grades /\ work'[v] = work[v]
        /\ work'[w] = Free
      BY <2>1, Alone
  <2>8. \A v \in Workers : Minds(g, work[v])'
      BY <2>7 DEF Minds, Free
  <2> QED
      BY <1>0, <2>1, <2>4, <2>6, <2>8 DEF AInv, Single, Accounted
<1>5. ASSUME NEW w \in Workers, NEW to \in Statuses, SaveReview(w, g, to) PROVE Goal
  <2> DEFINE q == work[w].appeal
  <2>1. /\ work[w].step = "commit" /\ work[w].grades = {g}
        /\ to \in Allowed(work[w].status) /\ to # "accepted"
        /\ appeal' = [appeal EXCEPT ![q].status = to]
        /\ Commit(w, g) /\ audit' = audit
      BY <1>5, Zenon DEF SaveReview
  <2>2. q \in Appeals /\ OpenOf(g) = {q}
      BY <1>0, <2>1, Decided
  <2>3. /\ appeal'[q].grades = appeal[q].grades /\ appeal'[q].status = to
        /\ \A p \in Appeals \ {q} : appeal'[p] = appeal[p]
      BY <1>a, <2>1, <2>2
  <2>4. appeal[q].status # "accepted"
      BY <2>2 DEF OpenOf, Open
  <2>5. OpenOf(g)' \subseteq {q}
      BY <2>2, <2>3 DEF OpenOf, AppealsOf
  <2>6. AcceptedOf(g)' = AcceptedOf(g)
      BY <2>1, <2>2, <2>3, <2>4 DEF AcceptedOf, AppealsOf
  <2>7. Cardinality(AcceptedOf(g))' = Cardinality(AcceptedOf(g))
      BY <2>6
  <2>8. /\ \A v \in Workers \ {w} : g \notin work[v].grades /\ work'[v] = work[v]
        /\ work'[w] = Free
      BY <2>1, Alone
  <2>9. \A v \in Workers : Minds(g, work[v])'
      BY <2>8 DEF Minds, Free
  <2> QED
      BY <1>0, <2>1, <2>5, <2>7, <2>9 DEF AInv, Single, Accounted
<1>6. ASSUME NEW w \in Workers, NEW s \in Inputs, SaveAcceptance(w, g, s) PROVE Goal
  <2> DEFINE q == work[w].appeal
             row == [old |-> work[w].loaded, new |-> s]
  <2>1. /\ work[w].step = "commit" /\ work[w].grades = {g} /\ s \in Scores
        /\ "accepted" \in Allowed(work[w].status)
        /\ audit' \in {audit, [audit EXCEPT ![g] = Append(@, row)]}
        /\ appeal' = [appeal EXCEPT ![q].status = "accepted"]
        /\ Commit(w, g)
      BY <1>6, Zenon DEF SaveAcceptance
  <2>2. q \in Appeals /\ OpenOf(g) = {q}
      BY <1>0, <2>1, Decided
  <2>3. /\ appeal'[q].grades = appeal[q].grades /\ appeal'[q].status = "accepted"
        /\ \A p \in Appeals \ {q} : appeal'[p] = appeal[p]
      BY <1>a, <2>1, <2>2
  <2>4. q \in AppealsOf(g) /\ q \notin AcceptedOf(g)
      BY <2>2 DEF OpenOf, AcceptedOf, Open
  <2>5. OpenOf(g)' = {}
      BY <2>2, <2>3 DEF OpenOf, AppealsOf, Open
  <2>6. AcceptedOf(g)' = AcceptedOf(g) \cup {q}
      BY <2>2, <2>3, <2>4 DEF AcceptedOf, AppealsOf
  <2>7. Cardinality(AcceptedOf(g))' = Cardinality(AcceptedOf(g)) + 1
    <3>1. AcceptedOf(g) \subseteq Appeals
        BY DEF AcceptedOf, AppealsOf
    <3>2. Cardinality(AcceptedOf(g) \cup {q}) = Cardinality(AcceptedOf(g)) + 1
        BY <2>4, <3>1, FiniteAppeals, FS_AddElement
    <3>3. Cardinality(AcceptedOf(g))' = Cardinality(AcceptedOf(g) \cup {q})
        BY <2>6
    <3> QED
        BY <3>2, <3>3
  <2>8. Len(audit'[g]) <= Len(audit[g]) + 1
    <3>1. work[w].loaded \in Scores
        BY <2>1 DEF GInv, RowsExist, SoundWork
    <3>2. row \in Rows
        BY <2>1, <3>1 DEF Rows
    <3>3. audit'[g] = audit[g] \/ audit'[g] = Append(audit[g], row)
        BY <1>a, <2>1
    <3> QED
        BY <1>a, <3>2, <3>3
  <2>9. Accounted(g)'
    <3>1. Len(audit[g]) <= Cardinality(AcceptedOf(g)) /\ Cardinality(AcceptedOf(g)) \in Nat
        BY <1>0, FiniteAppeals DEF AInv, Accounted, AcceptedOf, AppealsOf
    <3>2. Len(audit'[g]) \in Nat
        BY GInvStep DEF GInv, GradesTypeOK
    <3> QED
        BY <1>a, <2>7, <2>8, <3>1, <3>2 DEF Accounted
  <2>10. /\ \A v \in Workers \ {w} : g \notin work[v].grades /\ work'[v] = work[v]
         /\ work'[w] = Free
      BY <2>1, Alone
  <2>11. \A v \in Workers : Minds(g, work[v])'
      BY <2>10 DEF Minds, Free
  <2> QED
      BY <2>5, <2>9, <2>11 DEF Single
<1>7. ASSUME NEW w \in Workers, NEW h \in GradeIds \ {g}, NEW p \in Appeals, InsertAppeal(w, h, p)
      PROVE  Goal
  <2>1. /\ appeal[p] = NoAppeal
        /\ appeal' = [appeal EXCEPT ![p] = [grades |-> {h}, status |-> "submitted"]]
        /\ work' = [work EXCEPT ![w] = Free] /\ audit' = audit
      BY <1>7, Zenon DEF InsertAppeal, Commit
  <2>2. \A q \in Appeals : appeal[q].grades = {g} \/ appeal'[q].grades = {g} => appeal'[q] = appeal[q]
    <3>1. /\ appeal'[p].grades = {h} /\ appeal[p].grades = {}
          /\ \A q \in Appeals \ {p} : appeal'[q] = appeal[q]
        BY <1>a, <2>1 DEF NoAppeal
    <3> QED
        BY <3>1
  <2> QED
      BY <1>0, <2>1, <2>2, RequestEnds
<1>8. ASSUME NEW w \in Workers, NEW h \in GradeIds \ {g}, NEW to \in Statuses,
             work[w].step = "commit", work[w].grades = {h},
             appeal' = [appeal EXCEPT ![work[w].appeal].status = to],
             work' = [work EXCEPT ![w] = Free], audit'[g] = audit[g]
      PROVE  Goal
  <2>1. work[w].appeal \in Appeals /\ appeal[work[w].appeal].grades = {h}
      BY <1>8 DEF GInv, RowsExist, SoundWork
  <2>2. /\ appeal'[work[w].appeal].grades = {h}
        /\ \A p \in Appeals \ {work[w].appeal} : appeal'[p] = appeal[p]
      BY <1>a, <1>8, <2>1
  <2>3. \A q \in Appeals : appeal[q].grades = {g} \/ appeal'[q].grades = {g} => appeal'[q] = appeal[q]
      BY <1>8, <2>1, <2>2
  <2> QED
      BY <1>0, <1>8, <2>3, RequestEnds
<1>9. ASSUME NEW w \in Workers, work' = [work EXCEPT ![w] = Free], UNCHANGED <<appeal, audit>>
      PROVE  Goal
    BY <1>0, <1>9, RequestEnds
<1>10. ASSUME NEW w \in Workers, NEW a \in Assessments, LoadUnpublished(w, a) PROVE Goal
  <2> DEFINE r == [Free EXCEPT !.step = "publish",
                       !.grades = {x \in GradeIds : x[1] = a /\ score[x] # None}]
  <2>1. r \in Work /\ Minds(g, r)
      BY DEF Free, Work, Minds
  <2> QED
      BY <1>2, <1>10, <2>1 DEF LoadUnpublished
<1>11. ASSUME NEW w \in Workers, NEW p \in Appeals, LoadAppeal(w, p) PROVE Goal
  <2> DEFINE r == [Free EXCEPT !.step = "decide", !.grades = appeal[p].grades,
                       !.appeal = p, !.status = appeal[p].status]
  <2>1. r \in Work /\ Minds(g, r)
      BY <1>a DEF Free, Work, Minds
  <2> QED
      BY <1>2, <1>11, <2>1 DEF LoadAppeal
<1>12. ASSUME NEW w \in Workers, NEW h \in GradeIds, NEW s \in Inputs, LoadEntry(w, h, s) PROVE Goal
  <2> DEFINE r == [Free EXCEPT !.step = "enter", !.grades = {h}, !.loaded = score[h], !.new = s]
  <2>1. r \in Work /\ Minds(g, r)
      BY <1>12 DEF LoadEntry, Free, Work, Minds, GInv, GradesTypeOK
  <2> QED
      BY <1>2, <1>12, <2>1 DEF LoadEntry
<1>13. ASSUME NEW w \in Workers, NEW h \in GradeIds, CheckAppeal(w, h) PROVE Goal
  <2> DEFINE r == [Free EXCEPT !.step = "appeal", !.grades = {h}]
  <2>1. r \in Work /\ r.step = "appeal" /\ r.grades = {h}
      BY DEF Free, Work
  <2>2. OpenOf(h) = {}
      BY <1>13 DEF CheckAppeal
  <2>3. Minds(g, r)
      BY <2>1, <2>2 DEF Minds
  <2> QED
      BY <1>2, <1>13, <2>1, <2>3 DEF CheckAppeal
<1>14. ASSUME NEW w \in Workers, NEW h \in GradeIds \ {g}, NEW to \in Statuses, SaveReview(w, h, to)
       PROVE  Goal
    BY <1>8, <1>14 DEF SaveReview, Commit
<1>15. ASSUME NEW w \in Workers, NEW h \in GradeIds \ {g}, NEW s \in Inputs, SaveAcceptance(w, h, s)
       PROVE  Goal
  <2>1. "accepted" \in Statuses
      BY DEF Statuses
  <2>2. audit'[g] = audit[g]
      BY <1>a, <1>15 DEF SaveAcceptance
  <2> QED
      BY <1>8, <1>15, <2>1, <2>2 DEF SaveAcceptance, Commit
<1>16. ASSUME NEW w \in Workers, NEW h \in GradeIds, SaveEntry(w, h) PROVE Goal
    BY <1>9, <1>16 DEF SaveEntry, Commit
<1>17. ASSUME NEW w \in Workers, SavePublished(w) \/ Abandon(w) PROVE Goal
    BY <1>9, <1>17 DEF SavePublished, Abandon
<1> QED
    BY <1>1, <1>3, <1>4, <1>5, <1>6, <1>7, <1>10, <1>11, <1>12, <1>13, <1>14, <1>15, <1>16, <1>17
    DEF GradesNext, GradesStep

\* However many students appeal and however many deciders there are: a grade that no two
\* requests were at work on at a time has one open appeal at most, and no more audit rows
\* than accepted appeals.
THEOREM AppealsInTurn == Spec => []OneAppealAtATime
<1>1. Init => GInv /\ AInv
    BY InitGInv, InitAInv DEF Init
<1>2. GInv /\ AInv /\ [Next]_vars => GInv' /\ AInv'
  <2>1. GInv /\ AInv /\ UNCHANGED gradeVars => AInv'
    <3> SUFFICES ASSUME GInv, AInv, UNCHANGED gradeVars, NEW g \in GradeIds, g \notin contested'
                 PROVE  (Single(g) /\ Accounted(g) /\ (\A w \in Workers : Minds(g, work[w])))'
        BY DEF AInv
    <3> QED
        BY AppealsStay DEF gradeVars
  <2> QED
      BY <2>1, GInvStep, AInvStep, GradesStay, GradesMove
<1>3. AInv => OneAppealAtATime
  <2> SUFFICES ASSUME AInv, NEW g \in GradeIds \ contested
               PROVE  /\ Cardinality(OpenOf(g)) <= 1
                      /\ Len(audit[g]) <= Cardinality(AcceptedOf(g))
      BY DEF OneAppealAtATime, AcceptedOf
  <2>1. Cardinality(OpenOf(g)) <= 1
    <3>1. CASE OpenOf(g) = {}
        BY <3>1, FS_EmptySet
    <3>2. CASE \E p : OpenOf(g) = {p}
      <4>1. PICK p : OpenOf(g) = {p}
          BY <3>2
      <4>2. Cardinality({p}) = 1
          BY FS_Singleton, Zenon
      <4> QED
          BY <4>1, <4>2
    <3>3. OpenOf(g) = {} \/ \E p : OpenOf(g) = {p}
        BY DEF AInv, Single
    <3> QED
        BY <3>1, <3>2, <3>3
  <2> QED
      BY <2>1 DEF AInv, Accounted
<1> QED
    BY <1>1, <1>2, <1>3, PTL DEF Spec

-----------------------------------------------------------------------------
(* Below Standing *)

LEMMA StandingMoves == [StandingNext]_<<vars, standingVars>> => [Next]_vars
  BY DEF StandingNext

\* Class meetings, marks and the lists of students at risk change nothing for the courses
\* and the grades they read, so all that is proved above holds beside them.
THEOREM StandingIsCoursework == StandingSpec => Spec
<1>1. StandingInit => Init
    BY DEF StandingInit
<1> QED
    BY <1>1, StandingMoves, PTL DEF StandingSpec, Spec

SInv ==
    /\ held \subseteq Meetings
    /\ roll \in [Entries -> Marks \cup {"none"}]
    /\ desk \in [Workers -> Desk]
    /\ ever \in [Workers -> SUBSET (Seats \X Reasons)]
    /\ always \in [Workers -> SUBSET (Seats \X Reasons)]

LEMMA InitSInv == StandingInit => SInv
  BY DEF StandingInit, SInv, Entries, Marks, Desk, Idle, Seats, Reasons

LEMMA SInvStep == TInv /\ SInv /\ [StandingNext]_<<vars, standingVars>> => SInv'
<1> SUFFICES ASSUME TInv, SInv, [StandingNext]_<<vars, standingVars>> PROVE SInv'
    OBVIOUS
<1>1. CASE UNCHANGED <<vars, standingVars>>
    BY <1>1 DEF standingVars, SInv
<1>2. CASE StandingNext
  <2> DEFINE DeskOK == /\ held \subseteq Meetings
                       /\ roll \in [Entries -> Marks \cup {"none"}]
                       /\ desk \in [Workers -> Desk]
  <2>1. /\ ever' \in [Workers -> SUBSET (Seats \X Reasons)]
        /\ always' \in [Workers -> SUBSET (Seats \X Reasons)]
    <3>1. AtRisk' \in SUBSET (Seats \X Reasons)
        BY DEF AtRisk
    <3>2. PICK now \in SUBSET (Seats \X Reasons) :
              /\ ever' = [w \in Workers |-> IF Listing(w)' THEN ever[w] \cup now ELSE {}]
              /\ always' = [w \in Workers |-> IF ~Listing(w)' THEN {}
                                ELSE IF Listing(w) THEN always[w] \cap now ELSE now]
        BY <1>2, <3>1 DEF StandingNext
    <3>3. ASSUME NEW w \in Workers
          PROVE  /\ ever'[w] \in SUBSET (Seats \X Reasons)
                 /\ always'[w] \in SUBSET (Seats \X Reasons)
        BY <3>2 DEF SInv
    <3> QED
        BY <3>2, <3>3
  <2>2. ASSUME UNCHANGED <<held, roll, desk>> PROVE DeskOK'
      BY <2>2 DEF SInv
  <2>3. ASSUME NEW m \in Meetings, CreateMeeting(m) PROVE DeskOK'
      BY <2>3 DEF CreateMeeting, SInv
  <2>4. ASSUME NEW w \in Workers, NEW r \in Desk, Begun(w, r) PROVE DeskOK'
      BY <2>4 DEF Begun, SInv
  <2>5. ASSUME NEW w \in Workers, NEW e \in Entries, NEW mark \in Marks, LoadMark(w, e, mark)
        PROVE  DeskOK'
    <3> DEFINE r == [Idle EXCEPT !.step = "mark", !.entry = {e}, !.loaded = roll[e], !.mark = mark]
    <3>1. roll[e] \in Marks \cup {"none"}
        BY DEF SInv
    <3>2. r \in Desk
        BY <3>1 DEF Idle, Desk
    <3> QED
        BY <2>4, <2>5, <3>2 DEF LoadMark
  <2>6. Idle \in Desk
      BY DEF Idle, Desk, Marks
  <2>7. ASSUME NEW w \in Workers, NEW e \in Entries, SaveMark(w, e) PROVE DeskOK'
    <3>1. desk[w].mark \in Marks
        BY DEF SInv, Desk
    <3> QED
        BY <2>6, <2>7, <3>1 DEF SaveMark, SInv
  <2>8. ASSUME NEW w \in Workers, NEW S \in SUBSET Seats,
               Begun(w, [Idle EXCEPT !.step = "list", !.todo = S])
        PROVE  DeskOK'
    <3> DEFINE r == [Idle EXCEPT !.step = "list", !.todo = S]
    <3>1. r \in Desk
        BY DEF Idle, Desk, Marks
    <3> QED
        BY <2>4, <2>8, <3>1
  <2>9. ASSUME NEW w \in Workers, NEW o \in Offerings, ListOffering(w, o) PROVE DeskOK'
    <3>1. {r \in registered : r[2] = o} \in SUBSET Seats
        BY DEF TInv, TypeOK
    <3> QED
        BY <2>8, <2>9, <3>1 DEF ListOffering
  <2>10. ASSUME NEW w \in Workers, NEW s \in Students, ListOwn(w, s) PROVE DeskOK'
    <3>1. {r \in registered : r[1] = s} \in SUBSET Seats
        BY DEF TInv, TypeOK
    <3> QED
        BY <2>8, <2>10, <3>1 DEF ListOwn
  <2>11. ASSUME NEW w \in Workers, NEW r \in Desk, desk' = [desk EXCEPT ![w] = r],
                UNCHANGED <<held, roll>>
         PROVE  DeskOK'
      BY <2>11 DEF SInv
  <2>12. ASSUME NEW w \in Workers, NEW x \in Seats, ReadRate(w, x) PROVE DeskOK'
    <3>1. desk[w] \in Desk
        BY DEF SInv
    <3>2. PICK low \in BOOLEAN :
              desk' = [desk EXCEPT ![w] = [desk[w] EXCEPT !.step = "grades", !.listed = @ \cup {x},
                                                          !.low = low]]
        BY <2>12 DEF ReadRate, LowRate
    <3>3. [desk[w] EXCEPT !.step = "grades", !.listed = @ \cup {x}, !.low = low] \in Desk
        BY <3>1 DEF Desk
    <3> QED
        BY <2>11, <2>12, <3>2, <3>3 DEF ReadRate
  <2>13. ASSUME NEW w \in Workers, NEW x \in Seats, ReadAverage(w, x) PROVE DeskOK'
    <3>1. desk[w] \in Desk
        BY DEF SInv
    <3>2. PICK F \in {desk[w].flagged, desk[w].flagged \cup {x}} :
              desk' = [desk EXCEPT ![w] = [desk[w] EXCEPT !.step = "list", !.todo = @ \ {x},
                                                          !.low = FALSE, !.flagged = F]]
        BY <2>13 DEF ReadAverage
    <3>3. F \in SUBSET Seats
        BY <3>1, <3>2 DEF Desk
    <3>4. [desk[w] EXCEPT !.step = "list", !.todo = @ \ {x}, !.low = FALSE, !.flagged = F] \in Desk
        BY <3>1, <3>3 DEF Desk
    <3> QED
        BY <2>11, <2>13, <3>2, <3>4 DEF ReadAverage
  <2>14. ASSUME NEW w \in Workers, LeaveDesk(w) PROVE DeskOK'
      BY <2>6, <2>11, <2>14 DEF LeaveDesk
  <2>15. DeskOK'
      BY <1>2, <2>2, <2>3, <2>5, <2>7, <2>9, <2>10, <2>12, <2>13, <2>14 DEF StandingNext, StandingStep
  <2> QED
      BY <2>1, <2>15 DEF SInv
<1> QED
    BY <1>1, <1>2

\* Every variable of Standing keeps its type, those of Coursework and Grades included:
\* scores stay in their range, and what a list names is a student with an offering.
THEOREM StandingTypeCorrect == StandingSpec => []StandingTypeOK
<1>1. StandingInit => TInv /\ SInv
    BY InitTInv, InitSInv DEF StandingInit
<1>2. TInv /\ SInv /\ [StandingNext]_<<vars, standingVars>> => TInv' /\ SInv'
    BY StandingMoves, TInvStep, SInvStep
<1>3. TInv /\ SInv => StandingTypeOK
    BY DEF TInv, SInv, StandingTypeOK
<1> QED
    BY <1>1, <1>2, <1>3, PTL DEF StandingSpec

-----------------------------------------------------------------------------
(* Students at risk *)

\* An assessment is there once, and grades are of assessments that are.
AssessmentsExist ==
    /\ \A i, j \in 1..Len(created) : created[i] = created[j] => i = j
    /\ \A g \in Scored : g[1] \in Existing
    /\ \A w \in Workers : work[w].step = "enter" => \A g \in work[w].grades : g[1] \in Existing

LEMMA InitExist == GradesInit => AssessmentsExist
  BY DEF GradesInit, AssessmentsExist, Scored, Free

\* Nothing is created, and at most one grade, of an assessment that is there, is new.
LEMMA ExistStays ==
  ASSUME GInv, AssessmentsExist, created' = created,
         \A g \in Scored' : g \in Scored \/ g[1] \in Existing,
         \A w \in Workers : work'[w].step = "enter" =>
             work'[w] = work[w] \/ \A g \in work'[w].grades : g[1] \in Existing
  PROVE  AssessmentsExist'
<1>1. Existing' = Existing
    BY DEF Existing
<1> QED
    BY <1>1 DEF AssessmentsExist

LEMMA ExistStep == GInv /\ AssessmentsExist /\ GradesNext => AssessmentsExist'
<1> SUFFICES ASSUME GInv, AssessmentsExist, GradesNext PROVE AssessmentsExist'
    OBVIOUS
<1>1. ASSUME NEW a \in Assessments, CreateAssessment(a) PROVE AssessmentsExist'
  <2>1. /\ created' = Append(created, a) /\ a \notin Existing /\ created \in Seq(Assessments)
        /\ Scored' = Scored /\ work' = work
      BY <1>1 DEF CreateAssessment, GInv, GradesTypeOK, Scored
  <2>2. Len(created') = Len(created) + 1 /\ \A i \in 1..Len(created) : created'[i] = created[i]
      BY <2>1
  <2>3. created'[Len(created) + 1] = a
      BY <2>1
  <2>4. Existing \subseteq Existing'
      BY <2>1, <2>2 DEF Existing
  <2>5. ASSUME NEW i \in 1..Len(created'), NEW j \in 1..Len(created'), created'[i] = created'[j]
        PROVE  i = j
    <3>1. \A k \in 1..Len(created) : created[k] # a
        BY <2>1 DEF Existing
    <3>2. Len(created) \in Nat
        BY <2>1
    <3> QED
        BY <2>2, <2>3, <2>5, <3>1, <3>2 DEF AssessmentsExist
  <2> QED
      BY <2>1, <2>4, <2>5 DEF AssessmentsExist
<1>2. ASSUME NEW w \in Workers, NEW r \in Work, Begin(w, r),
             r.step = "enter" => \A g \in r.grades : g[1] \in Existing
      PROVE  AssessmentsExist'
  <2>1. /\ created' = created /\ Scored' = Scored /\ work' = [work EXCEPT ![w] = r]
      BY <1>2 DEF Begin, Scored
  <2>2. ASSUME NEW v \in Workers, work'[v].step = "enter"
        PROVE  work'[v] = work[v] \/ \A g \in work'[v].grades : g[1] \in Existing
      BY <1>2, <2>1, <2>2 DEF GInv, GradesTypeOK
  <2> QED
      BY <2>1, <2>2, ExistStays
<1>3. ASSUME NEW w \in Workers, work' = [work EXCEPT ![w] = Free], created' = created,
             \A g \in Scored' : g \in Scored \/ g[1] \in Existing
      PROVE  AssessmentsExist'
  <2>1. \A v \in Workers : work'[v].step = "enter" => work'[v] = work[v]
      BY <1>3 DEF GInv, GradesTypeOK, Free
  <2> QED
      BY <1>3, <2>1, ExistStays
<1>4. ASSUME NEW w \in Workers, NEW a \in Assessments, LoadUnpublished(w, a) PROVE AssessmentsExist'
  <2> DEFINE r == [Free EXCEPT !.step = "publish",
                       !.grades = {g \in GradeIds : g[1] = a /\ score[g] # None}]
  <2>1. r \in Work /\ r.step = "publish"
      BY DEF Free, Work
  <2> QED
      BY <1>2, <1>4, <2>1 DEF LoadUnpublished
<1>5. ASSUME NEW w \in Workers, NEW p \in Appeals, LoadAppeal(w, p) PROVE AssessmentsExist'
  <2> DEFINE r == [Free EXCEPT !.step = "decide", !.grades = appeal[p].grades,
                       !.appeal = p, !.status = appeal[p].status]
  <2>1. r \in Work /\ r.step = "decide"
      BY DEF Free, Work, GInv, GradesTypeOK
  <2> QED
      BY <1>2, <1>5, <2>1 DEF LoadAppeal
<1>6. ASSUME NEW w \in Workers, NEW g \in GradeIds, NEW s \in Inputs, LoadEntry(w, g, s)
      PROVE  AssessmentsExist'
  <2> DEFINE r == [Free EXCEPT !.step = "enter", !.grades = {g}, !.loaded = score[g], !.new = s]
  <2>1. r \in Work /\ r.grades = {g} /\ g[1] \in Existing
      BY <1>6 DEF LoadEntry, Free, Work, GInv, GradesTypeOK
  <2> QED
      BY <1>2, <1>6, <2>1 DEF LoadEntry
<1>7. ASSUME NEW w \in Workers, NEW g \in GradeIds, CheckAppeal(w, g) PROVE AssessmentsExist'
  <2> DEFINE r == [Free EXCEPT !.step = "appeal", !.grades = {g}]
  <2>1. r \in Work /\ r.step = "appeal"
      BY DEF Free, Work
  <2> QED
      BY <1>2, <1>7, <2>1 DEF CheckAppeal
<1>8. ASSUME NEW w \in Workers, NEW g \in GradeIds, LoadGrade(w, g) PROVE AssessmentsExist'
  <2>1. /\ created' = created /\ Scored' = Scored
        /\ work' = [work EXCEPT ![w].step = "commit", ![w].loaded = score[g]]
      BY <1>8 DEF LoadGrade, Scored
  <2>2. ASSUME NEW v \in Workers, work'[v].step = "enter" PROVE work'[v] = work[v]
      BY <2>1, <2>2 DEF GInv, GradesTypeOK, Work
  <2> QED
      BY <2>1, <2>2, ExistStays
<1>9. ASSUME NEW w \in Workers, NEW g \in GradeIds, NEW s \in Inputs, SaveAcceptance(w, g, s)
      PROVE  AssessmentsExist'
  <2>1. /\ work' = [work EXCEPT ![w] = Free] /\ created' = created
        /\ score' = score \/ score' = [score EXCEPT ![g] = s]
        /\ work[w].step = "commit" /\ work[w].grades = {g}
      BY <1>9 DEF SaveAcceptance, Commit
  <2>2. g \in Scored
      BY <2>1 DEF GInv, RowsExist, SoundWork
  <2>3. Scored' \subseteq Scored
      BY <2>1, <2>2 DEF Scored, GInv, GradesTypeOK
  <2> QED
      BY <1>3, <2>1, <2>3
<1>10. ASSUME NEW w \in Workers, NEW g \in GradeIds, SaveEntry(w, g) PROVE AssessmentsExist'
  <2>1. /\ work' = [work EXCEPT ![w] = Free] /\ created' = created
        /\ score' = score \/ score' = [score EXCEPT ![g] = work[w].new]
        /\ work[w].step = "enter" /\ work[w].grades = {g}
      BY <1>10, Zenon DEF SaveEntry, Commit
  <2>2. g[1] \in Existing
      BY <2>1 DEF AssessmentsExist
  <2>3. \A h \in Scored' : h \in Scored \/ h[1] \in Existing
      BY <2>1, <2>2 DEF Scored, GInv, GradesTypeOK
  <2> QED
      BY <1>3, <2>1, <2>3
<1>11. ASSUME NEW w \in Workers, NEW g \in GradeIds, NEW p \in Appeals, InsertAppeal(w, g, p)
       PROVE  AssessmentsExist'
    BY <1>3, <1>11 DEF InsertAppeal, Commit, Scored
<1>12. ASSUME NEW w \in Workers, NEW g \in GradeIds, NEW to \in Statuses, SaveReview(w, g, to)
       PROVE  AssessmentsExist'
    BY <1>3, <1>12 DEF SaveReview, Commit, Scored
<1>13. ASSUME NEW w \in Workers, SavePublished(w) \/ Abandon(w) PROVE AssessmentsExist'
    BY <1>3, <1>13 DEF SavePublished, Abandon, Scored
<1> QED
    BY <1>1, <1>4, <1>5, <1>6, <1>7, <1>8, <1>9, <1>10, <1>11, <1>12, <1>13 DEF GradesNext, GradesStep

\* The query counts the meetings attended, the definition those missed.
LEMMA RateIsRisk ==
  ASSUME IsFiniteSet(held), NEW r \in Seats
  PROVE  LowRate(r[1], r[2]) <=> <<r, "attendance">> \in AtRisk
<1> DEFINE all == HeldFor(r[2])
           present == {m \in all : roll[<<m, r[1]>>] = "present"}
           missed == Missed(r[1], r[2])
<1>1. present \subseteq all /\ missed \subseteq all /\ present \cup missed = all
      /\ present \cap missed = {}
    BY DEF Missed
<1>2. IsFiniteSet(all)
    BY FS_Subset DEF HeldFor
<1>3. IsFiniteSet(present) /\ IsFiniteSet(missed)
    BY <1>1, <1>2, FS_Subset
<1>4. /\ Cardinality(present) \in Nat /\ Cardinality(missed) \in Nat /\ Cardinality(all) \in Nat
      /\ all = {} <=> Cardinality(all) = 0
    BY <1>2, <1>3, FS_CardinalityType, FS_EmptySet
<1>5. Cardinality(all) = Cardinality(present) + Cardinality(missed)
  <2>1. Cardinality(present \cup missed)
            = Cardinality(present) + Cardinality(missed) - Cardinality(present \cap missed)
      BY <1>3, FS_Union
  <2>2. Cardinality(present \cap missed) = 0
      BY <1>1, FS_EmptySet
  <2>3. Cardinality(present \cup missed) = Cardinality(all)
      BY <1>1
  <2> HIDE DEF all, present, missed
  <2> QED
      BY <1>4, <2>1, <2>2, <2>3
<1>6. LowRate(r[1], r[2]) <=> all # {} /\ 4 * Cardinality(present) < 3 * Cardinality(all)
    BY DEF LowRate
<1>7. <<r, "attendance">> \in AtRisk <=> 4 * Cardinality(missed) > Cardinality(all)
    BY DEF AtRisk, Reasons
<1> HIDE DEF all, present, missed
<1> QED
    BY <1>4, <1>5, <1>6, <1>7

\* A published grade of an offering has a place among the rows of the query.
LEMMA Places ==
  ASSUME TInv, AssessmentsExist, NEW r \in Seats
  PROVE  LET shown == Shown(r[1], r[2], published)
             rows == PublishedIn(r[1], r[2])
         IN  /\ \A g \in rows : Position(g) \in shown /\ g = <<created[Position(g)], r[1]>>
             /\ \A i \in shown : <<created[i], r[1]>> \in rows /\ Position(<<created[i], r[1]>>) = i
<1>1. ASSUME NEW g \in PublishedIn(r[1], r[2])
      PROVE  /\ Position(g) \in Shown(r[1], r[2], published)
             /\ g = <<created[Position(g)], r[1]>>
  <2>1. g \in published /\ g \in Scored /\ g[2] = r[1] /\ OfferingOf[g[1]] = r[2]
        /\ g = <<g[1], g[2]>>
      BY <1>1 DEF PublishedIn, TInv, GInv, RowsExist, Scored, GradeIds
  <2>2. \E i \in 1..Len(created) : created[i] = g[1]
      BY <2>1 DEF AssessmentsExist, Existing
  <2>3. Position(g) \in 1..Len(created) /\ created[Position(g)] = g[1]
      BY <2>2 DEF Position
  <2> QED
      BY <2>1, <2>3 DEF Shown
<1>2. ASSUME NEW i \in Shown(r[1], r[2], published)
      PROVE  <<created[i], r[1]>> \in PublishedIn(r[1], r[2]) /\ Position(<<created[i], r[1]>>) = i
  <2>1. i \in 1..Len(created) /\ OfferingOf[created[i]] = r[2] /\ <<created[i], r[1]>> \in published
      BY DEF Shown
  <2>2. Position(<<created[i], r[1]>>) \in 1..Len(created)
        /\ created[Position(<<created[i], r[1]>>)] = created[i]
      BY <2>1 DEF Position
  <2> QED
      BY <2>1, <2>2 DEF PublishedIn, AssessmentsExist
<1> QED
    BY <1>1, <1>2

\* The latest two rows of the query are the two grades that have less than two after them.
LEMMA AverageIsRisk ==
  ASSUME TInv, AssessmentsExist, NEW r \in Seats
  PROVE  LowAverage(r[1], r[2]) <=> <<r, "grades">> \in AtRisk
<1> DEFINE shown == Shown(r[1], r[2], published)
           rows == PublishedIn(r[1], r[2])
           Later(g) == {h \in rows : Position(h) > Position(g)}
           grade(i) == <<created[i], r[1]>>
<1>1. /\ \A g \in rows : Position(g) \in shown /\ g = grade(Position(g))
      /\ \A i \in shown : grade(i) \in rows /\ Position(grade(i)) = i
    BY Places
<1>2. shown \subseteq Nat /\ shown \subseteq 1..Len(created) /\ Len(created) \in Nat
    BY DEF Shown, TInv, TypeOK, GradesTypeOK
<1>3. \A g \in rows : score[g] \in Nat
    BY DEF PublishedIn, TInv, GInv, RowsExist, Scored, GradesTypeOK, Scores
<1>4. IsFiniteSet(rows)
  <2> DEFINE f == [g \in rows |-> Position(g)]
  <2>1. IsFiniteSet(1..Len(created))
      BY <1>2, FS_Interval
  <2>2. f \in Injection(rows, 1..Len(created))
      BY <1>1, <1>2 DEF Injection, IsInjective
  <2> QED
      BY <2>1, <2>2, FS_Injection
<1>5. Latest(r[1], r[2]) = {g \in rows : Cardinality(Later(g)) < 2}
    BY DEF Latest
<1>6. LowAverage(r[1], r[2]) <=>
          \E i, j \in shown : /\ {k \in shown : k > j} = {i}
                              /\ score[grade(i)] + score[grade(j)] < MaxScore
    BY DEF LowAverage, LatestTwoLow
<1>7. <<r, "grades">> \in AtRisk <=>
          \E g, h \in Latest(r[1], r[2]) : g # h /\ score[g] + score[h] < MaxScore
    BY DEF AtRisk, Reasons
<1> HIDE DEF shown, rows, grade
<1>8. ASSUME NEW i \in shown, NEW j \in shown, {k \in shown : k > j} = {i},
             score[grade(i)] + score[grade(j)] < MaxScore
      PROVE  \E g, h \in Latest(r[1], r[2]) : g # h /\ score[g] + score[h] < MaxScore
  <2>1. i > j /\ grade(i) \in rows /\ grade(j) \in rows /\ grade(i) # grade(j)
      BY <1>1, <1>2, <1>8
  <2>2. Later(grade(i)) = {}
    <3>1. ASSUME NEW h \in rows, Position(h) > i PROVE FALSE
      <4>1. Position(h) \in shown /\ Position(h) > j /\ Position(h) # i
        <5>1. Position(h) \in shown
            BY <1>1
        <5>2. Position(h) \in Nat /\ i \in Nat /\ j \in Nat
            BY <1>2, <5>1
        <5> QED
            BY <2>1, <3>1, <5>1, <5>2
      <4>2. Position(h) \in {k \in shown : k > j}
          BY <4>1
      <4> QED
          BY <1>8, <4>1, <4>2
    <3> QED
        BY <1>1, <3>1
  <2>3. Later(grade(j)) = {grade(i)}
    <3>1. ASSUME NEW h \in rows, Position(h) > j PROVE h = grade(i)
        BY <1>1, <1>8, <3>1
    <3> QED
        BY <1>1, <2>1, <3>1
  <2>4. Cardinality({}) = 0 /\ Cardinality({grade(i)}) = 1
      BY FS_EmptySet, FS_Singleton, Zenon
  <2>5. grade(i) \in Latest(r[1], r[2]) /\ grade(j) \in Latest(r[1], r[2])
      BY <1>5, <2>1, <2>2, <2>3, <2>4
  <2> QED
      BY <1>8, <2>1, <2>5
<1>9. ASSUME NEW g \in Latest(r[1], r[2]), NEW h \in Latest(r[1], r[2]),
             Position(g) > Position(h), score[g] + score[h] < MaxScore
      PROVE  LowAverage(r[1], r[2])
  <2>1. g \in rows /\ h \in rows /\ Cardinality(Later(h)) < 2
      BY <1>5
  <2>2. ASSUME NEW k \in shown, k > Position(h), k # Position(g) PROVE FALSE
    <3>1. {g, grade(k)} \subseteq Later(h) /\ g # grade(k)
        BY <1>1, <1>9, <2>1, <2>2
    <3>2. IsFiniteSet(Later(h))
        BY <1>4, FS_Subset
    <3>3. Cardinality({g, grade(k)}) = 2
      <4>1. IsFiniteSet({g}) /\ Cardinality({g}) = 1
          BY FS_Singleton, Zenon
      <4>2. Cardinality({g} \cup {grade(k)}) = 2
        <5>1. grade(k) \notin {g}
            BY <3>1
        <5>2. Cardinality({g} \cup {grade(k)})
                  = IF grade(k) \in {g} THEN Cardinality({g}) ELSE Cardinality({g}) + 1
            BY <4>1, FS_AddElement, Zenon
        <5> QED
            BY <4>1, <5>1, <5>2
      <4>3. {g} \cup {grade(k)} = {g, grade(k)}
          OBVIOUS
      <4> QED
          BY <4>2, <4>3
    <3>4. Cardinality({g, grade(k)}) <= Cardinality(Later(h))
        BY <3>1, <3>2, FS_Subset
    <3>5. Cardinality(Later(h)) \in Nat
        BY <3>2, FS_CardinalityType
    <3> QED
        BY <2>1, <3>3, <3>4, <3>5
  <2>3. {k \in shown : k > Position(h)} = {Position(g)}
      BY <1>1, <1>9, <2>1, <2>2
  <2>4. score[grade(Position(g))] + score[grade(Position(h))] < MaxScore
      BY <1>1, <1>9, <2>1
  <2> QED
      BY <1>1, <1>6, <2>1, <2>3, <2>4
<1>10. ASSUME NEW g \in Latest(r[1], r[2]), NEW h \in Latest(r[1], r[2]), g # h,
              score[g] + score[h] < MaxScore
       PROVE  LowAverage(r[1], r[2])
  <2>1. g \in rows /\ h \in rows /\ score[h] + score[g] = score[g] + score[h]
      BY <1>3, <1>5
  <2>2. Position(g) \in Nat /\ Position(h) \in Nat /\ Position(g) # Position(h)
      BY <1>1, <1>2, <1>10, <2>1
  <2>3. CASE Position(g) > Position(h)
      BY <1>9, <1>10, <2>3
  <2>4. CASE Position(h) > Position(g)
      BY <1>9, <1>10, <2>1, <2>4
  <2> QED
      BY <2>2, <2>3, <2>4
<1> QED
    BY <1>6, <1>7, <1>8, <1>10

\* What a list knows: attendance of the one student it has asked half about, both of
\* those it is done with; all of it was so at a moment since the list began.
SoFar(w) ==
    /\ ~Listing(w) => desk[w].listed = {} /\ desk[w].flagged = {}
    /\ Listing(w) => always[w] \subseteq AtRisk /\ AtRisk \subseteq ever[w]
    /\ desk[w].step = "list" => desk[w].todo \cap desk[w].listed = {}
    /\ \A r, q \in desk[w].todo \cap desk[w].listed : r = q
    /\ desk[w].step = "grades" => \A r \in desk[w].todo \cap desk[w].listed :
           IF desk[w].low THEN <<r, "attendance">> \in ever[w]
                          ELSE <<r, "attendance">> \notin always[w]
    /\ \A r \in desk[w].flagged : \E why \in Reasons : <<r, why>> \in ever[w]
    /\ \A r \in desk[w].listed \ (desk[w].todo \cup desk[w].flagged), why \in Reasons :
           <<r, why>> \notin always[w]

RiskInv == IsFiniteSet(held) /\ \A w \in Workers : SoFar(w)

LEMMA InitRiskInv == StandingInit => RiskInv
  BY FS_EmptySet DEF StandingInit, RiskInv, SoFar, Listing, Idle

\* What any step does to the histories of a list.
LEMMA Histories ==
  ASSUME StandingNext, NEW w \in Workers
  PROVE  /\ Listing(w)' => AtRisk' \subseteq ever'[w] /\ always'[w] \subseteq AtRisk'
         /\ Listing(w) /\ Listing(w)' => ever[w] \subseteq ever'[w] /\ always'[w] \subseteq always[w]
         /\ ~Listing(w)' => ever'[w] = {} /\ always'[w] = {}
<1> DEFINE now == AtRisk'
<1>1. /\ ever' = [v \in Workers |-> IF Listing(v)' THEN ever[v] \cup now ELSE {}]
      /\ always' = [v \in Workers |-> IF ~Listing(v)' THEN {}
                                      ELSE IF Listing(v) THEN always[v] \cap now ELSE now]
    BY DEF StandingNext
<1> HIDE DEF now
<1>2. /\ ever'[w] = IF Listing(w)' THEN ever[w] \cup now ELSE {}
      /\ always'[w] = IF ~Listing(w)' THEN {} ELSE IF Listing(w) THEN always[w] \cap now ELSE now
    BY <1>1
<1>3. /\ Listing(w)' => now \subseteq ever'[w] /\ always'[w] \subseteq now
      /\ Listing(w) /\ Listing(w)' => ever[w] \subseteq ever'[w] /\ always'[w] \subseteq always[w]
      /\ ~Listing(w)' => ever'[w] = {} /\ always'[w] = {}
    BY <1>2
<1> QED
    BY <1>3 DEF now

\* Where nobody's list moves.
LEMMA ListWaits ==
  ASSUME StandingNext, NEW w \in Workers, SoFar(w), desk'[w] = desk[w]
  PROVE  SoFar(w)'
<1>1. Listing(w)' <=> Listing(w)
    BY DEF Listing
<1>2. CASE Listing(w)
  <2>1. /\ AtRisk' \subseteq ever'[w] /\ always'[w] \subseteq AtRisk'
        /\ ever[w] \subseteq ever'[w] /\ always'[w] \subseteq always[w]
      BY <1>1, <1>2, Histories
  <2> QED
      BY <1>1, <1>2, <2>1 DEF SoFar
<1>3. CASE ~Listing(w)
    BY <1>1, <1>3 DEF SoFar, Listing
<1> QED
    BY <1>2, <1>3

\* A request for something else begins, or a list or another request ends.
LEMMA NoList ==
  ASSUME StandingNext, NEW w \in Workers, desk'[w].step \in {"idle", "mark"},
         desk'[w].listed = {}, desk'[w].flagged = {}
  PROVE  SoFar(w)'
  BY DEF SoFar, Listing

\* A list begins: who is at risk now is so all the time and at some time.
LEMMA ListBegins ==
  ASSUME StandingNext, NEW w \in Workers, NEW S, desk'[w] = [Idle EXCEPT !.step = "list", !.todo = S]
  PROVE  SoFar(w)'
<1>1. desk'[w].step = "list" /\ desk'[w].listed = {} /\ desk'[w].flagged = {}
    BY DEF Idle
<1>2. Listing(w)'
    BY <1>1 DEF Listing
<1>3. AtRisk' \subseteq ever'[w] /\ always'[w] \subseteq AtRisk'
    BY <1>2, Histories
<1> QED
    BY <1>1, <1>2, <1>3 DEF SoFar

\* What a list asks for does not change while it asks.
LEMMA RiskStays ==
  ASSUME UNCHANGED vars, UNCHANGED held, UNCHANGED roll
  PROVE  AtRisk' = AtRisk
  BY DEF AtRisk, Missed, HeldFor, Latest, Position, PublishedIn, vars, gradeVars

LEMMA RateRead ==
  ASSUME SInv, RiskInv, StandingNext, UNCHANGED vars, NEW w \in Workers, NEW x \in Seats, ReadRate(w, x)
  PROVE  SoFar(w)'
<1>1. /\ desk[w].step = "list" /\ x \in desk[w].todo
      /\ desk[w] \in Desk /\ SoFar(w)
    BY DEF ReadRate, SInv, RiskInv
<1>2. /\ desk'[w].step = "grades" /\ desk'[w].listed = desk[w].listed \cup {x}
      /\ desk'[w].todo = desk[w].todo /\ desk'[w].flagged = desk[w].flagged
      /\ desk'[w].low = LowRate(x[1], x[2])
  <2>1. desk' = [desk EXCEPT ![w] = [desk[w] EXCEPT !.step = "grades", !.listed = @ \cup {x},
                                                    !.low = LowRate(x[1], x[2])]]
      BY DEF ReadRate
  <2> QED
      BY <1>1, <2>1 DEF SInv, Desk
<1>3. Listing(w) /\ Listing(w)'
    BY <1>1, <1>2 DEF Listing
<1>4. /\ AtRisk' \subseteq ever'[w] /\ always'[w] \subseteq AtRisk'
      /\ ever[w] \subseteq ever'[w] /\ always'[w] \subseteq always[w]
    BY <1>3, Histories
<1>5. desk'[w].todo \cap desk'[w].listed = {x}
    BY <1>1, <1>2 DEF SoFar
<1>6. IF desk'[w].low THEN <<x, "attendance">> \in ever'[w] ELSE <<x, "attendance">> \notin always'[w]
  <2>1. AtRisk' = AtRisk
      BY RiskStays DEF ReadRate
  <2>2. desk'[w].low <=> <<x, "attendance">> \in AtRisk
      BY <1>2, RateIsRisk DEF RiskInv
  <2> QED
      BY <1>4, <2>1, <2>2
<1>7. desk'[w].listed \ (desk'[w].todo \cup desk'[w].flagged)
          = desk[w].listed \ (desk[w].todo \cup desk[w].flagged)
    BY <1>1, <1>2
<1> QED
    BY <1>1, <1>2, <1>3, <1>4, <1>5, <1>6, <1>7 DEF SoFar

LEMMA AverageRead ==
  ASSUME TInv, SInv, AssessmentsExist, RiskInv, StandingNext, UNCHANGED vars,
         NEW w \in Workers, NEW x \in Seats, ReadAverage(w, x)
  PROVE  SoFar(w)'
<1>1. /\ desk[w].step = "grades" /\ x \in desk[w].todo \cap desk[w].listed
      /\ desk[w] \in Desk /\ SoFar(w)
    BY DEF ReadAverage, SInv, RiskInv
<1> DEFINE low == desk[w].low \/ LowAverage(x[1], x[2])
<1>2. /\ desk'[w].step = "list" /\ desk'[w].listed = desk[w].listed
      /\ desk'[w].todo = desk[w].todo \ {x}
      /\ desk'[w].flagged = IF low THEN desk[w].flagged \cup {x} ELSE desk[w].flagged
  <2>1. desk' = [desk EXCEPT ![w] = [desk[w] EXCEPT !.step = "list", !.todo = @ \ {x}, !.low = FALSE,
                     !.flagged = IF low THEN @ \cup {x} ELSE @]]
      BY DEF ReadAverage
  <2> HIDE DEF low
  <2> QED
      BY <1>1, <2>1 DEF SInv, Desk
<1>3. Listing(w) /\ Listing(w)'
    BY <1>1, <1>2 DEF Listing
<1>4. /\ AtRisk' \subseteq ever'[w] /\ always'[w] \subseteq AtRisk'
      /\ ever[w] \subseteq ever'[w] /\ always'[w] \subseteq always[w]
    BY <1>3, Histories
<1>5. desk'[w].todo \cap desk'[w].listed = {}
    BY <1>1, <1>2 DEF SoFar
<1>6. /\ low => \E why \in Reasons : <<x, why>> \in ever'[w]
      /\ ~low => \A why \in Reasons : <<x, why>> \notin always'[w]
  <2>1. AtRisk' = AtRisk
      BY RiskStays DEF ReadAverage
  <2>2. LowAverage(x[1], x[2]) <=> <<x, "grades">> \in AtRisk
      BY AverageIsRisk
  <2>3. IF desk[w].low THEN <<x, "attendance">> \in ever[w] ELSE <<x, "attendance">> \notin always[w]
      BY <1>1 DEF SoFar
  <2> QED
      BY <1>4, <2>1, <2>2, <2>3 DEF Reasons
<1> HIDE DEF low
<1>7. \A r \in desk'[w].flagged : \E why \in Reasons : <<r, why>> \in ever'[w]
    BY <1>1, <1>2, <1>4, <1>6 DEF SoFar
<1>8. \A r \in desk'[w].listed \ (desk'[w].todo \cup desk'[w].flagged), why \in Reasons :
          <<r, why>> \notin always'[w]
    BY <1>1, <1>2, <1>4, <1>6 DEF SoFar
<1> QED
    BY <1>2, <1>3, <1>4, <1>5, <1>7, <1>8 DEF SoFar

LEMMA RiskInvStep ==
  TInv /\ SInv /\ AssessmentsExist /\ RiskInv /\ [StandingNext]_<<vars, standingVars>> => RiskInv'
<1> SUFFICES ASSUME TInv, SInv, AssessmentsExist, RiskInv, [StandingNext]_<<vars, standingVars>>
             PROVE  RiskInv'
    OBVIOUS
<1>1. CASE UNCHANGED <<vars, standingVars>>
  <2>1. UNCHANGED vars /\ UNCHANGED <<held, roll, desk, ever, always>>
      BY <1>1 DEF standingVars
  <2>2. AtRisk' = AtRisk
      BY <2>1, RiskStays
  <2>3. ASSUME NEW w \in Workers PROVE SoFar(w)'
    <3>1. SoFar(w)
        BY DEF RiskInv
    <3>2. Listing(w)' <=> Listing(w)
        BY <2>1 DEF Listing
    <3> QED
        BY <2>1, <2>2, <3>1, <3>2 DEF SoFar
  <2> QED
      BY <2>1, <2>3 DEF RiskInv
<1>2. CASE StandingNext
  <2>1. ASSUME UNCHANGED desk, held' = held \/ \E m : held' = held \cup {m} PROVE RiskInv'
    <3>1. IsFiniteSet(held')
        BY <2>1, FS_AddElement DEF RiskInv
    <3>2. \A w \in Workers : SoFar(w)'
        BY <1>2, <2>1, ListWaits DEF RiskInv
    <3> QED
        BY <3>1, <3>2 DEF RiskInv
  <2>2. ASSUME NEW w \in Workers, NEW r, desk' = [desk EXCEPT ![w] = r], UNCHANGED held, SoFar(w)'
        PROVE  RiskInv'
    <3>1. \A v \in Workers \ {w} : desk'[v] = desk[v]
        BY <2>2 DEF SInv
    <3>2. \A v \in Workers : SoFar(v)'
        BY <1>2, <2>2, <3>1, ListWaits DEF RiskInv
    <3> QED
        BY <2>2, <3>2 DEF RiskInv
  <2>3. ASSUME NEW w \in Workers, NEW r, desk' = [desk EXCEPT ![w] = r], UNCHANGED held,
               r.step \in {"idle", "mark"}, r.listed = {}, r.flagged = {}
        PROVE  RiskInv'
    <3>1. desk'[w] = r
        BY <2>3 DEF SInv
    <3>2. SoFar(w)'
        BY <1>2, <2>3, <3>1, NoList
    <3> QED
        BY <2>2, <2>3, <3>2
  <2>4. Idle.step = "idle" /\ Idle.listed = {} /\ Idle.flagged = {}
      BY DEF Idle
  <2>5. ASSUME NEW m \in Meetings, CreateMeeting(m) PROVE RiskInv'
      BY <2>1, <2>5 DEF CreateMeeting
  <2>6. ASSUME NEW w \in Workers, NEW e \in Entries, SaveMark(w, e) PROVE RiskInv'
      BY <2>3, <2>4, <2>6 DEF SaveMark
  <2>7. ASSUME NEW w \in Workers, NEW e \in Entries, NEW mark \in Marks, LoadMark(w, e, mark)
        PROVE  RiskInv'
    <3> DEFINE r == [Idle EXCEPT !.step = "mark", !.entry = {e}, !.loaded = roll[e], !.mark = mark]
    <3>1. r.step = "mark" /\ r.listed = {} /\ r.flagged = {}
        BY DEF Idle
    <3>2. desk' = [desk EXCEPT ![w] = r] /\ UNCHANGED held
        BY <2>7 DEF LoadMark, Begun
    <3> HIDE DEF r
    <3> QED
        BY <2>3, <3>1, <3>2
  <2>8. ASSUME NEW w \in Workers, NEW S, Begun(w, [Idle EXCEPT !.step = "list", !.todo = S])
        PROVE  RiskInv'
    <3> DEFINE r == [Idle EXCEPT !.step = "list", !.todo = S]
    <3>1. desk' = [desk EXCEPT ![w] = r] /\ UNCHANGED held
        BY <2>8 DEF Begun
    <3>2. desk'[w] = r
        BY <3>1 DEF SInv
    <3>3. SoFar(w)'
        BY <1>2, <3>2, ListBegins
    <3> HIDE DEF r
    <3> QED
        BY <2>2, <3>1, <3>3
  <2>9. ASSUME NEW w \in Workers, NEW o \in Offerings, ListOffering(w, o) PROVE RiskInv'
      BY <2>8, <2>9 DEF ListOffering
  <2>10. ASSUME NEW w \in Workers, NEW s \in Students, ListOwn(w, s) PROVE RiskInv'
      BY <2>8, <2>10 DEF ListOwn
  <2>11. ASSUME NEW w \in Workers, NEW x \in Seats, ReadRate(w, x), UNCHANGED vars PROVE RiskInv'
    <3>1. SoFar(w)'
        BY <1>2, <2>11, RateRead
    <3>2. PICK r : desk' = [desk EXCEPT ![w] = r]
        BY <2>11 DEF ReadRate
    <3> QED
        BY <2>2, <2>11, <3>1, <3>2 DEF ReadRate
  <2>12. ASSUME NEW w \in Workers, NEW x \in Seats, ReadAverage(w, x), UNCHANGED vars PROVE RiskInv'
    <3>1. SoFar(w)'
        BY <1>2, <2>12, AverageRead
    <3>2. PICK r : desk' = [desk EXCEPT ![w] = r]
        BY <2>12 DEF ReadAverage
    <3> QED
        BY <2>2, <2>12, <3>1, <3>2 DEF ReadAverage
  <2>13. ASSUME NEW w \in Workers, LeaveDesk(w) PROVE RiskInv'
      BY <2>3, <2>4, <2>13 DEF LeaveDesk
  <2>14. CASE StandingStep /\ UNCHANGED vars
      BY <2>5, <2>6, <2>7, <2>9, <2>10, <2>11, <2>12, <2>13, <2>14 DEF StandingStep
  <2>15. CASE UNCHANGED <<held, roll, desk>>
      BY <2>1, <2>15
  <2> QED
      BY <1>2, <2>14, <2>15 DEF StandingNext
<1> QED
    BY <1>1, <1>2

\* However many students, meetings, assessments and workers there are, and whatever is
\* marked, graded and published while a list asks: it names nobody who was not at risk at
\* some time since it began, and leaves out nobody who was so, for one reason, all along
\* (_at_risk_status, list_at_risk_students, my_at_risk_status).
THEOREM RiskListsAreFair == StandingSpec => []RiskListIsFair
<1>1. StandingInit => TInv /\ SInv /\ AssessmentsExist /\ RiskInv
    BY InitTInv, InitSInv, InitExist, InitRiskInv DEF StandingInit, Init
<1>2. TInv /\ SInv /\ AssessmentsExist /\ RiskInv /\ [StandingNext]_<<vars, standingVars>>
          => TInv' /\ SInv' /\ AssessmentsExist' /\ RiskInv'
  <2>1. TInv /\ AssessmentsExist /\ [Next]_vars => AssessmentsExist'
    <3>1. GInv /\ AssessmentsExist /\ UNCHANGED gradeVars => AssessmentsExist'
        BY DEF gradeVars, AssessmentsExist, Scored, Existing
    <3> QED
        BY <3>1, ExistStep, GradesMove DEF TInv
  <2> QED
      BY <2>1, StandingMoves, TInvStep, SInvStep, RiskInvStep
<1>3. RiskInv => RiskListIsFair
    BY DEF RiskInv, SoFar, RiskListIsFair
<1> QED
    BY <1>1, <1>2, <1>3, PTL DEF StandingSpec
=============================================================================
