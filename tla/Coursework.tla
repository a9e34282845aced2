----------------------------- MODULE Coursework -----------------------------
(***************************************************************************)
(* Courses with their prerequisites and registrations, beside the grades   *)
(* that decide whether a prerequisite is passed (services/academic/app/    *)
(* routers/courses.py, models/courses.py; grades as in Grades).            *)
(*                                                                         *)
(* The students are enrolled in every term, and in the one program.  An    *)
(* offering goes by its course and its term (uq_course_offerings_...).  A  *)
(* worker serves one request at a time, of either kind.                    *)
(***************************************************************************)
EXTENDS Grades, FiniteSetsExt

CONSTANTS Courses, Offerings,
          CourseOf,     \* course_offerings.course_id
          OfferingOf    \* assessments.course_offering_id

ASSUME CourseAssumption == CourseOf \in [Offerings -> Courses] /\ Courses \cap Offerings = {}
ASSUME OfferingAssumption == OfferingOf \in [Assessments -> Offerings]

VARIABLES
    catalog,      \* courses and course_offerings, by identifier
    prereq,       \* course_prerequisites: pairs of a course and what it requires
    registered,   \* course_registrations: pairs of a student and an offering
    task,         \* per worker: the request about courses it serves
    raced,        \* history: edges inserted beside one their check had not seen
    owed,         \* history, per registration: the prerequisites it found
    everPassed    \* history: pairs of a student and a course passed at some time

courseVars == <<catalog, prereq, registered, task, raced, owed>>
vars == <<gradeVars, courseVars, everPassed>>

Edges == Courses \X Courses
Seats == Students \X Offerings

NoTask == [step |-> "idle", edge |-> {}, seen |-> {}, seat |-> {}, todo |-> {}, owed |-> {}]
Task == [step : {"idle", "edge", "seat"}, edge : SUBSET Edges, seen : SUBSET Edges,
         seat : SUBSET Seats, todo : SUBSET Courses, owed : SUBSET Courses]

TypeOK ==
    /\ GradesTypeOK
    /\ catalog \subseteq Courses \cup Offerings
    /\ prereq \subseteq Edges /\ raced \subseteq Edges
    /\ registered \subseteq Seats
    /\ task \in [Workers -> Task]
    /\ owed \in [Seats -> SUBSET Courses]
    /\ everPassed \subseteq Students \X Courses

Init ==
    /\ GradesInit
    /\ catalog = {} /\ prereq = {} /\ raced = {} /\ registered = {} /\ everPassed = {}
    /\ task = [w \in Workers |-> NoTask]
    /\ owed = [r \in Seats |-> {}]

Required(edges, courses) == {c \in Courses : \E b \in courses : <<b, c>> \in edges}

\* Variant: only what start itself requires.
RequiresDirectly(edges, start, target) == target \in Required(edges, {start})

\* The recursive query of _would_create_cycle: target is in the least set that has
\* what start requires and, with a course, what that one requires.
Reaches(edges, start, target) ==
    \A S \in SUBSET Courses :
        Required(edges, {start}) \subseteq S /\ Required(edges, S) \subseteq S
            => target \in S

\* The query of _unmet_prerequisites: in some offering of the course, the average
\* of the student's published grades is half of the maximum or more.
PublishedIn(s, o) == {g \in published : g[2] = s /\ OfferingOf[g[1]] = o}
Total(scores, grades) == MapThenSumSet(LAMBDA g : scores[g], grades)
Passed(s, c) ==
    \E o \in Offerings :
        /\ CourseOf[o] = c
        /\ PublishedIn(s, o) # {}
        /\ 2 * Total(score, PublishedIn(s, o))
               >= Cardinality(PublishedIn(s, o)) * MaxScore

-----------------------------------------------------------------------------
\* POST /courses and POST /course-offerings
CreateCourse(c) ==
    /\ c \notin catalog
    /\ catalog' = catalog \cup {c}
    /\ UNCHANGED <<prereq, registered, task, raced, owed>>

CreateOffering(o) ==
    /\ CourseOf[o] \in catalog /\ o \notin catalog
    /\ catalog' = catalog \cup {o}
    /\ UNCHANGED <<prereq, registered, task, raced, owed>>

\* The worker is idle and begins a request about courses.
Take(w, request) ==
    /\ work[w] = Free /\ task[w] = NoTask
    /\ task' = [task EXCEPT ![w] = request]
    /\ UNCHANGED <<catalog, prereq, registered, raced, owed>>

Done(w) == task' = [task EXCEPT ![w] = NoTask]

\* POST /courses/{id}/prerequisites: no course requires itself, by itself or
\* through the edges there are.
CheckCycle(w, course, required) ==
    /\ {course, required} \subseteq catalog /\ course # required
    /\ ~Reaches(prereq, required, course)
    /\ Take(w, [NoTask EXCEPT !.step = "edge", !.edge = {<<course, required>>},
                    !.seen = prereq])

\* The insert; uq_course_prerequisites_edge refuses an edge that is there.
InsertPrerequisite(w) ==
    /\ task[w].step = "edge"
    /\ prereq' = prereq \cup task[w].edge
    /\ raced' = IF task[w].edge \subseteq prereq \/ prereq = task[w].seen THEN raced
                ELSE raced \cup task[w].edge
    /\ Done(w)
    /\ UNCHANGED <<catalog, registered, owed>>

\* Variant: grades count that are not published.
QueryGraded(w, s, c) ==
    /\ task[w].step = "seat" /\ c \in task[w].todo
    /\ \E o \in Offerings : task[w].seat = {<<s, o>>}
    /\ \E g \in GradeIds : /\ g[2] = s /\ CourseOf[OfferingOf[g[1]]] = c
                           /\ score[g] # None /\ 2 * score[g] >= MaxScore
    /\ task' = [task EXCEPT ![w].todo = @ \ {c}]
    /\ UNCHANGED <<catalog, prereq, registered, raced, owed>>

\* POST /course-registrations: the prerequisites are read, then one after the other
\* whether the student has passed it.
LoadPrerequisites(w, s, o) ==
    LET required == Required(prereq, {CourseOf[o]}) IN
    /\ o \in catalog
    /\ Take(w, [NoTask EXCEPT !.step = "seat", !.seat = {<<s, o>>},
                    !.todo = required, !.owed = required])

QueryPassed(w, s, c) ==
    /\ task[w].step = "seat" /\ c \in task[w].todo
    /\ \E o \in Offerings : task[w].seat = {<<s, o>>}
    /\ Passed(s, c)
    /\ task' = [task EXCEPT ![w].todo = @ \ {c}]
    /\ UNCHANGED <<catalog, prereq, registered, raced, owed>>

\* The insert; a student is registered once (uq_course_registrations_...).
InsertRegistration(w, seat) ==
    /\ task[w].step = "seat" /\ task[w].seat = {seat} /\ task[w].todo = {}
    /\ registered' = registered \cup {seat}
    /\ owed' = IF seat \in registered THEN owed ELSE [owed EXCEPT ![seat] = task[w].owed]
    /\ Done(w)
    /\ UNCHANGED <<catalog, prereq, raced>>

\* A prerequisite is unmet (409), or the process or the client goes away.
GiveUp(w) ==
    /\ task[w] # NoTask
    /\ Done(w)
    /\ UNCHANGED <<catalog, prereq, registered, raced, owed>>

CoursesStep(w) ==
    \/ \E c, d \in Courses : CheckCycle(w, c, d)
    \/ \E s \in Students, o \in Offerings :
           LoadPrerequisites(w, s, o) \/ InsertRegistration(w, <<s, o>>)
    \/ \E s \in Students, c \in Courses : QueryPassed(w, s, c)
    \/ InsertPrerequisite(w) \/ GiveUp(w)

Next ==
    /\ \/ \E c \in Courses : CreateCourse(c) /\ UNCHANGED gradeVars
       \/ \E o \in Offerings : CreateOffering(o) /\ UNCHANGED gradeVars
       \/ \E a \in Assessments :
              OfferingOf[a] \in catalog /\ CreateAssessment(a) /\ UNCHANGED courseVars
       \/ \E w \in Workers :
              \/ GradesStep(w) /\ task[w] = NoTask /\ UNCHANGED courseVars
              \/ CoursesStep(w) /\ UNCHANGED gradeVars
    /\ everPassed' = everPassed \cup {p \in Students \X Courses : Passed(p[1], p[2])'}

Spec == Init /\ [][Next]_vars

-----------------------------------------------------------------------------
(* Properties *)

\* No set of courses in which each requires another one of the set.
Acyclic(edges) ==
    \A S \in SUBSET Courses : S # {} => \E c \in S : Required(edges, {c}) \cap S = {}

\* Every cycle of prerequisites goes through an edge that was inserted beside one
\* its check had not seen: checked one at a time, courses never require each other,
\* directly or through others (_would_create_cycle, add_prerequisite).
CyclesAreRaced == Acyclic(prereq \ raced)

\* A registered student has at some time passed every prerequisite the request
\* found, by grades that were published (_unmet_prerequisites reads them one by one
\* while grades are published, typed in again and appealed).
RegisteredHadPassed ==
    \A r \in registered, c \in Courses : c \in owed[r] => <<r[1], c>> \in everPassed
=============================================================================
