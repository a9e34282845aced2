---------------------------- MODULE MCCoursework ----------------------------
(* An instance of Standing, with the coursework it extends, for TLC. *)
EXTENDS Standing, TLC

CONSTANTS c1, c2, c3, o1, o2, a1, a2, a3, m1, m2, m3, m4

\* Offerings of the first two courses; grades and meetings are in the second.
TwoOfferings == o1 :> c1 @@ o2 :> c2
Graded == [a \in Assessments |-> o2]
Held == [m \in Meetings |-> o2]

Unused == {p \in Appeals : appeal[p] = NoAppeal}
NoGrade(a) ==
    \A g \in GradeIds :
        g[1] = a => score[g] = None /\ \A w \in Workers : g \notin work[w].grades

\* Courses, then offerings, then assessments are created first, in a given order.
Everything == /\ catalog = Courses \cup Offerings
              /\ created = <<a1, a2, a3>>
AtFirst ==
    /\ task = [w \in Workers |-> NoTask] /\ prereq = {} /\ registered = {} /\ held = {}
    /\ \A a \in Assessments : NoGrade(a)
    /\ work = [w \in Workers |-> Free] /\ desk = [w \in Workers |-> Idle]
InOrder ==
    /\ \A i \in 1..Len(created) : created[i] = <<a1, a2, a3>>[i]
    /\ c2 \in catalog => c1 \in catalog
    /\ c3 \in catalog => c2 \in catalog
    /\ o2 \in catalog => {c3, o1} \subseteq catalog
    /\ held \in {{}, {m1}, {m1, m2}, {m1, m2, m3}, {m1, m2, m3, m4}}

\* The requests about courses are for these.
Only(edges, seats) ==
    /\ prereq \subseteq edges /\ registered \subseteq seats
    /\ \A w \in Workers : task[w].edge \subseteq edges /\ task[w].seat \subseteq seats

NoClass == held = {} /\ \A w \in Workers : desk[w] = Idle

\* What one behaviour may have: the graph of all courses; or the first course
\* requires the second one, which has two grades or an appeal, and is registered
\* for; or one grade with all appeals; or registered students with four meetings or
\* with three grades and a meeting, one change at a time, and their lists.
\* Requests that change nothing, and entries after the last appeal, are left out.
Bound ==
    /\ Everything \/ AtFirst
    /\ InOrder
    /\ \A w \in Workers :
           /\ work[w].step = "publish" => ~(work[w].grades \subseteq published)
           /\ work[w].step = "enter" => Unused # {}
           /\ work[w].step = "decide" => work[w].status \in Open
    /\ \/ NoGrade(a1) /\ NoGrade(a2) /\ NoGrade(a3) /\ Only(Edges, {}) /\ NoClass
       \/ /\ Only({<<c1, c2>>}, Students \X {o1}) /\ NoGrade(a3) /\ NoClass
          /\ Unused = Appeals \/ (Unused # {} /\ NoGrade(a2))
       \/ Only({}, {}) /\ NoGrade(a2) /\ NoGrade(a3) /\ NoClass
       \/ /\ Only({}, Students \X {o2})
          /\ Unused = Appeals /\ contested = {} /\ \A w \in Workers : work[w].step # "appeal"
          /\ Cardinality({w \in Workers : work[w] # Free \/ desk[w].step = "mark"}) <= 1
          /\ \/ NoGrade(a1) /\ NoGrade(a2) /\ NoGrade(a3)
             \/ /\ Cardinality(held) <= 1
                /\ NoGrade(a3) \/ {a1, a2} \X Students \subseteq published

MCSpec == StandingInit /\ [][StandingNext /\ Bound']_<<vars, standingVars>>

Symmetry == Permutations(Workers) \cup Permutations(Appeals)
=============================================================================
