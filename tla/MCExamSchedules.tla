-------------------------- MODULE MCExamSchedules --------------------------
(* Instances of ExamSchedules for TLC. *)
EXTENDS ExamSchedules, TLC

\* Two hours that touch.
TouchingHours == {<<1, 2>>, <<2, 3>>}

\* Everything but time is interchangeable.
Symmetry ==
    Permutations(Workers) \cup Permutations(Rooms) \cup Permutations(Students)
        \cup Permutations(Offerings) \cup Permutations(Instructors)
=============================================================================
