------------------------ MODULE MCEnrollmentPipeline ------------------------
(* Instances of EnrollmentPipeline for TLC. *)
EXTENDS EnrollmentPipeline, TLC

CONSTANTS s1, s2, k1, k2

\* Two places of different programs.
TwoKeys == s1 :> k1 @@ s2 :> k2

\* Events, requests, publishers and handlers are interchangeable; used by the
\* runs that check invariants only.
Symmetry ==
    Permutations(Events) \cup Permutations(Requests)
        \cup Permutations(Publishers) \cup Permutations(Handlers)
=============================================================================
