------------------------------ MODULE MCRoles ------------------------------
(* Instances of Roles for TLC. *)
EXTENDS Roles, TLC

\* Accounts that start alike, and workers, are interchangeable.
Symmetry ==
    Permutations(FirstAdmins) \cup Permutations(Applicants)
        \cup Permutations(Users \ (FirstAdmins \cup Applicants))
        \cup Permutations(Workers)
=============================================================================
