-------------------------- MODULE MCHumanResources --------------------------
(***************************************************************************)
(* HumanResources for TLC.  One behaviour visits one part, the others stay *)
(* as they are, so the states are the sum of those of the parts.           *)
(***************************************************************************)
EXTENDS HumanResources, TLC

CONSTANTS e1, e2, u1, u2

\* The first employee has an account, the second none.
Accounts == e1 :> u1 @@ e2 :> None

UpToTwo == {-2, -1, 1, 2}

\* Rates as in the example of the tests, on a small scale; and a contribution and a tax
\* that leave next to nothing.
Bracket(upTo, rate) == [upTo |-> upTo, rate |-> rate]
Example == [ceiling |-> 40, employee |-> 1, employer |-> 2, deduction |-> 6,
            brackets |-> <<Bracket(20, 2), Bracket(45, 5), Bracket(-1, 7)>>]
Greedy == [ceiling |-> 50, employee |-> 10, employer |-> 20, deduction |-> 0,
           brackets |-> <<Bracket(7, 0), Bracket(20, 19), Bracket(-1, 20)>>]
Tables == {Example, Greedy}

\* Bounds: one part has left its initial state; a process serves one request at a time;
\* what employees are given and give back; the stages candidates go through, one
\* of which is visited only before there is any payroll.
Visited == (IF PersonnelInit THEN 0 ELSE 1) + (IF LeaveInit THEN 0 ELSE 1)
           + (IF AssetsInit THEN 0 ELSE 1) + (IF AttendanceInit THEN 0 ELSE 1)
           + (IF gross = 0 THEN 0 ELSE 1)
MaxMoved == 2
VisitedStages == {"applied", "hired"} \cup (IF PayrollInit THEN {"interview"} ELSE {})
OnePart ==
    /\ Visited <= 1
    /\ \A w \in Workers : hiring[w] = NotHiring \/ payroll[w] = NoRequest
    /\ \A c \in Candidates : candidate[c] \in VisitedStages \cup {"absent"}
    /\ \A w \in Workers : hiring[w].stage \in VisitedStages
    /\ \A i \in Items, e \in Movers : moved[i][e] \in -MaxMoved..MaxMoved

MCSpec == Init /\ [][Next /\ OnePart']_parts

Symmetry == Permutations(Workers)
=============================================================================
