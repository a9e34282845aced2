---------------------------- MODULE MCSummaries ----------------------------
(* An instance of Summaries for TLC. *)
EXTENDS Summaries

\* The last month does not end, so nothing is posted in it nor asked for of it.
Bound ==
    /\ \A p \in Postings : posting[p].month < MaxMonth
    /\ \A r \in Requests : job[r].period < MaxMonth

MCSpec == Init /\ [][Next /\ Bound']_vars /\ Fairness
=============================================================================
