------------------------------- MODULE Hiring -------------------------------
(***************************************************************************)
(* Candidates for a position become employees (services/hr/app/routers/    *)
(* recruitment.py, models/recruitment.py, models/employees.py).  A         *)
(* candidate's stage may also be edited by hand, to any stage and from     *)
(* any.  Nothing is locked.  Names, departments and salaries are left out. *)
(***************************************************************************)
EXTENDS FiniteSets

CONSTANTS Positions, Candidates, Employees, Workers, None

ASSUME EmployeesAssumption ==
    None \notin Positions \cup Candidates \cup Employees /\ IsFiniteSet(Employees)

VARIABLES
    position,      \* positions.status
    candidate,     \* candidates.stage
    appliedFor,    \* candidates.position_id
    employee,      \* employees.candidate_id, None for a row that is not there
    hiring,        \* per worker: the request it serves
    byHand,        \* history: candidates put into or taken out of "hired" by hand
    hireContested  \* history: candidates and positions two requests were at work on at a
                   \* commit

hiringVars == <<position, candidate, appliedFor, employee, hiring, byHand, hireContested>>

Stages == {"applied", "screening", "interview", "offer", "hired", "rejected"}
NotHiring == [step |-> "idle", position |-> None, candidate |-> None, stage |-> "applied"]

HiringTypeOK ==
    /\ position \in [Positions -> {"absent", "open", "closed"}]
    /\ candidate \in [Candidates -> Stages \cup {"absent"}]
    /\ appliedFor \in [Candidates -> Positions \cup {None}]
    /\ employee \in [Employees -> Candidates \cup {None}]
    /\ hiring \in [Workers -> [step : {"idle", "loaded", "applying", "closing"}, stage : Stages,
                               position : Positions \cup {None},
                               candidate : Candidates \cup {None}]]
    /\ byHand \subseteq Candidates /\ hireContested \subseteq Candidates \cup Positions

HiringInit ==
    /\ position = [p \in Positions |-> "absent"]
    /\ candidate = [c \in Candidates |-> "absent"]
    /\ appliedFor = [c \in Candidates |-> None]
    /\ employee = [e \in Employees |-> None]
    /\ hiring = [w \in Workers |-> NotHiring]
    /\ byHand = {} /\ hireContested = {}

Jobs(c) == {e \in Employees : employee[e] = c}

\* POST /positions
CreatePosition(p) ==
    /\ position[p] = "absent"
    /\ position' = [position EXCEPT ![p] = "open"]
    /\ UNCHANGED <<candidate, appliedFor, employee, hiring, byHand, hireContested>>

\* Variant: a closed position still accepts candidates.
LoadAnyPosition(w, p, step) ==
    /\ hiring[w] = NotHiring
    /\ position[p] # "absent"
    /\ hiring' = [hiring EXCEPT ![w] = [NotHiring EXCEPT !.step = step, !.position = p]]
    /\ UNCHANGED <<position, candidate, appliedFor, employee, byHand, hireContested>>

\* POST /positions/{id}/close and POST /candidates load an open position first.
LoadPosition(w, p, step) ==
    /\ hiring[w] = NotHiring
    /\ position[p] = "open"
    /\ hiring' = [hiring EXCEPT ![w] = [NotHiring EXCEPT !.step = step, !.position = p]]
    /\ UNCHANGED <<position, candidate, appliedFor, employee, byHand, hireContested>>

Close(w, p) ==
    /\ hiring[w].step = "closing" /\ hiring[w].position = p
    /\ position' = [position EXCEPT ![p] = "closed"]
    /\ hiring' = [hiring EXCEPT ![w] = NotHiring]
    /\ hireContested' = IF \E v \in Workers \ {w} : hiring[v].position = p
                        THEN hireContested \cup {p} ELSE hireContested
    /\ UNCHANGED <<candidate, appliedFor, employee, byHand>>

CreateCandidate(w, p, c) ==
    /\ hiring[w].step = "applying" /\ hiring[w].position = p
    /\ candidate[c] = "absent"
    /\ candidate' = [candidate EXCEPT ![c] = "applied"]
    /\ appliedFor' = [appliedFor EXCEPT ![c] = p]
    /\ hiring' = [hiring EXCEPT ![w] = NotHiring]
    /\ UNCHANGED <<position, employee, byHand, hireContested>>

\* Stage and hire load the candidate first.
LoadCandidate(w, c) ==
    /\ hiring[w] = NotHiring
    /\ candidate[c] # "absent"
    /\ hiring' = [hiring EXCEPT ![w] =
                      [NotHiring EXCEPT !.step = "loaded", !.candidate = c, !.stage = candidate[c]]]
    /\ UNCHANGED <<position, candidate, appliedFor, employee, byHand, hireContested>>

CommitHiring(w, c) ==
    /\ hiring[w].step = "loaded" /\ hiring[w].candidate = c
    /\ hiring' = [hiring EXCEPT ![w] = NotHiring]
    /\ hireContested' = IF \E v \in Workers \ {w} : hiring[v].candidate = c
                        THEN hireContested \cup {c} ELSE hireContested
    /\ UNCHANGED <<position, appliedFor>>

\* PATCH /candidates/{id}/stage; the ORM writes a stage that differs.
SetStage(w, c, to) ==
    /\ CommitHiring(w, c)
    /\ candidate' = IF to = hiring[w].stage THEN candidate ELSE [candidate EXCEPT ![c] = to]
    /\ byHand' = IF "hired" \in {to, hiring[w].stage} THEN byHand \cup {c} ELSE byHand
    /\ UNCHANGED employee

\* Variant: who is hired already is not refused.
HireAnyway(w, c, e) ==
    /\ CommitHiring(w, c)
    /\ employee[e] = None
    /\ employee' = [employee EXCEPT ![e] = c]
    /\ candidate' = [candidate EXCEPT ![c] = "hired"]
    /\ UNCHANGED byHand

\* POST /candidates/{id}/hire: employee and stage in one commit.
Hire(w, c, e) ==
    /\ CommitHiring(w, c)
    /\ hiring[w].stage # "hired"
    /\ employee[e] = None
    /\ employee' = [employee EXCEPT ![e] = c]
    /\ candidate' = [candidate EXCEPT ![c] = "hired"]
    /\ UNCHANGED byHand

\* A request is refused, or its process or client goes away.
LeaveHiring(w) ==
    /\ hiring[w] # NotHiring
    /\ hiring' = [hiring EXCEPT ![w] = NotHiring]
    /\ UNCHANGED <<position, candidate, appliedFor, employee, byHand, hireContested>>

HiringNext ==
    \/ \E p \in Positions : CreatePosition(p)
    \/ \E w \in Workers :
        \/ \E p \in Positions :
               \/ \E step \in {"applying", "closing"} : LoadPosition(w, p, step)
               \/ Close(w, p)
               \/ \E c \in Candidates : CreateCandidate(w, p, c)
        \/ \E c \in Candidates :
               \/ LoadCandidate(w, c)
               \/ \E to \in Stages : SetStage(w, c, to)
               \/ \E e \in Employees : Hire(w, c, e)
        \/ LeaveHiring(w)

-----------------------------------------------------------------------------
(* Properties *)

\* A candidate is hired exactly if there is an employee for him, and there is one at
\* most, unless his stage was set by hand or two requests were at work on him at a
\* time (hire_candidate moves candidate and employee together).
Settled == Candidates \ (byHand \cup hireContested)
HiredMeansEmployed ==
    \A c \in Settled : Cardinality(Jobs(c)) = IF candidate[c] = "hired" THEN 1 ELSE 0

\* A closed position gets no candidate, unless a request that found it open was under
\* way when it was closed (close_position: "Stops the position accepting new candidates").
ClosedToApplicants ==
    [][\A p \in Positions \ hireContested :
           position[p] = "closed" =>
               {c \in Candidates : appliedFor'[c] = p} = {c \in Candidates : appliedFor[c] = p}
      ]_hiringVars
=============================================================================
