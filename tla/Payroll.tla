------------------------------ MODULE Payroll ------------------------------
(***************************************************************************)
(* Payroll: schedules of rates and their verification, monthly runs, their *)
(* payslips and their approval (services/hr/app/routers/payroll.py,        *)
(* models/payroll.py), beside the hiring that makes employees.  Amounts    *)
(* are in Payslip.                                                         *)
(***************************************************************************)
EXTENDS Hiring

CONSTANTS Admins, Schedules, Runs, Periods

ASSUME PayrollAssumption == None \notin Admins \cup Schedules \cup Runs \cup Periods

VARIABLES
    schedule,   \* payroll_schedule_versions: author (None for rows older than
                \* the column) and verifier (None while it is not verified)
    run,        \* payroll_runs: period, schedule and approver (None for a draft)
    payslips,   \* payslips: pairs of a run and an employee
    payroll,    \* per worker: the request it serves
    approvalContested  \* history: runs that another request was at work on to approve when
                       \* one did

payrollVars == <<schedule, run, payslips, payroll, approvalContested>>

NoSchedule == [exists |-> FALSE, author |-> None, verifier |-> None]
Older == [exists |-> TRUE, author |-> None, verifier |-> None]
NoRun == [period |-> None, schedule |-> None, approver |-> None]
NoRequest == [step |-> "idle", admin |-> None, schedule |-> None, run |-> None,
              period |-> None, paid |-> {}]

PayrollTypeOK ==
    /\ schedule \in [Schedules -> [exists : BOOLEAN, author : Admins \cup {None},
                                   verifier : Admins \cup {None}]]
    /\ run \in [Runs -> [period : Periods \cup {None}, schedule : Schedules \cup {None},
                         approver : Admins \cup {None}]]
    /\ payslips \subseteq Runs \X Employees /\ approvalContested \subseteq Runs
    /\ payroll \in [Workers ->
           [step : {"idle", "verify", "flushed", "computed", "draft", "approve"},
            admin : Admins \cup {None}, schedule : Schedules \cup {None},
            run : Runs \cup {None}, period : Periods \cup {None},
            paid : SUBSET Employees]]

PayrollInit ==
    /\ schedule \in [Schedules -> {NoSchedule, Older}]
    /\ run = [r \in Runs |-> NoRun]
    /\ payslips = {} /\ approvalContested = {}
    /\ payroll = [w \in Workers |-> NoRequest]

BeginPayroll(w, request) ==
    /\ payroll[w] = NoRequest
    /\ payroll' = [payroll EXCEPT ![w] = request]
    /\ UNCHANGED <<schedule, run, payslips, approvalContested>>

EndPayroll(w) == payroll' = [payroll EXCEPT ![w] = NoRequest]

-----------------------------------------------------------------------------
\* POST /payroll/schedules
CreateSchedule(a, s) ==
    /\ schedule[s] = NoSchedule
    /\ schedule' = [schedule EXCEPT ![s] = [Older EXCEPT !.author = a]]
    /\ UNCHANGED <<run, payslips, payroll, approvalContested>>

\* Variant: the author is not refused.
LoadScheduleOfAnybody(w, a, s) ==
    /\ schedule[s].exists /\ schedule[s].verifier = None
    /\ BeginPayroll(w, [NoRequest EXCEPT !.step = "verify", !.admin = a, !.schedule = s])

\* PATCH /payroll/schedules/{id}/verify: by somebody else than the author, if there
\* is one on record, and once.
LoadSchedule(w, a, s) ==
    /\ schedule[s].exists /\ schedule[s].author # a /\ schedule[s].verifier = None
    /\ BeginPayroll(w, [NoRequest EXCEPT !.step = "verify", !.admin = a, !.schedule = s])

Verify(w, s) ==
    /\ payroll[w].step = "verify" /\ payroll[w].schedule = s
    /\ schedule' = [schedule EXCEPT ![s].verifier = payroll[w].admin]
    /\ EndPayroll(w)
    /\ UNCHANGED <<run, payslips, approvalContested>>

\* POST /payroll/runs: the run is flushed, which waits for another one of the period
\* and fails if that one commits (uq_payroll_runs_period).
FlushRun(w, r, p, s) ==
    /\ schedule[s].exists
    /\ \A v \in Workers : payroll[v].period # p
    /\ \A q \in Runs : run[q].period # p
    /\ run[r] = NoRun /\ \A v \in Workers : payroll[v].run # r
    /\ BeginPayroll(w, [NoRequest EXCEPT !.step = "flushed", !.schedule = s,
                            !.run = r, !.period = p])

\* A payslip for every active employee there is now.
ComputePayslips(w) ==
    /\ payroll[w].step = "flushed"
    /\ payroll' = [payroll EXCEPT ![w] =
                       [@ EXCEPT !.step = "computed", !.paid = {e \in Employees : employee[e] # None}]]
    /\ UNCHANGED <<schedule, run, payslips, approvalContested>>

CommitRun(w, r) ==
    /\ payroll[w].step = "computed" /\ payroll[w].run = r
    /\ run' = [run EXCEPT ![r] =
                   [@ EXCEPT !.period = payroll[w].period, !.schedule = payroll[w].schedule]]
    /\ payslips' = payslips \cup ({r} \X payroll[w].paid)
    /\ EndPayroll(w)
    /\ UNCHANGED <<schedule, approvalContested>>

\* Variant: a run that is approved already is not refused.
LoadAnyRun(w, a, r) ==
    /\ run[r] # NoRun
    /\ BeginPayroll(w, [NoRequest EXCEPT !.step = "draft", !.admin = a, !.run = r])

\* POST /payroll/runs/{id}/approve: a draft, then its schedule, which is verified.
LoadDraft(w, a, r) ==
    /\ run[r] # NoRun /\ run[r].approver = None
    /\ BeginPayroll(w, [NoRequest EXCEPT !.step = "draft", !.admin = a, !.run = r])

LoadVerified(w, r) ==
    /\ payroll[w].step = "draft" /\ payroll[w].run = r
    /\ \E s \in Schedules : run[r].schedule = s /\ schedule[s].verifier # None
    /\ payroll' = [payroll EXCEPT ![w].step = "approve"]
    /\ UNCHANGED <<schedule, run, payslips, approvalContested>>

Approve(w, r) ==
    /\ payroll[w].step = "approve" /\ payroll[w].run = r
    /\ run' = [run EXCEPT ![r].approver = payroll[w].admin]
    /\ EndPayroll(w)
    /\ approvalContested' =
           IF \E v \in Workers \ {w} : payroll[v].step \in {"draft", "approve"} /\ payroll[v].run = r
           THEN approvalContested \cup {r} ELSE approvalContested
    /\ UNCHANGED <<schedule, payslips>>

\* A request is refused, or its process or client goes away: a flushed run goes with
\* its transaction.
LeavePayroll(w) ==
    /\ payroll[w] # NoRequest
    /\ EndPayroll(w)
    /\ UNCHANGED <<schedule, run, payslips, approvalContested>>

PayrollNext ==
    \/ \E a \in Admins, s \in Schedules : CreateSchedule(a, s)
    \/ \E w \in Workers :
           \/ \E a \in Admins :
                  \/ \E s \in Schedules : LoadSchedule(w, a, s)
                  \/ \E r \in Runs : LoadDraft(w, a, r)
           \/ \E s \in Schedules :
                  \/ Verify(w, s)
                  \/ \E r \in Runs, p \in Periods : FlushRun(w, r, p, s)
           \/ \E r \in Runs : CommitRun(w, r) \/ LoadVerified(w, r) \/ Approve(w, r)
           \/ ComputePayslips(w) \/ LeavePayroll(w)

PersonnelInit == HiringInit /\ PayrollInit
PersonnelNext ==
    \/ HiringNext /\ UNCHANGED payrollVars
    \/ PayrollNext /\ UNCHANGED hiringVars
personnelVars == <<hiringVars, payrollVars>>

-----------------------------------------------------------------------------
(* Properties *)

\* Who approves a run relies on rates that somebody else than their author has
\* attested to, as far as the author is on record (verify_schedule_version and
\* approve_payroll_run, which look at it at different times and lock nothing).
FourEyes ==
    \A r \in Runs : run[r].approver # None =>
        \E s \in Schedules :
            /\ run[r].schedule = s
            /\ schedule[s].verifier \notin {None, schedule[s].author}

\* An employee has one payslip for a period, whatever runs overlap (the unique
\* constraints on runs and payslips).  A candidate has one too, unless his stage was set
\* by hand or two requests overlapped on him: those may make him two employees, who are
\* both paid (create_payroll_run, hire_candidate).
PaidOnce ==
    \A x, y \in payslips :
        /\ run[x[1]].period = run[y[1]].period
        /\ x[2] = y[2] \/ (employee[x[2]] = employee[y[2]] /\ employee[x[2]] \in Settled)
        => x = y

\* An approved run keeps its approver, its schedule and its payslips, unless another
\* request to approve it that had found it a draft was under way (approve_payroll_run
\* refuses a run that it finds approved; models/payroll.py: "Immutable once its run is
\* approved").
ApprovalStands ==
    [][\A r \in Runs \ approvalContested : run[r].approver # None =>
           /\ run'[r] = run[r]
           /\ {x \in payslips' : x[1] = r} = {x \in payslips : x[1] = r}]_personnelVars
=============================================================================
