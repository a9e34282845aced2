----------------------------- MODULE Summaries -----------------------------
(***************************************************************************)
(* Monthly summaries of the ledger (services/finance/app/summaries.py,     *)
(* routers/summaries.py, models/summaries.py, the second loop of           *)
(* payment_worker.py) beside the transactions that post to it              *)
(* (routers/expenses.py, ledger.py).  Every statement reads what is        *)
(* committed by then.  A posting has the time its transaction began        *)
(* (created_at defaults to now()), so it may be committed in a later month *)
(* than it is in.  A summary's totals are the sums over the postings it    *)
(* counted, and are modelled as the set of these.                          *)
(***************************************************************************)
EXTENDS Naturals

CONSTANTS
    Institutions, Postings,
    Worker,       \* the catch-up loop of the one finance-worker process
    Requests,     \* requests to regenerate that may be served at a time
    None,
    MaxMonth,     \* bounds: months, requests to regenerate in all, and how often a
    MaxRequests,  \* transaction is rolled back from outside
    MaxFailures

ASSUME SummariesAssumption ==
    /\ MaxMonth \in Nat \ {0} /\ MaxRequests \in Nat /\ MaxFailures \in Nat
    /\ Worker \notin Requests /\ None \notin Institutions

VARIABLES
    now,        \* the current month
    posting,    \* ledger_entries, by posting_id: institution and month of created_at
    overdue,    \* history: postings that were still open when their month ended
    summaries,  \* financial_summaries, and (history) whether the worker made them
    job,        \* per transaction: where it is, and what it has read and inserted
    asked,      \* requests to regenerate so far
    failures    \* transactions rolled back from outside so far

vars == <<now, posting, overdue, summaries, job, asked, failures>>

Months == 1..MaxMonth
\* The worker makes a version 1 only, each request one more.
Versions == 1..(MaxRequests + 1)
Jobs == Requests \cup {Worker}
Row == [institution : Institutions, period : Months, version : Versions,
        counted : SUBSET Postings, caughtUp : BOOLEAN]

Job == [step : {"idle", "next", "exists", "version", "totals", "insert", "commit"},
        institution : Institutions \cup {None}, todo : SUBSET Institutions, last : Months,
        period : Months, version : Versions, counted : SUBSET Postings, rows : SUBSET Row]

NoPosting == [state |-> "none", institution |-> None, month |-> 1]
NoJob == [step |-> "idle", institution |-> None, todo |-> {}, last |-> 1, period |-> 1,
          version |-> 1, counted |-> {}, rows |-> {}]

TypeOK ==
    /\ now \in Months /\ asked \in 0..MaxRequests /\ failures \in 0..MaxFailures
    /\ overdue \subseteq Postings
    /\ posting \in [Postings -> [state : {"none", "open", "posted"},
                                 institution : Institutions \cup {None}, month : Months]]
    /\ summaries \subseteq Row
    /\ job \in [Jobs -> Job]

Init ==
    /\ now = 1 /\ asked = 0 /\ failures = 0 /\ overdue = {} /\ summaries = {}
    /\ posting = [p \in Postings |-> NoPosting]
    /\ job = [j \in Jobs |-> NoJob]

-----------------------------------------------------------------------------
(* The ledger *)

Posted(i, m) ==
    {p \in Postings : posting[p] = [state |-> "posted", institution |-> i, month |-> m]}

\* POST /expenses, and likewise a settled payment: the lines of one posting are added in
\* one transaction.
OpenPosting(p, i) ==
    /\ posting[p] = NoPosting
    /\ posting' = [posting EXCEPT ![p] = [state |-> "open", institution |-> i, month |-> now]]
    /\ UNCHANGED <<now, overdue, summaries, job, asked, failures>>

CommitPosting(p) ==
    /\ posting[p].state = "open"
    /\ posting' = [posting EXCEPT ![p].state = "posted"]
    /\ UNCHANGED <<now, overdue, summaries, job, asked, failures>>

NextMonth ==
    /\ now < MaxMonth
    /\ now' = now + 1
    /\ overdue' = overdue \cup {p \in Postings : posting[p].state = "open"}
    /\ UNCHANGED <<posting, summaries, job, asked, failures>>

-----------------------------------------------------------------------------
(* generate_summary, in a transaction j *)

\* What j sees of a month's summaries: the committed ones and its own.
Seen(j) ==
    {s \in summaries \cup job[j].rows :
        s.institution = job[j].institution /\ s.period = job[j].period}
SeenVersions(j) == {s.version : s \in Seen(j)}

ReadVersion(j) ==
    /\ job[j].step = "version"
    /\ \E v \in Versions :
           /\ v = 1 \/ v - 1 \in SeenVersions(j)
           /\ \A u \in SeenVersions(j) : u < v
           /\ job' = [job EXCEPT ![j].step = "totals", ![j].version = v]
    /\ UNCHANGED <<now, posting, overdue, summaries, asked, failures>>

ReadTotals(j) ==
    /\ job[j].step = "totals"
    /\ job' = [job EXCEPT ![j].step = "insert",
                          ![j].counted = Posted(job[j].institution, job[j].period)]
    /\ UNCHANGED <<now, posting, overdue, summaries, asked, failures>>

\* The worker goes on with its next month.
AddRow(j, v) ==
    job' = [job EXCEPT
        ![j].step = IF j = Worker THEN "exists" ELSE "commit",
        ![j].rows = @ \cup {[institution |-> job[j].institution, period |-> job[j].period,
                             version |-> v, counted |-> job[j].counted,
                             caughtUp |-> j = Worker]},
        ![j].version = 1, ![j].counted = {}]

\* Variant: the version is read after the totals.
InsertNextVersion(j) ==
    /\ job[j].step = "insert"
    /\ \E v \in Versions :
           /\ v = 1 \/ v - 1 \in SeenVersions(j)
           /\ \A u \in SeenVersions(j) : u < v
           /\ AddRow(j, v)
    /\ UNCHANGED <<now, posting, overdue, summaries, asked, failures>>

SameKey(s, j) ==
    /\ s.institution = job[j].institution
    /\ s.period = job[j].period
    /\ s.version = job[j].version

\* uq_financial_summaries_period_version: the insert waits for one of the same key that
\* is not committed, and fails if that is; then the transaction is rolled back, with all
\* the months a catch-up has added, and the loop tries again in an hour.
Insert(j) ==
    /\ job[j].step = "insert"
    /\ \A s \in summaries \cup UNION {job[k].rows : k \in Jobs} : ~SameKey(s, j)
    /\ AddRow(j, job[j].version)
    /\ UNCHANGED <<now, posting, overdue, summaries, asked, failures>>

Clash(j) ==
    /\ job[j].step = "insert"
    /\ \E s \in summaries : SameKey(s, j)
    /\ job' = [job EXCEPT ![j] = NoJob]
    /\ UNCHANGED <<now, posting, overdue, summaries, asked, failures>>

Commit(j) ==
    /\ job[j].step = "commit"
    /\ summaries' = summaries \cup job[j].rows
    /\ job' = [job EXCEPT ![j] = NoJob]
    /\ UNCHANGED <<now, posting, overdue, asked, failures>>

\* The process dies or the connection is lost.
RollBack(j) ==
    /\ job[j] # NoJob /\ failures < MaxFailures
    /\ failures' = failures + 1
    /\ job' = [job EXCEPT ![j] = NoJob]
    /\ UNCHANGED <<now, posting, overdue, summaries, asked>>

\* POST /summaries/regenerate, for any month, the current one included.
Regenerate(r, i, m) ==
    /\ job[r] = NoJob
    /\ m <= now /\ asked < MaxRequests
    /\ asked' = asked + 1
    /\ job' = [job EXCEPT ![r].step = "version", ![r].institution = i, ![r].period = m]
    /\ UNCHANGED <<now, posting, overdue, summaries, failures>>

-----------------------------------------------------------------------------
(* run_catch_up *)

\* The institutions with a posting, and today's date.
Tick ==
    /\ job[Worker] = NoJob
    /\ job' = [job EXCEPT ![Worker] =
                   [NoJob EXCEPT !.step = "next", !.last = now,
                        !.todo = {i \in Institutions : \E m \in Months : Posted(i, m) # {}}]]
    /\ UNCHANGED <<now, posting, overdue, summaries, asked, failures>>

\* Variant: only the month that has just ended.
StartWithLastMonth(i) ==
    /\ job[Worker].step = "next" /\ i \in job[Worker].todo
    /\ job' = [job EXCEPT ![Worker].step = "exists", ![Worker].institution = i,
                          ![Worker].todo = @ \ {i},
                          ![Worker].period = IF now = 1 THEN 1 ELSE now - 1]
    /\ UNCHANGED <<now, posting, overdue, summaries, asked, failures>>

\* Variant: from the month before the first posting.
StartAMonthEarly(i) ==
    /\ job[Worker].step = "next" /\ i \in job[Worker].todo
    /\ \E m \in Months :
           /\ Posted(i, m) # {} /\ \A l \in 1..(m - 1) : Posted(i, l) = {}
           /\ job' = [job EXCEPT ![Worker].step = "exists", ![Worker].institution = i,
                                 ![Worker].todo = @ \ {i}, ![Worker].period = m - 1]
    /\ UNCHANGED <<now, posting, overdue, summaries, asked, failures>>

\* Each institution in turn, from the month of its first posting.
NextInstitution(i) ==
    /\ job[Worker].step = "next" /\ i \in job[Worker].todo
    /\ \E m \in Months :
           /\ Posted(i, m) # {} /\ \A l \in 1..(m - 1) : Posted(i, l) = {}
           /\ job' = [job EXCEPT ![Worker].step = "exists", ![Worker].institution = i,
                                 ![Worker].todo = @ \ {i}, ![Worker].period = m]
    /\ UNCHANGED <<now, posting, overdue, summaries, asked, failures>>

\* Variant: the month that is not over yet, too.
ThisMonthToo ==
    /\ job[Worker].step = "exists" /\ job[Worker].period <= job[Worker].last
    /\ 1 \notin SeenVersions(Worker)
    /\ job' = [job EXCEPT ![Worker].step = "version"]
    /\ UNCHANGED <<now, posting, overdue, summaries, asked, failures>>

\* A month that is over and has no version 1 gets one.
Missing ==
    /\ job[Worker].step = "exists" /\ job[Worker].period < job[Worker].last
    /\ 1 \notin SeenVersions(Worker)
    /\ job' = [job EXCEPT ![Worker].step = "version"]
    /\ UNCHANGED <<now, posting, overdue, summaries, asked, failures>>

Exists ==
    /\ job[Worker].step = "exists" /\ job[Worker].period < job[Worker].last
    /\ 1 \in SeenVersions(Worker)
    /\ job' = [job EXCEPT ![Worker].period = @ + 1]
    /\ UNCHANGED <<now, posting, overdue, summaries, asked, failures>>

LastMonth ==
    /\ job[Worker].step = "exists" /\ job[Worker].period >= job[Worker].last
    /\ job' = [job EXCEPT ![Worker].step = "next", ![Worker].institution = None,
                          ![Worker].period = 1]
    /\ UNCHANGED <<now, posting, overdue, summaries, asked, failures>>

\* One commit for all institutions and months.
LastInstitution ==
    /\ job[Worker].step = "next" /\ job[Worker].todo = {}
    /\ job' = [job EXCEPT ![Worker].step = "commit", ![Worker].last = 1]
    /\ UNCHANGED <<now, posting, overdue, summaries, asked, failures>>

CatchUp ==
    \/ Tick \/ Missing \/ Exists \/ LastMonth \/ LastInstitution
    \/ \E i \in Institutions : NextInstitution(i)
Generate(j) == ReadVersion(j) \/ ReadTotals(j) \/ Insert(j) \/ Clash(j) \/ Commit(j)

Next ==
    \/ NextMonth \/ CatchUp
    \/ \E p \in Postings : CommitPosting(p) \/ (\E i \in Institutions : OpenPosting(p, i))
    \/ \E j \in Jobs : Generate(j) \/ RollBack(j)
    \/ \E r \in Requests, i \in Institutions, m \in Months : Regenerate(r, i, m)

Spec == Init /\ [][Next]_vars

\* The loop goes on, whatever a tick raises; a request that is being served is answered.
Fairness == WF_vars(CatchUp \/ Generate(Worker)) /\ \A r \in Requests : WF_vars(Generate(r))
FairSpec == Spec /\ Fairness

-----------------------------------------------------------------------------
(* Properties *)

\* The versions of a month are numbered without gaps, each once, and a later one counts
\* all that an earlier one does, whichever requests and ticks overlap (generate_summary
\* reads the version first, the totals next, and the constraint refuses a number that
\* was taken in between).
LaterVersionsSeeMore ==
    \A s \in summaries :
        /\ \A v \in 1..s.version :
               \E t \in summaries : t.institution = s.institution /\ t.period = s.period
                                    /\ t.version = v
        /\ \A t \in summaries :
               t.institution = s.institution /\ t.period = s.period =>
                   /\ t.version < s.version => t.counted \subseteq s.counted
                   /\ t.version = s.version => t = s

\* A summary that the catch-up made counts every posting of its month but those whose
\* transaction was still open when the month ended (run_catch_up: "fully-elapsed month").
CatchUpIsComplete ==
    \A s \in summaries :
        s.caughtUp => Posted(s.institution, s.period) \ overdue \subseteq s.counted

\* Every month that is over gets a summary, from an institution's first posting on,
\* though ticks are rolled back by crashes and by requests for the same month (the loop
\* of run_summary_catch_up_loop, "A missed scheduled run is ... caught ... on the next
\* tick").
EveryMonthSummed ==
    \A i \in Institutions, m \in Months :
        (m < now /\ \E l \in 1..m : Posted(i, l) # {})
            ~> \E s \in summaries : s.institution = i /\ s.period = m
=============================================================================
