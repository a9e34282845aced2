-------------------------- MODULE SummariesProofs --------------------------
(***************************************************************************)
(* Proofs about Summaries: its types, the versions of a month, and what a  *)
(* catch-up counts, for any number of institutions, postings, months and   *)
(* requests.                                                               *)
(***************************************************************************)
EXTENDS Summaries, TLAPS

USE SummariesAssumption

-----------------------------------------------------------------------------
(* Types *)

\* A transaction that is at a summary knows whose.
AtSomeInstitution ==
    \A j \in Jobs : job[j].step \in {"exists", "version", "totals", "insert"} =>
        job[j].institution \in Institutions

TInv == TypeOK /\ AtSomeInstitution

LEMMA Firsts == 1 \in Months /\ 1 \in Versions
  BY DEF Months, Versions

LEMMA InitTInv == Init => TInv
  BY Firsts DEF Init, TInv, TypeOK, AtSomeInstitution, Months, Versions, Jobs, Job, NoPosting, NoJob

LEMMA TInvStep == TInv /\ [Next]_vars => TInv'
<1> SUFFICES ASSUME TInv, [Next]_vars PROVE TInv'
    OBVIOUS
<1> USE DEF TInv, TypeOK, AtSomeInstitution, Jobs, Job
<1>1. CASE NextMonth
    BY <1>1 DEF NextMonth, Months
<1>2. ASSUME NEW p \in Postings, NEW i \in Institutions, OpenPosting(p, i) PROVE TInv'
    BY <1>2 DEF OpenPosting
<1>3. ASSUME NEW p \in Postings, CommitPosting(p) PROVE TInv'
    BY <1>3 DEF CommitPosting
<1>4. CASE CatchUp
  <2>1. CASE Tick
      BY <2>1, Firsts DEF Tick, NoJob
  <2>2. CASE Missing
      BY <2>2 DEF Missing
  <2>3. CASE Exists
    <3>1. job[Worker].period + 1 \in Months
        BY <2>3 DEF Exists, Months
    <3> QED
        BY <2>3, <3>1 DEF Exists
  <2>4. CASE LastMonth
      BY <2>4, Firsts DEF LastMonth
  <2>5. CASE LastInstitution
    <3>1. /\ job' = [job EXCEPT ![Worker].step = "commit", ![Worker].last = 1]
          /\ UNCHANGED <<now, posting, overdue, summaries, asked, failures>>
        BY <2>5 DEF LastInstitution
    <3>2. [job[Worker] EXCEPT !.step = "commit", !.last = 1] \in Job
        BY Firsts
    <3>3. job' = [job EXCEPT ![Worker] = [job[Worker] EXCEPT !.step = "commit", !.last = 1]]
        BY <3>1
    <3> QED
        BY <3>1, <3>2, <3>3
  <2>6. ASSUME NEW i \in Institutions, NextInstitution(i) PROVE TInv'
      BY <2>6 DEF NextInstitution
  <2> QED
      BY <1>4, <2>1, <2>2, <2>3, <2>4, <2>5, <2>6 DEF CatchUp
<1>5. ASSUME NEW j \in Jobs, ReadVersion(j) PROVE TInv'
  <2>1. PICK v \in Versions :
            job' = [job EXCEPT ![j].step = "totals", ![j].version = v]
      BY <1>5 DEF ReadVersion
  <2>2. job[j].step = "version" /\ UNCHANGED <<now, posting, overdue, summaries, asked, failures>>
      BY <1>5 DEF ReadVersion
  <2> QED
      BY <2>1, <2>2
<1>6. ASSUME NEW j \in Jobs, ReadTotals(j) PROVE TInv'
    BY <1>6 DEF ReadTotals, Posted
<1>7. ASSUME NEW j \in Jobs, Insert(j) PROVE TInv'
  <2>1. job[j].institution \in Institutions
      BY <1>7 DEF Insert
  <2>2. [institution |-> job[j].institution, period |-> job[j].period,
         version |-> job[j].version, counted |-> job[j].counted,
         caughtUp |-> j = Worker] \in Row
      BY <2>1 DEF Row
  <2> DEFINE step == IF j = Worker THEN "exists" ELSE "commit"
             rows == job[j].rows \cup
                         {[institution |-> job[j].institution, period |-> job[j].period,
                           version |-> job[j].version, counted |-> job[j].counted,
                           caughtUp |-> j = Worker]}
  <2>3. rows \in SUBSET Row /\ 1 \in Versions /\ step \in {"exists", "commit"}
      BY <2>2, Firsts
  <2>4. job' = [job EXCEPT ![j].step = step, ![j].rows = rows,
                           ![j].version = 1, ![j].counted = {}]
      BY <1>7 DEF Insert, AddRow
  <2> HIDE DEF step, rows
  <2>5. UNCHANGED <<now, posting, overdue, summaries, asked, failures>>
      BY <1>7 DEF Insert
  <2>6. [job[j] EXCEPT !.step = step, !.rows = rows, !.version = 1, !.counted = {}] \in Job
      BY <2>3, job[j] \in Job
  <2>7. job' = [job EXCEPT ![j] =
            [job[j] EXCEPT !.step = step, !.rows = rows, !.version = 1, !.counted = {}]]
      BY <2>4
  <2> QED
      BY <2>1, <2>5, <2>6, <2>7
<1>8. ASSUME NEW j \in Jobs, Clash(j) \/ RollBack(j) PROVE TInv'
    BY <1>8, Firsts DEF Clash, RollBack, NoJob
<1>9. ASSUME NEW j \in Jobs, Commit(j) PROVE TInv'
    BY <1>9, Firsts DEF Commit, NoJob
<1>10. ASSUME NEW r \in Requests, NEW i \in Institutions, NEW m \in Months, Regenerate(r, i, m)
       PROVE TInv'
  <2>1. asked' \in 0..MaxRequests /\ UNCHANGED <<now, posting, overdue, summaries, failures>>
      BY <1>10 DEF Regenerate
  <2>2. job' = [job EXCEPT ![r].step = "version", ![r].institution = i, ![r].period = m]
      BY <1>10 DEF Regenerate
  <2>3. r \in Jobs /\ job[r] \in Job
      OBVIOUS
  <2>4. job' \in [Jobs -> Job]
      BY <2>2, <2>3
  <2>5. AtSomeInstitution'
      BY <2>2, <2>3
  <2> QED
      BY <2>1, <2>4, <2>5
<1>11. CASE UNCHANGED vars
    BY <1>11 DEF vars
<1> QED
    BY <1>1, <1>2, <1>3, <1>4, <1>5, <1>6, <1>7, <1>8, <1>9, <1>10, <1>11 DEF Next, Generate

\* Every variable keeps its type: no transaction works on a month that there is not (a
\* catch-up stops where it should), and no row has one.
THEOREM TypeCorrect == Spec => []TypeOK
<1>1. TInv => TypeOK
    BY DEF TInv
<1> QED
    BY <1>1, InitTInv, TInvStep, PTL DEF Spec

-----------------------------------------------------------------------------
(* The versions of a month *)

\* The rows that are committed, or that are to be; and those that j sees.
All == summaries \cup UNION {job[j].rows : j \in Jobs}
View(j) == summaries \cup job[j].rows

\* No key is in use twice, not even by rows that are not committed yet.
Keys ==
    \A s, t \in All :
        s.institution = t.institution /\ s.period = t.period /\ s.version = t.version => s = t

\* What was counted is posted, and stays so.
Real ==
    /\ \A s \in All : s.counted \subseteq Posted(s.institution, s.period)
    /\ \A j \in Jobs : job[j].step = "insert" =>
           job[j].counted \subseteq Posted(job[j].institution, job[j].period)

Below(i, m, n, rows) ==
    \A v \in 1..(n - 1) : \E t \in rows : t.institution = i /\ t.period = m /\ t.version = v

\* Who sees a version, or is to write it, sees all versions below.
Gapless ==
    /\ \A s \in summaries : Below(s.institution, s.period, s.version, summaries)
    /\ \A j \in Jobs : \A s \in job[j].rows : Below(s.institution, s.period, s.version, View(j))
    /\ \A j \in Jobs : job[j].step \in {"totals", "insert"} =>
           Below(job[j].institution, job[j].period, job[j].version, View(j))

Growing ==
    /\ \A s, t \in All :
           s.institution = t.institution /\ s.period = t.period /\ s.version < t.version =>
               s.counted \subseteq t.counted
    /\ \A j \in Jobs : job[j].step = "insert" =>
           \A s \in All : /\ s.institution = job[j].institution
                          /\ s.period = job[j].period
                          /\ s.version < job[j].version
                          => s.counted \subseteq job[j].counted

VInv == Keys /\ Real /\ Gapless /\ Growing

LEMMA InitVInv == Init => VInv
  BY DEF Init, VInv, Keys, Real, Gapless, Growing, All, View, NoJob, Jobs

\* Postings stay.
LEMMA PostedGrows ==
  ASSUME TInv, [Next]_vars, NEW i, NEW m
  PROVE  Posted(i, m) \subseteq Posted(i, m)'
<1> SUFFICES ASSUME NEW p \in Posted(i, m) PROVE p \in Posted(i, m)'
    OBVIOUS
<1>1. p \in Postings /\ posting[p] = [state |-> "posted", institution |-> i, month |-> m]
    BY DEF Posted
<1>2. posting'[p] = posting[p]
  <2>1. ASSUME NEW q \in Postings, NEW k \in Institutions, OpenPosting(q, k)
        PROVE  posting'[p] = posting[p]
      BY <2>1, <1>1 DEF OpenPosting, NoPosting, TInv, TypeOK
  <2>2. ASSUME NEW q \in Postings, CommitPosting(q) PROVE posting'[p] = posting[p]
      BY <2>2, <1>1 DEF CommitPosting, TInv, TypeOK
  <2>3. CASE UNCHANGED posting
      BY <2>3
  <2> QED
      BY <2>1, <2>2, <2>3 DEF Next, vars, NextMonth, CatchUp, Tick, Missing, Exists, LastMonth,
         LastInstitution, NextInstitution, Generate, ReadVersion, ReadTotals, Insert, Clash,
         Commit, RollBack, Regenerate
<1> QED
    BY <1>1, <1>2 DEF Posted

\* A step that adds no row and no version to be written.
Calm ==
    /\ summaries' = summaries
    /\ \A j \in Jobs :
           /\ job'[j].rows \in {job[j].rows, {}}
           /\ job'[j].step \in {"totals", "insert"} => job'[j] = job[j]

LEMMA CalmStep == TInv /\ VInv /\ [Next]_vars /\ Calm => VInv'
<1> SUFFICES ASSUME TInv, VInv, [Next]_vars, Calm PROVE VInv'
    OBVIOUS
<1>1. All' \subseteq All
    BY DEF Calm, All
<1>2. \A j \in Jobs : job'[j].rows # {} => View(j)' = View(j)
    BY DEF Calm, View
<1>3. \A j \in Jobs : job'[j].step \in {"totals", "insert"} =>
          job'[j] = job[j] /\ View(j)' = View(j)
    BY DEF Calm, View
<1>4. Keys'
    BY <1>1 DEF VInv, Keys
<1>5. Real'
  <2>1. \A i, m : Posted(i, m) \subseteq Posted(i, m)'
      BY PostedGrows
  <2> QED
      BY <1>1, <1>3, <2>1 DEF VInv, Real
<1>6. Gapless'
    BY <1>2, <1>3 DEF VInv, Gapless, Calm, Below
<1>7. Growing'
    BY <1>1, <1>3 DEF VInv, Growing
<1> QED
    BY <1>4, <1>5, <1>6, <1>7 DEF VInv

LEMMA VersionStep ==
  ASSUME TInv, VInv, NEW j \in Jobs, ReadVersion(j)
  PROVE  VInv'
<1>1. PICK v \in Versions :
          /\ v = 1 \/ v - 1 \in SeenVersions(j)
          /\ job' = [job EXCEPT ![j].step = "totals", ![j].version = v]
    BY DEF ReadVersion
<1>2. job[j].step = "version" /\ UNCHANGED <<summaries, posting>>
    BY DEF ReadVersion
<1>3. /\ \A k \in Jobs \ {j} : job'[k] = job[k]
      /\ job'[j].rows = job[j].rows /\ job'[j].step = "totals" /\ job'[j].version = v
      /\ job'[j].institution = job[j].institution /\ job'[j].period = job[j].period
    BY <1>1 DEF TInv, TypeOK, Job
<1>4. All' = All /\ \A k \in Jobs : View(k)' = View(k)
    BY <1>2, <1>3 DEF All, View
<1>5. Below(job[j].institution, job[j].period, v, View(j))
  <2>1. CASE v = 1
      BY <2>1 DEF Below
  <2>2. CASE v - 1 \in SeenVersions(j)
    <3>1. PICK s \in View(j) : /\ s.institution = job[j].institution /\ s.period = job[j].period
                               /\ s.version = v - 1
        BY <2>2 DEF SeenVersions, Seen, View
    <3>2. Below(s.institution, s.period, s.version, View(j))
        BY <3>1 DEF VInv, Gapless, View, Below
    <3>3. v \in Nat
        BY DEF Versions
    <3>4. \A u \in 1..(v - 1) : u = v - 1 \/ u \in 1..(v - 1 - 1)
        BY <3>3
    <3> QED
        BY <3>1, <3>2, <3>4 DEF Below
  <2> QED
      BY <1>1, <2>1, <2>2
<1>6. Keys' /\ Growing'
    BY <1>3, <1>4 DEF VInv, Keys, Growing
<1>7. Real'
    BY <1>2, <1>3, <1>4 DEF VInv, Real, Posted
<1>8. Gapless'
    BY <1>2, <1>3, <1>4, <1>5 DEF VInv, Gapless
<1> QED
    BY <1>6, <1>7, <1>8 DEF VInv

LEMMA TotalsStep ==
  ASSUME TInv, VInv, NEW j \in Jobs, ReadTotals(j)
  PROVE  VInv'
<1>1. /\ job' = [job EXCEPT ![j].step = "insert",
                            ![j].counted = Posted(job[j].institution, job[j].period)]
      /\ job[j].step = "totals" /\ UNCHANGED <<summaries, posting>>
    BY DEF ReadTotals
<1>2. /\ \A k \in Jobs \ {j} : job'[k] = job[k]
      /\ job'[j].rows = job[j].rows /\ job'[j].step = "insert"
      /\ job'[j].version = job[j].version
      /\ job'[j].institution = job[j].institution /\ job'[j].period = job[j].period
      /\ job'[j].counted = Posted(job[j].institution, job[j].period)
    BY <1>1 DEF TInv, TypeOK, Job
<1>0. UNCHANGED <<summaries, posting>>
    BY <1>1
<1>3. All' = All /\ \A k \in Jobs : View(k)' = View(k)
    BY <1>0, <1>2 DEF All, View
<1>4. \A i, m : Posted(i, m)' = Posted(i, m)
    BY <1>1 DEF Posted
<1>5. Keys'
    BY <1>3 DEF VInv, Keys
<1>6. Real'
    BY <1>2, <1>3, <1>4 DEF VInv, Real
<1>7. Gapless'
    BY <1>1, <1>2, <1>3 DEF VInv, Gapless
<1>8. Growing'
    BY <1>2, <1>3 DEF VInv, Growing, Real
<1> QED
    BY <1>5, <1>6, <1>7, <1>8 DEF VInv

\* The row that an insert adds, and what it changes.
NewRow(j) == [institution |-> job[j].institution, period |-> job[j].period,
              version |-> job[j].version, counted |-> job[j].counted, caughtUp |-> j = Worker]

LEMMA RowAdded ==
  ASSUME TInv, NEW j \in Jobs, Insert(j)
  PROVE  /\ UNCHANGED <<summaries, posting, now, overdue>>
         /\ \A k \in Jobs \ {j} : job'[k] = job[k]
         /\ job'[j].rows = job[j].rows \cup {NewRow(j)}
         /\ job'[j].step \in {"exists", "commit"} /\ job'[j].last = job[j].last
         /\ All' = All \cup {NewRow(j)}
         /\ View(j)' = View(j) \cup {NewRow(j)}
         /\ \A k \in Jobs \ {j} : View(k)' = View(k)
         /\ \A s \in All : ~SameKey(s, j)
<1>1. /\ UNCHANGED <<summaries, posting, now, overdue>>
      /\ AddRow(j, job[j].version)
      /\ \A s \in All : ~SameKey(s, j)
    BY DEF Insert, All
<1> DEFINE step == IF j = Worker THEN "exists" ELSE "commit"
           rows == job[j].rows \cup {NewRow(j)}
<1>2. job' = [job EXCEPT ![j].step = step, ![j].rows = rows, ![j].version = 1, ![j].counted = {}]
    BY <1>1 DEF AddRow, NewRow
<1>3. step \in {"exists", "commit"}
    OBVIOUS
<1> HIDE DEF step, rows
<1>4. /\ \A k \in Jobs \ {j} : job'[k] = job[k]
      /\ job'[j].rows = rows /\ job'[j].step = step /\ job'[j].last = job[j].last
    BY <1>2 DEF TInv, TypeOK, Job
<1>5. job'[j].rows = job[j].rows \cup {NewRow(j)}
    BY <1>4 DEF rows
<1>6. All' = All \cup {NewRow(j)}
    BY <1>1, <1>4, <1>5 DEF All
<1>7. View(j)' = View(j) \cup {NewRow(j)} /\ \A k \in Jobs \ {j} : View(k)' = View(k)
    BY <1>1, <1>4, <1>5 DEF View
<1> QED
    BY <1>1, <1>3, <1>4, <1>5, <1>6, <1>7

LEMMA RowTypes == TInv => \A s \in All : s \in Row /\ s.version \in Nat
  BY DEF TInv, TypeOK, Job, All, Row, Versions

LEMMA InsertStep ==
  ASSUME TInv, VInv, NEW j \in Jobs, Insert(j)
  PROVE  VInv'
<1> DEFINE r == NewRow(j)
<1>1. /\ UNCHANGED <<summaries, posting>>
      /\ \A k \in Jobs \ {j} : job'[k] = job[k] /\ View(k)' = View(k)
      /\ job'[j].rows = job[j].rows \cup {r} /\ job'[j].step \in {"exists", "commit"}
      /\ All' = All \cup {r} /\ View(j)' = View(j) \cup {r}
      /\ \A s \in All : ~SameKey(s, j)
    BY RowAdded
<1>2. /\ r.institution = job[j].institution /\ r.period = job[j].period
      /\ r.version = job[j].version /\ r.counted = job[j].counted
      /\ job[j].step = "insert" /\ r.version \in Nat
      /\ \A k \in Jobs : job[k].version \in Nat
    BY DEF NewRow, Insert, TInv, TypeOK, Job, Versions
<1> HIDE DEF r
<1>3. \A s \in All : ~(/\ s.institution = r.institution /\ s.period = r.period
                       /\ s.version = r.version)
    BY <1>1, <1>2 DEF SameKey
<1>4. \A i, m : Posted(i, m)' = Posted(i, m)
    BY <1>1 DEF Posted
<1>5. Keys'
    BY <1>1, <1>3 DEF VInv, Keys
<1>6. Real'
    BY <1>1, <1>2, <1>4 DEF VInv, Real
<1>7. Gapless'
  <2>1. Below(r.institution, r.period, r.version, View(j))
      BY <1>2 DEF VInv, Gapless
  <2>2. \A i, m, n : Below(i, m, n, View(j)) => Below(i, m, n, View(j)')
      BY <1>1 DEF Below
  <2>3. \A s \in job'[j].rows : Below(s.institution, s.period, s.version, View(j)')
      BY <1>1, <2>1, <2>2 DEF VInv, Gapless
  <2> QED
      BY <1>1, <2>3 DEF VInv, Gapless
<1>8. Growing'
  <2>1. \A s \in All : s.institution = r.institution /\ s.period = r.period /\ s.version < r.version
            => s.counted \subseteq r.counted
      BY <1>2 DEF VInv, Growing
  \* A higher version would not be there without this one below it.
  <2>2. \A t \in All : ~(/\ t.institution = r.institution /\ t.period = r.period
                         /\ r.version < t.version)
    <3> SUFFICES ASSUME NEW t \in All, t.institution = r.institution, t.period = r.period,
                        r.version < t.version
                 PROVE  FALSE
        OBVIOUS
    <3>1. \E u \in All : u.institution = t.institution /\ u.period = t.period /\ u.version = r.version
      <4>1. t.version \in Nat /\ r.version \in 1..(t.version - 1)
        <5>1. t.version \in Nat /\ r.version >= 1
            BY RowTypes, <1>2 DEF TInv, TypeOK, Job, Versions
        <5> QED
            BY <5>1, <1>2
      <4>2. PICK k \in Jobs : t \in View(k)
          BY DEF All, View, Jobs
      <4>3. Below(t.institution, t.period, t.version, View(k))
          BY <4>2 DEF VInv, Gapless, View, Below
      <4>4. View(k) \subseteq All
          BY DEF View, All
      <4> QED
          BY <4>1, <4>3, <4>4 DEF Below
    <3> QED
        BY <3>1, <1>3
  \* Nor does another insert of a higher version wait.
  <2>3. \A k \in Jobs \ {j} : job[k].step = "insert" =>
            ~(/\ r.institution = job[k].institution /\ r.period = job[k].period
              /\ r.version < job[k].version)
    <3> SUFFICES ASSUME NEW k \in Jobs \ {j}, job[k].step = "insert", r.version < job[k].version,
                        r.institution = job[k].institution, r.period = job[k].period
                 PROVE  FALSE
        OBVIOUS
    <3>1. Below(job[k].institution, job[k].period, job[k].version, View(k))
        BY DEF VInv, Gapless
    <3>2. r.version >= 1
        BY <1>2 DEF TInv, TypeOK, Job, Versions
    <3>3. r.version \in 1..(job[k].version - 1)
        BY <1>2, <3>2
    <3>4. View(k) \subseteq All
        BY DEF View, All
    <3> QED
        BY <3>1, <3>3, <3>4, <1>3 DEF Below
  <2>4. \A s, t \in All' :
            s.institution = t.institution /\ s.period = t.period /\ s.version < t.version =>
                s.counted \subseteq t.counted
      BY <1>1, <1>2, <2>1, <2>2 DEF VInv, Growing
  <2>5. \A k \in Jobs : job'[k].step = "insert" =>
            \A s \in All' : /\ s.institution = job'[k].institution
                            /\ s.period = job'[k].period
                            /\ s.version < job'[k].version
                            => s.counted \subseteq job'[k].counted
      BY <1>1, <2>3 DEF VInv, Growing
  <2> QED
      BY <2>4, <2>5 DEF Growing
<1> QED
    BY <1>5, <1>6, <1>7, <1>8 DEF VInv

LEMMA CommitStep ==
  ASSUME TInv, VInv, NEW j \in Jobs, Commit(j)
  PROVE  VInv'
<1>1. /\ UNCHANGED posting /\ summaries' = View(j)
      /\ job' = [job EXCEPT ![j] = NoJob]
    BY DEF Commit, View
<1>2. /\ \A k \in Jobs \ {j} : job'[k] = job[k]
      /\ job'[j].rows = {} /\ job'[j].step = "idle"
    BY <1>1 DEF NoJob, TInv, TypeOK
<1>3. All' = All
    BY <1>1, <1>2 DEF All, View
<1>4. \A i, m : Posted(i, m)' = Posted(i, m)
    BY <1>1 DEF Posted
<1>5. \A k \in Jobs : View(k) \subseteq View(k)' \/ k = j
    BY <1>1, <1>2 DEF View
<1>6. Keys' /\ Growing'
    BY <1>2, <1>3 DEF VInv, Keys, Growing
<1>7. Real'
    BY <1>2, <1>3, <1>4 DEF VInv, Real
<1>8. Gapless'
  <2>1. \A s \in View(j) : Below(s.institution, s.period, s.version, View(j))
      BY DEF VInv, Gapless, View, Below
  <2>2. \A k \in Jobs \ {j} : \A i, m, n : Below(i, m, n, View(k)) => Below(i, m, n, View(k)')
      BY <1>5 DEF Below
  <2> QED
      BY <1>1, <1>2, <2>1, <2>2 DEF VInv, Gapless
<1> QED
    BY <1>6, <1>7, <1>8 DEF VInv

LEMMA VInvStep == TInv /\ VInv /\ [Next]_vars => VInv'
<1> SUFFICES ASSUME TInv, VInv, [Next]_vars PROVE VInv'
    OBVIOUS
<1>1. ASSUME NEW j \in Jobs, ReadVersion(j) PROVE VInv'
    BY <1>1, VersionStep
<1>2. ASSUME NEW j \in Jobs, ReadTotals(j) PROVE VInv'
    BY <1>2, TotalsStep
<1>3. ASSUME NEW j \in Jobs, Insert(j) PROVE VInv'
    BY <1>3, InsertStep
<1>4. ASSUME NEW j \in Jobs, Commit(j) PROVE VInv'
    BY <1>4, CommitStep
<1>5. CASE UNCHANGED <<summaries, job>>
    BY <1>5, CalmStep DEF Calm
<1>6. ASSUME NEW j \in Jobs, Clash(j) \/ RollBack(j) PROVE VInv'
  <2>1. summaries' = summaries /\ job' = [job EXCEPT ![j] = NoJob]
      BY <1>6 DEF Clash, RollBack
  <2> QED
      BY <2>1, CalmStep DEF Calm, NoJob, TInv, TypeOK
<1>7. ASSUME NEW r \in Requests, NEW i \in Institutions, NEW m \in Months, Regenerate(r, i, m)
      PROVE VInv'
  <2>1. /\ summaries' = summaries /\ r \in Jobs
        /\ job' = [job EXCEPT ![r].step = "version", ![r].institution = i, ![r].period = m]
      BY <1>7 DEF Regenerate, Jobs
  <2>2. Calm
      BY <2>1 DEF Calm, TInv, TypeOK, Job
  <2> QED
      BY <2>2, CalmStep
<1>8. CASE CatchUp
  <2> USE DEF Calm, TInv, TypeOK, Job, Jobs
  <2>1. CASE Tick
      BY <2>1, CalmStep DEF Tick, NoJob
  <2>2. CASE Missing
      BY <2>2, CalmStep DEF Missing
  <2>3. CASE Exists
      BY <2>3, CalmStep DEF Exists
  <2>4. CASE LastMonth
      BY <2>4, CalmStep DEF LastMonth
  <2>5. CASE LastInstitution
      BY <2>5, CalmStep DEF LastInstitution
  <2>6. ASSUME NEW i \in Institutions, NextInstitution(i) PROVE VInv'
      BY <2>6, CalmStep DEF NextInstitution
  <2> QED
      BY <1>8, <2>1, <2>2, <2>3, <2>4, <2>5, <2>6 DEF CatchUp
<1> QED
    BY <1>1, <1>2, <1>3, <1>4, <1>5, <1>6, <1>7, <1>8
    DEF Next, Generate, NextMonth, OpenPosting, CommitPosting, vars

\* The versions of a month have no gaps, each number is given once, and a later version
\* counts all that an earlier one does, however many requests and ticks overlap.
THEOREM VersionsGrow == Spec => []LaterVersionsSeeMore
<1>1. TInv /\ VInv => LaterVersionsSeeMore
  <2> SUFFICES ASSUME TInv, VInv, NEW s \in summaries
               PROVE  /\ \A v \in 1..s.version :
                             \E t \in summaries : t.institution = s.institution
                                                  /\ t.period = s.period /\ t.version = v
                      /\ \A t \in summaries :
                             t.institution = s.institution /\ t.period = s.period =>
                                 /\ t.version < s.version => t.counted \subseteq s.counted
                                 /\ t.version = s.version => t = s
      BY DEF LaterVersionsSeeMore
  <2>1. summaries \subseteq All /\ s.version \in Nat
      BY RowTypes DEF All
  <2>2. \A v \in 1..s.version : v = s.version \/ v \in 1..(s.version - 1)
      BY <2>1
  <2> QED
      BY <2>1, <2>2 DEF VInv, Keys, Gapless, Growing, Below
<1> QED
    BY <1>1, InitTInv, TInvStep, InitVInv, VInvStep, PTL DEF Spec

-----------------------------------------------------------------------------
(* What a catch-up counts *)

Overdue ==
    \A p \in Postings : posting[p].state = "open" =>
        posting[p].month <= now /\ (posting[p].month < now => p \in overdue)

CaughtUp ==
    /\ \A s \in All : s.caughtUp =>
           s.period < now /\ Posted(s.institution, s.period) \ overdue \subseteq s.counted
    /\ job[Worker].last <= now
    /\ job[Worker].step \in {"version", "totals", "insert"} => job[Worker].period < job[Worker].last
    /\ job[Worker].step = "insert" =>
           Posted(job[Worker].institution, job[Worker].period) \ overdue \subseteq job[Worker].counted

CInv == Overdue /\ CaughtUp

LEMMA InitCInv == Init => CInv
  BY DEF Init, CInv, Overdue, CaughtUp, All, NoJob, NoPosting, Jobs

\* In a month that is over, only overdue postings are still committed.
LEMMA MonthsClose ==
  ASSUME TInv, CInv, [Next]_vars, NEW i, NEW m \in Months, m < now
  PROVE  Posted(i, m)' \ overdue' \subseteq Posted(i, m) \ overdue
<1> SUFFICES ASSUME NEW p \in Posted(i, m)', p \notin overdue'
             PROVE  p \in Posted(i, m) /\ p \notin overdue
    OBVIOUS
<1>1. p \in Postings /\ posting'[p] = [state |-> "posted", institution |-> i, month |-> m]
    BY DEF Posted
<1>2. overdue \subseteq overdue'
  <2>1. CASE NextMonth
      BY <2>1 DEF NextMonth
  <2>2. CASE UNCHANGED overdue
      BY <2>2
  <2> QED
      BY <2>1, <2>2 DEF Next, vars, OpenPosting, CommitPosting, CatchUp, Tick, Missing, Exists,
         LastMonth, LastInstitution, NextInstitution, Generate, ReadVersion, ReadTotals, Insert,
         Clash, Commit, RollBack, Regenerate
<1>3. posting'[p] = posting[p]
  <2>1. ASSUME NEW q \in Postings, NEW k \in Institutions, OpenPosting(q, k)
        PROVE  posting'[p] = posting[p]
      BY <2>1, <1>1 DEF OpenPosting, TInv, TypeOK
  <2>2. ASSUME NEW q \in Postings, CommitPosting(q) PROVE posting'[p] = posting[p]
    <3>1. CASE p # q
        BY <2>2, <3>1 DEF CommitPosting, TInv, TypeOK
    <3>2. CASE p = q
      <4>1. posting[p].state = "open" /\ posting'[p].month = posting[p].month
          BY <2>2, <3>2 DEF CommitPosting, TInv, TypeOK
      <4>2. posting[p].month = m
          BY <4>1, <1>1
      <4> QED
          BY <4>1, <4>2, <1>1, <1>2 DEF CInv, Overdue
    <3> QED
        BY <3>1, <3>2
  <2>3. CASE UNCHANGED posting
      BY <2>3
  <2> QED
      BY <2>1, <2>2, <2>3 DEF Next, vars, NextMonth, CatchUp, Tick, Missing, Exists, LastMonth,
         LastInstitution, NextInstitution, Generate, ReadVersion, ReadTotals, Insert, Clash,
         Commit, RollBack, Regenerate
<1> QED
    BY <1>1, <1>2, <1>3 DEF Posted

LEMMA OverdueStep == TInv /\ CInv /\ [Next]_vars => Overdue'
<1> SUFFICES ASSUME TInv, Overdue, [Next]_vars PROVE Overdue'
    BY DEF CInv
<1> USE DEF TInv, TypeOK, Overdue, Months
<1>1. ASSUME NEW q \in Postings, NEW k \in Institutions, OpenPosting(q, k) PROVE Overdue'
    BY <1>1 DEF OpenPosting
<1>2. ASSUME NEW q \in Postings, CommitPosting(q) PROVE Overdue'
    BY <1>2 DEF CommitPosting
<1>3. CASE NextMonth
    BY <1>3 DEF NextMonth
<1>4. CASE UNCHANGED <<now, posting, overdue>>
    BY <1>4
<1> QED
    BY <1>1, <1>2, <1>3, <1>4 DEF Next, vars, CatchUp, Tick, Missing, Exists, LastMonth,
       LastInstitution, NextInstitution, Generate, ReadVersion, ReadTotals, Insert, Clash,
       Commit, RollBack, Regenerate

\* CaughtUp, in parts.
RowsDone ==
    \A s \in All : s.caughtUp =>
        s.period < now /\ Posted(s.institution, s.period) \ overdue \subseteq s.counted
WorkerDone ==
    /\ job[Worker].last <= now
    /\ job[Worker].step \in {"version", "totals", "insert"} => job[Worker].period < job[Worker].last
    /\ job[Worker].step = "insert" =>
           Posted(job[Worker].institution, job[Worker].period) \ overdue \subseteq job[Worker].counted

LEMMA TimePasses == TInv /\ [Next]_vars => now <= now' /\ now \in Nat /\ now' \in Nat
<1> SUFFICES ASSUME TInv, [Next]_vars PROVE now <= now' /\ now \in Nat /\ now' \in Nat
    OBVIOUS
<1>1. now \in Nat
    BY DEF TInv, TypeOK, Months
<1>2. now' = now \/ now' = now + 1
    BY DEF Next, vars, NextMonth, OpenPosting, CommitPosting, CatchUp, Tick, Missing, Exists,
       LastMonth, LastInstitution, NextInstitution, Generate, ReadVersion, ReadTotals, Insert,
       Clash, Commit, RollBack, Regenerate
<1> QED
    BY <1>1, <1>2

LEMMA RowsStayDone ==
  ASSUME TInv, CInv, [Next]_vars, All' \subseteq All
  PROVE  RowsDone'
<1> SUFFICES ASSUME NEW s \in All, s.caughtUp
             PROVE  /\ s.period < now'
                    /\ Posted(s.institution, s.period)' \ overdue' \subseteq s.counted
    BY DEF RowsDone
<1>1. /\ s.period \in Months /\ s.period < now
      /\ Posted(s.institution, s.period) \ overdue \subseteq s.counted
    BY RowTypes DEF CInv, CaughtUp, Row
<1>2. Posted(s.institution, s.period)' \ overdue' \subseteq Posted(s.institution, s.period) \ overdue
    BY <1>1, MonthsClose
<1> QED
    BY <1>1, <1>2, TimePasses DEF Months

LEMMA WorkerStaysDone ==
  ASSUME TInv, CInv, [Next]_vars, job'[Worker] = job[Worker]
  PROVE  WorkerDone'
<1>1. job[Worker].period \in Months /\ job[Worker].last \in Months
    BY DEF TInv, TypeOK, Job, Jobs
<1>2. job[Worker].last <= now'
    BY <1>1, TimePasses DEF CInv, CaughtUp, Months
<1>3. ASSUME job[Worker].step = "insert"
      PROVE  Posted(job[Worker].institution, job[Worker].period)' \ overdue'
                 \subseteq job[Worker].counted
  <2>1. job[Worker].period < now
      BY <1>1, <1>3, TimePasses DEF CInv, CaughtUp, Months
  <2> QED
      BY <1>1, <1>3, <2>1, MonthsClose DEF CInv, CaughtUp
<1> QED
    BY <1>2, <1>3 DEF WorkerDone, CInv, CaughtUp, Posted

\* The worker's own steps; a month whose totals it reads is over.
LEMMA WorkerMoves ==
  ASSUME TInv, CInv, [Next]_vars, CatchUp \/ Generate(Worker) \/ RollBack(Worker)
  PROVE  WorkerDone'
<1> USE DEF TInv, TypeOK, Job, Jobs, CInv, CaughtUp, WorkerDone, Months
<1>1. CASE CatchUp
  <2>1. CASE Tick
      BY <2>1 DEF Tick, NoJob
  <2>2. CASE Missing
      BY <2>2 DEF Missing
  <2>3. CASE Exists
      BY <2>3 DEF Exists
  <2>4. CASE LastMonth
      BY <2>4 DEF LastMonth
  <2>5. CASE LastInstitution
      BY <2>5 DEF LastInstitution
  <2>6. ASSUME NEW i \in Institutions, NextInstitution(i) PROVE WorkerDone'
      BY <2>6 DEF NextInstitution
  <2> QED
      BY <1>1, <2>1, <2>2, <2>3, <2>4, <2>5, <2>6 DEF CatchUp
<1>2. CASE ReadVersion(Worker)
    BY <1>2 DEF ReadVersion
<1>3. CASE ReadTotals(Worker)
    BY <1>3 DEF ReadTotals, Posted
<1>4. CASE Insert(Worker)
    BY <1>4, RowAdded
<1>5. CASE Clash(Worker) \/ RollBack(Worker)
    BY <1>5 DEF Clash, RollBack, NoJob
<1>6. CASE Commit(Worker)
    BY <1>6 DEF Commit, NoJob
<1> QED
    BY <1>1, <1>2, <1>3, <1>4, <1>5, <1>6 DEF Generate

LEMMA RowsStep == TInv /\ CInv /\ [Next]_vars => RowsDone'
<1> SUFFICES ASSUME TInv, CInv, [Next]_vars PROVE RowsDone'
    OBVIOUS
<1>1. ASSUME NEW j \in Jobs, Insert(j) PROVE RowsDone'
  <2>1. All' = All \cup {NewRow(j)} /\ UNCHANGED <<posting, now, overdue>>
      BY <1>1, RowAdded
  <2>2. ASSUME NewRow(j).caughtUp
        PROVE  /\ NewRow(j).period < now
               /\ Posted(NewRow(j).institution, NewRow(j).period) \ overdue
                      \subseteq NewRow(j).counted
    <3>1. j = Worker /\ job[Worker].step = "insert"
        BY <1>1, <2>2 DEF NewRow, Insert
    <3>2. job[Worker].period < now
        BY <3>1 DEF CInv, CaughtUp, TInv, TypeOK, Job, Jobs, Months
    <3> QED
        BY <3>1, <3>2 DEF NewRow, CInv, CaughtUp
  <2>3. \A i, m : Posted(i, m)' = Posted(i, m)
      BY <2>1 DEF Posted
  <2> QED
      BY <2>1, <2>2, <2>3 DEF RowsDone, CInv, CaughtUp
<1>2. ASSUME NEW j \in Jobs, Commit(j) PROVE RowsDone'
  <2>1. summaries' = summaries \cup job[j].rows /\ job' = [job EXCEPT ![j] = NoJob]
      BY <1>2 DEF Commit
  <2>2. \A k \in Jobs : job'[k].rows \subseteq job[k].rows
      BY <2>1 DEF TInv, TypeOK, NoJob
  <2>3. All' \subseteq All
      BY <2>1, <2>2 DEF All
  <2> QED
      BY <2>3, RowsStayDone
<1>3. ASSUME summaries' = summaries, \A k \in Jobs : job'[k].rows \subseteq job[k].rows
      PROVE  RowsDone'
  <2>1. All' \subseteq All
      BY <1>3 DEF All
  <2> QED
      BY <2>1, RowsStayDone
<1> USE DEF TInv, TypeOK, Job, Jobs
<1>4. ASSUME NEW j \in Jobs, Clash(j) \/ RollBack(j) PROVE RowsDone'
    BY <1>4, <1>3 DEF Clash, RollBack, NoJob
<1>5. ASSUME NEW j \in Jobs, ReadVersion(j) PROVE RowsDone'
    BY <1>5, <1>3 DEF ReadVersion
<1>6. ASSUME NEW j \in Jobs, ReadTotals(j) PROVE RowsDone'
    BY <1>6, <1>3 DEF ReadTotals
<1>7. ASSUME NEW r \in Requests, NEW i \in Institutions, NEW m \in Months, Regenerate(r, i, m)
      PROVE RowsDone'
    BY <1>7, <1>3 DEF Regenerate
<1>8. CASE CatchUp
  <2>1. CASE Tick
      BY <2>1, <1>3 DEF Tick, NoJob
  <2>2. CASE Missing \/ Exists
      BY <2>2, <1>3 DEF Missing, Exists
  <2>3. CASE LastMonth \/ LastInstitution
      BY <2>3, <1>3 DEF LastMonth, LastInstitution
  <2>4. ASSUME NEW i \in Institutions, NextInstitution(i) PROVE RowsDone'
      BY <2>4, <1>3 DEF NextInstitution
  <2> QED
      BY <1>8, <2>1, <2>2, <2>3, <2>4 DEF CatchUp
<1>9. CASE UNCHANGED <<summaries, job>>
    BY <1>9, <1>3
<1> QED
    BY <1>1, <1>2, <1>4, <1>5, <1>6, <1>7, <1>8, <1>9
    DEF Next, Generate, NextMonth, OpenPosting, CommitPosting, vars

LEMMA WorkerStep == TInv /\ CInv /\ [Next]_vars => WorkerDone'
<1> SUFFICES ASSUME TInv, CInv, [Next]_vars PROVE WorkerDone'
    OBVIOUS
<1>1. CASE CatchUp \/ Generate(Worker) \/ RollBack(Worker)
    BY <1>1, WorkerMoves
<1> USE DEF TInv, TypeOK, Jobs
<1>2. ASSUME NEW r \in Requests, Generate(r) \/ RollBack(r) PROVE WorkerDone'
  <2>1. job'[Worker] = job[Worker]
      BY <1>2 DEF Generate, ReadVersion, ReadTotals, Insert, AddRow, Clash, Commit, RollBack
  <2> QED
      BY <2>1, WorkerStaysDone
<1>3. ASSUME NEW r \in Requests, NEW i \in Institutions, NEW m \in Months, Regenerate(r, i, m)
      PROVE WorkerDone'
  <2>1. job'[Worker] = job[Worker]
      BY <1>3 DEF Regenerate
  <2> QED
      BY <2>1, WorkerStaysDone
<1>4. CASE UNCHANGED job
    BY <1>4, WorkerStaysDone
<1> QED
    BY <1>1, <1>2, <1>3, <1>4 DEF Next, NextMonth, OpenPosting, CommitPosting, vars

LEMMA CInvStep == TInv /\ CInv /\ [Next]_vars => CInv'
  BY OverdueStep, RowsStep, WorkerStep DEF CInv, CaughtUp, RowsDone, WorkerDone

\* A summary that the catch-up made counts every posting of its month but those that
\* were still open when the month ended, however long the catch-up took.
THEOREM CatchUpsAreComplete == Spec => []CatchUpIsComplete
<1>1. CInv => CatchUpIsComplete
    BY DEF CInv, CaughtUp, All, CatchUpIsComplete
<1> QED
    BY <1>1, InitTInv, TInvStep, InitCInv, CInvStep, PTL DEF Spec
=============================================================================
