------------------------------ MODULE Standing ------------------------------
(***************************************************************************)
(* Class attendance, and the students at risk (services/academic/app/      *)
(* routers/attendance.py, models/attendance.py, the at-risk lists of       *)
(* routers/reports.py), beside the grades and registrations they depend    *)
(* on.                                                                     *)
(*                                                                         *)
(* A list asks two questions of the database per student, one after the    *)
(* other, each of what is committed by then.  Rates are compared exactly.  *)
(* The marks of one request are committed together and do not interact, so *)
(* one mark stands for them.                                               *)
(***************************************************************************)
EXTENDS Coursework

CONSTANTS Meetings,     \* attendance_sessions, by offering and date
          OfferingAt    \* attendance_sessions.course_offering_id

ASSUME MeetingAssumption == OfferingAt \in [Meetings -> Offerings]

VARIABLES
    held,     \* the attendance_sessions there are
    roll,     \* attendance_records.present, "none" for a row that is not there
    desk,     \* per worker: the marking or the list it serves
    ever,     \* history, per list: who was at risk at some time since it began, and why
    always    \* history, per list: who was at risk all the time, for the same reason

standingVars == <<held, roll, desk, ever, always>>

Marks == {"present", "absent"}
Entries == Meetings \X Students
Reasons == {"attendance", "grades"}
Idle == [step |-> "idle", entry |-> {}, loaded |-> "none", mark |-> "present",
         todo |-> {}, low |-> FALSE, listed |-> {}, flagged |-> {}]
Desk == [step : {"idle", "mark", "list", "grades"}, entry : SUBSET Entries,
         loaded : Marks \cup {"none"}, mark : Marks, todo : SUBSET Seats, low : BOOLEAN,
         listed : SUBSET Seats, flagged : SUBSET Seats]

StandingTypeOK ==
    /\ TypeOK
    /\ held \subseteq Meetings
    /\ roll \in [Entries -> Marks \cup {"none"}]
    /\ desk \in [Workers -> Desk]
    /\ ever \in [Workers -> SUBSET (Seats \X Reasons)]
    /\ always \in [Workers -> SUBSET (Seats \X Reasons)]

StandingInit ==
    /\ Init
    /\ held = {}
    /\ roll = [e \in Entries |-> "none"]
    /\ desk = [w \in Workers |-> Idle]
    /\ ever = [w \in Workers |-> {}] /\ always = [w \in Workers |-> {}]

Begun(w, request) ==
    /\ desk[w] = Idle /\ work[w] = Free /\ task[w] = NoTask
    /\ desk' = [desk EXCEPT ![w] = request]
    /\ UNCHANGED <<held, roll>>

HeldFor(o) == {m \in held : OfferingAt[m] = o}

\* _attendance_rate: a meeting without a record counts as missed.
LowRate(s, o) ==
    LET present == {m \in HeldFor(o) : roll[<<m, s>>] = "present"} IN
    HeldFor(o) # {} /\ 4 * Cardinality(present) < 3 * Cardinality(HeldFor(o))

\* The rows of the query in _assessment_average, by their place in the order of
\* created_at, and whether the latest two of them are below half of the maximum.
Shown(s, o, grades) ==
    {i \in 1..Len(created) : OfferingOf[created[i]] = o /\ <<created[i], s>> \in grades}
LatestTwoLow(s, shown) ==
    \E i, j \in shown :
        /\ {k \in shown : k > j} = {i}
        /\ score[<<created[i], s>>] + score[<<created[j], s>>] < MaxScore

\* Variant: grades count that are not published.
LowAverageOfAll(s, o) == LatestTwoLow(s, Shown(s, o, {g \in GradeIds : score[g] # None}))

\* _assessment_average: the two assessments created last whose grade is published.
LowAverage(s, o) == LatestTwoLow(s, Shown(s, o, published))

-----------------------------------------------------------------------------
\* POST /attendance-sessions
CreateMeeting(m) ==
    /\ OfferingAt[m] \in catalog /\ m \notin held
    /\ held' = held \cup {m}
    /\ UNCHANGED <<roll, desk>>

\* POST /attendance-sessions/{id}/records: the record is looked for, then inserted,
\* unless somebody else has, or updated where the mark differs from the one loaded.
LoadMark(w, e, mark) ==
    /\ e[1] \in held
    /\ Begun(w, [Idle EXCEPT !.step = "mark", !.entry = {e}, !.loaded = roll[e], !.mark = mark])

SaveMark(w, e) ==
    LET loaded == desk[w].loaded IN
    /\ desk[w].step = "mark" /\ desk[w].entry = {e}
    /\ roll' = IF loaded = desk[w].mark \/ (loaded = "none" /\ roll[e] # "none") THEN roll
               ELSE [roll EXCEPT ![e] = desk[w].mark]
    /\ desk' = [desk EXCEPT ![w] = Idle]
    /\ UNCHANGED held

\* GET /course-offerings/{id}/at-risk and GET /me/at-risk begin with the registrations.
ListOffering(w, o) ==
    /\ o \in catalog
    /\ Begun(w, [Idle EXCEPT !.step = "list", !.todo = {r \in registered : r[2] = o}])

ListOwn(w, s) == Begun(w, [Idle EXCEPT !.step = "list", !.todo = {r \in registered : r[1] = s}])

ReadRate(w, r) ==
    /\ desk[w].step = "list" /\ r \in desk[w].todo
    /\ desk' = [desk EXCEPT ![w].step = "grades", ![w].listed = @ \cup {r},
                            ![w].low = LowRate(r[1], r[2])]
    /\ UNCHANGED <<held, roll>>

\* At risk for either reason.
ReadAverage(w, r) ==
    /\ desk[w].step = "grades" /\ r \in desk[w].todo \cap desk[w].listed
    /\ desk' = [desk EXCEPT ![w].step = "list", ![w].todo = @ \ {r}, ![w].low = FALSE,
                    ![w].flagged = IF desk[w].low \/ LowAverage(r[1], r[2]) THEN @ \cup {r} ELSE @]
    /\ UNCHANGED <<held, roll>>

\* The list goes out; or a request is refused, or its process or client goes away.
LeaveDesk(w) ==
    /\ desk[w] # Idle
    /\ desk' = [desk EXCEPT ![w] = Idle]
    /\ UNCHANGED <<held, roll>>

StandingStep ==
    \/ \E m \in Meetings : CreateMeeting(m)
    \/ \E w \in Workers :
        \/ \E e \in Entries : SaveMark(w, e) \/ (\E mark \in Marks : LoadMark(w, e, mark))
        \/ \E o \in Offerings : ListOffering(w, o)
        \/ \E s \in Students : ListOwn(w, s)
        \/ \E r \in Seats : ReadRate(w, r) \/ ReadAverage(w, r)
        \/ LeaveDesk(w)

\* Who is at risk and why, by its definition: more than a quarter of the meetings
\* missed, or the latest two published grades below half of the maximum on average.
Missed(s, o) == {m \in HeldFor(o) : roll[<<m, s>>] # "present"}
Position(g) == CHOOSE i \in 1..Len(created) : created[i] = g[1]
Latest(s, o) ==
    {g \in PublishedIn(s, o) :
        Cardinality({h \in PublishedIn(s, o) : Position(h) > Position(g)}) < 2}
AtRisk ==
    {x \in Seats \X Reasons :
        LET s == x[1][1]
            o == x[1][2]
        IN  IF x[2] = "attendance"
            THEN 4 * Cardinality(Missed(s, o)) > Cardinality(HeldFor(o))
            ELSE \E g, h \in Latest(s, o) : g # h /\ score[g] + score[h] < MaxScore}

Listing(w) == desk[w].step \in {"list", "grades"}

StandingNext ==
    /\ \/ StandingStep /\ UNCHANGED vars
       \/ /\ Next /\ UNCHANGED <<held, roll, desk>>
          /\ \A w \in Workers : desk[w] # Idle => work'[w] = work[w] /\ task'[w] = task[w]
    /\ LET now == AtRisk' IN
       /\ ever' = [w \in Workers |-> IF Listing(w)' THEN ever[w] \cup now ELSE {}]
       /\ always' = [w \in Workers |-> IF ~Listing(w)' THEN {}
                                       ELSE IF Listing(w) THEN always[w] \cap now ELSE now]

StandingSpec == StandingInit /\ [][StandingNext]_<<vars, standingVars>>

-----------------------------------------------------------------------------
(* Properties *)

\* A list of students at risk names nobody who was not at risk at some time since it was
\* asked for, and leaves out nobody who was at risk all that time, be it for one reason
\* (_at_risk_status, whose two queries see different moments; who is at risk first for
\* the one reason and then for the other may be missed).
RiskListIsFair ==
    \A w \in Workers :
        /\ \A r \in desk[w].flagged : \E why \in Reasons : <<r, why>> \in ever[w]
        /\ \A r \in desk[w].listed \ (desk[w].todo \cup desk[w].flagged), why \in Reasons :
               <<r, why>> \notin always[w]
=============================================================================
