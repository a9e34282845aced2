------------------------------- MODULE Leave -------------------------------
(***************************************************************************)
(* Leave requests, their decision and the notification of the employee     *)
(* (services/hr/app/routers/leave.py, models/leave.py).  Nothing is        *)
(* locked.  Dates and reasons are left out; accounts are linked to         *)
(* employees by hand, outside the service.                                 *)
(***************************************************************************)
EXTENDS Hiring

CONSTANTS
    Leaves, Notes,   \* bounds: rows of leave_requests and notifications
    Users,
    UserOf           \* employees.user_id, None while no account is linked

ASSUME LeaveAssumption == UserOf \in [Employees -> Users \cup {None}] /\ None \notin Leaves

VARIABLES
    leave,           \* leave_requests: employee and status, or NoLeave
    note,            \* notifications: request and verdict they tell of, and read
    deciding,        \* per worker: the decision it serves
    leaveContested   \* history: requests two decisions were at work on at a commit

leaveVars == <<leave, note, deciding, leaveContested>>

Verdicts == {"approved", "rejected"}
NoLeave == [employee |-> None, status |-> "pending"]
NoNote == [leave |-> None, verdict |-> "rejected", read |-> FALSE]
NotDeciding == [leave |-> None, user |-> None]

LeaveTypeOK ==
    /\ leave \in [Leaves -> [employee : Employees \cup {None}, status : Verdicts \cup {"pending"}]]
    /\ note \in [Notes -> [leave : Leaves \cup {None}, verdict : Verdicts, read : BOOLEAN]]
    /\ deciding \in [Workers -> [leave : Leaves \cup {None}, user : Users \cup {None}]]
    /\ leaveContested \subseteq Leaves

LeaveInit ==
    /\ leave = [l \in Leaves |-> NoLeave]
    /\ note = [n \in Notes |-> NoNote]
    /\ deciding = [w \in Workers |-> NotDeciding]
    /\ leaveContested = {}

\* The employee of an account; without one the handlers answer 404.
Own(u) == {e \in Employees : UserOf[e] = u}

\* POST /leave/requests
CreateLeave(u, l) ==
    /\ leave[l] = NoLeave
    /\ \E e \in Own(u) : leave' = [leave EXCEPT ![l].employee = e]
    /\ UNCHANGED <<note, deciding, leaveContested>>

\* Variant: a request that is decided already is not refused.
LoadAnyLeave(w, u, l) ==
    /\ deciding[w] = NotDeciding
    /\ leave[l] # NoLeave /\ UserOf[leave[l].employee] # u
    /\ deciding' = [deciding EXCEPT ![w] = [leave |-> l, user |-> u]]
    /\ UNCHANGED <<leave, note, leaveContested>>

\* POST /leave/requests/{id}/decision: a pending request of somebody else.
LoadLeave(w, u, l) ==
    /\ deciding[w] = NotDeciding
    /\ leave[l] # NoLeave /\ leave[l].status = "pending" /\ UserOf[leave[l].employee] # u
    /\ deciding' = [deciding EXCEPT ![w] = [leave |-> l, user |-> u]]
    /\ UNCHANGED <<leave, note, leaveContested>>

\* Status and notification in one commit; without an account there is nobody to tell.
Decide(w, l, verdict) ==
    /\ deciding[w].leave = l
    /\ leave' = [leave EXCEPT ![l].status = verdict]
    /\ IF UserOf[leave[l].employee] = None THEN UNCHANGED note
       ELSE \E n \in Notes :
                /\ note[n] = NoNote
                /\ note' = [note EXCEPT ![n] =
                                [leave |-> l, verdict |-> verdict, read |-> FALSE]]
    /\ deciding' = [deciding EXCEPT ![w] = NotDeciding]
    /\ leaveContested' = IF \E v \in Workers \ {w} : deciding[v].leave = l
                         THEN leaveContested \cup {l} ELSE leaveContested

\* POST /notifications/{id}/read: by the employee it is for, once.
MarkRead(u, n) ==
    /\ note[n] # NoNote /\ UserOf[leave[note[n].leave].employee] = u /\ ~note[n].read
    /\ note' = [note EXCEPT ![n].read = TRUE]
    /\ UNCHANGED <<leave, deciding, leaveContested>>

\* A request is refused, or its process or client goes away.
AbandonDecision(w) ==
    /\ deciding[w] # NotDeciding
    /\ deciding' = [deciding EXCEPT ![w] = NotDeciding]
    /\ UNCHANGED <<leave, note, leaveContested>>

LeaveNext ==
    \/ \E u \in Users :
           \/ \E l \in Leaves : CreateLeave(u, l) \/ (\E w \in Workers : LoadLeave(w, u, l))
           \/ \E n \in Notes : MarkRead(u, n)
    \/ \E w \in Workers :
           \/ \E l \in Leaves, verdict \in Verdicts : Decide(w, l, verdict)
           \/ AbandonDecision(w)

-----------------------------------------------------------------------------
(* Properties *)

\* An employee with an account is told once what became of a request, and it is what
\* the request says, unless two decisions overlapped (decide_leave_request stores both
\* in one transaction, and refuses a request that it finds decided).
ToldAsDecided ==
    \A l \in Leaves \ leaveContested :
        {note[n].verdict : n \in {m \in Notes : note[m].leave = l}} =
            (IF leave[l].status # "pending" /\ UserOf[leave[l].employee] # None
             THEN {leave[l].status} ELSE {})
        /\ \A m, n \in Notes : note[m].leave = l /\ note[n].leave = l => m = n
=============================================================================
