---------------------------- MODULE QrAttendance ----------------------------
(***************************************************************************)
(* Shifts and the check-in by a code (services/hr/app/routers/attendance.py,*)
(* models/attendance.py, core/security.py).  A code is a signed token with *)
(* shift, jti and expiry; the shift's row has the jti of the newest one.   *)
(* Nothing is locked.                                                      *)
(***************************************************************************)
EXTENDS Hiring

CONSTANTS
    Shifts, Codes    \* bounds: shifts, and codes that may be issued

ASSUME CodesAssumption == None \notin Shifts \cup Codes

VARIABLES
    shiftOf,    \* attendance_shifts.employee_id, None for a row that is not there
    jti,        \* attendance_shifts.qr_token_jti: the newest code, None before any
    code,       \* the tokens issued: their shift, and whether they are still in time
    replaced,   \* history: codes that were a shift's newest and no longer are
    record,     \* attendance_records: shift, employee, and (history) whether the code
                \* was replaced when the check-in began
    scan        \* per worker: the request it serves

attendanceVars == <<shiftOf, jti, code, replaced, record, scan>>

NoCode == [shift |-> None, fresh |-> TRUE]
NotScanning == [step |-> "idle", code |-> None, shift |-> None, employee |-> None, late |-> FALSE]

AttendanceTypeOK ==
    /\ shiftOf \in [Shifts -> Employees \cup {None}]
    /\ jti \in [Shifts -> Codes \cup {None}]
    /\ code \in [Codes -> [shift : Shifts \cup {None}, fresh : BOOLEAN]]
    /\ replaced \subseteq Codes
    /\ record \subseteq [shift : Shifts, employee : Employees, late : BOOLEAN]
    /\ scan \in [Workers ->
           [step : {"idle", "mint", "decoded", "checked"}, code : Codes \cup {None},
            shift : Shifts \cup {None}, employee : Employees \cup {None}, late : BOOLEAN]]

AttendanceInit ==
    /\ shiftOf = [s \in Shifts |-> None]
    /\ jti = [s \in Shifts |-> None]
    /\ code = [c \in Codes |-> NoCode]
    /\ replaced = {} /\ record = {}
    /\ scan = [w \in Workers |-> NotScanning]

\* POST /attendance/shifts
CreateShift(s, e) ==
    /\ shiftOf[s] = None
    /\ shiftOf' = [shiftOf EXCEPT ![s] = e]
    /\ UNCHANGED <<jti, code, replaced, record, scan>>

\* POST /attendance/shifts/{id}/qr-token: a new jti is made, then stored.  The token is
\* handed out after the commit.
MintCode(w, s, c) ==
    /\ scan[w] = NotScanning
    /\ shiftOf[s] # None
    /\ code[c] = NoCode /\ \A v \in Workers : scan[v].code # c
    /\ scan' = [scan EXCEPT ![w] = [NotScanning EXCEPT !.step = "mint", !.code = c, !.shift = s]]
    /\ UNCHANGED <<shiftOf, jti, code, replaced, record>>

StoreCode(w, s) ==
    /\ scan[w].step = "mint" /\ scan[w].shift = s
    /\ jti' = [jti EXCEPT ![s] = scan[w].code]
    /\ replaced' = replaced \cup ({jti[s]} \ {None})
    /\ code' = [code EXCEPT ![scan[w].code].shift = s]
    /\ scan' = [scan EXCEPT ![w] = NotScanning]
    /\ UNCHANGED <<shiftOf, record>>

\* Ten minutes pass.
Expire(c) ==
    /\ code[c].shift # None /\ code[c].fresh
    /\ code' = [code EXCEPT ![c].fresh = FALSE]
    /\ UNCHANGED <<shiftOf, jti, replaced, record, scan>>

\* POST /attendance/check-in: signature and expiry, then the shift's row, then the
\* employee, then the record.
Decode(w, e, c) ==
    /\ scan[w] = NotScanning
    /\ code[c].shift # None /\ code[c].fresh
    /\ scan' = [scan EXCEPT ![w] =
                    [step |-> "decoded", code |-> c, shift |-> code[c].shift, employee |-> e,
                     late |-> c \in replaced]]
    /\ UNCHANGED <<shiftOf, jti, code, replaced, record>>

\* Variant: a code that is in time is good.
SkipComparison(w) ==
    /\ scan[w].step = "decoded"
    /\ shiftOf[scan[w].shift] = scan[w].employee
    /\ scan' = [scan EXCEPT ![w].step = "checked"]
    /\ UNCHANGED <<shiftOf, jti, code, replaced, record>>

CompareJti(w) ==
    /\ scan[w].step = "decoded"
    /\ jti[scan[w].shift] = scan[w].code /\ shiftOf[scan[w].shift] = scan[w].employee
    /\ scan' = [scan EXCEPT ![w].step = "checked"]
    /\ UNCHANGED <<shiftOf, jti, code, replaced, record>>

\* uq_attendance_records_shift_employee
CheckIn(w) ==
    /\ scan[w].step = "checked"
    /\ \A r \in record : ~(r.shift = scan[w].shift /\ r.employee = scan[w].employee)
    /\ record' = record \cup {[shift |-> scan[w].shift, employee |-> scan[w].employee,
                               late |-> scan[w].late]}
    /\ scan' = [scan EXCEPT ![w] = NotScanning]
    /\ UNCHANGED <<shiftOf, jti, code, replaced>>

\* A request is refused, or its process or client goes away.
AbandonScan(w) ==
    /\ scan[w] # NotScanning
    /\ scan' = [scan EXCEPT ![w] = NotScanning]
    /\ UNCHANGED <<shiftOf, jti, code, replaced, record>>

AttendanceNext ==
    \/ \E c \in Codes : Expire(c)
    \/ \E s \in Shifts, e \in Employees : CreateShift(s, e)
    \/ \E w \in Workers :
           \/ \E s \in Shifts : StoreCode(w, s) \/ (\E c \in Codes : MintCode(w, s, c))
           \/ \E e \in Employees, c \in Codes : Decode(w, e, c)
           \/ CompareJti(w) \/ CheckIn(w) \/ AbandonScan(w)

-----------------------------------------------------------------------------
(* Properties *)

\* Nobody checks in with a code that was replaced before he showed it, however requests
\* for codes and check-ins overlap (issue_shift_qr_token: a new code overwrites the
\* jti, and the codes before it stay dead).
OldCodesStayDead ==
    /\ \A r \in record : ~r.late
    /\ \A s \in Shifts : jti[s] \notin replaced
=============================================================================
