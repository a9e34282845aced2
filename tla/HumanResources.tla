--------------------------- MODULE HumanResources ---------------------------
(***************************************************************************)
(* The parts of the HR service side by side: each keeps its own tables     *)
(* (services/hr/app/main.py includes their routers), hiring and payroll    *)
(* share the employees, and a process serves requests of every part.       *)
(***************************************************************************)
EXTENDS Payroll, Leave, Assets, QrAttendance, Payslip

parts == <<personnelVars, leaveVars, assetVars, attendanceVars, payslipVars>>

Init == PersonnelInit /\ LeaveInit /\ AssetsInit /\ AttendanceInit /\ PayslipInit

Next ==
    \/ PersonnelNext /\ UNCHANGED <<leaveVars, assetVars, attendanceVars, payslipVars>>
    \/ LeaveNext /\ UNCHANGED <<personnelVars, assetVars, attendanceVars, payslipVars>>
    \/ AssetsNext /\ UNCHANGED <<personnelVars, leaveVars, attendanceVars, payslipVars>>
    \/ AttendanceNext /\ UNCHANGED <<personnelVars, leaveVars, assetVars, payslipVars>>
    \/ PayslipNext /\ UNCHANGED <<personnelVars, leaveVars, assetVars, attendanceVars>>

Spec == Init /\ [][Next]_parts

TypeOK ==
    HiringTypeOK /\ PayrollTypeOK /\ LeaveTypeOK /\ AssetsTypeOK /\ AttendanceTypeOK /\ PayslipTypeOK
=============================================================================
