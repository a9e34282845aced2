---------------------------- MODULE RolesProofs ----------------------------
(***************************************************************************)
(* Proofs about Roles: types always, and for requests handled one at a     *)
(* time the admin that remains and the role that follows the decision.     *)
(***************************************************************************)
EXTENDS Roles, TLAPS

-----------------------------------------------------------------------------
(* The inductive invariants *)

\* A request knows its account, which exists; only an applicant applies, and
\* only an application is decided.
RequestOK(w) ==
    /\ work[w].step # "idle" =>
            work[w].user \in Users /\ role[work[w].user] # "absent"
    /\ work[w].step = "raise" => work[w].user \in Applicants
    /\ work[w].step \in {"load", "decide"} => status[work[w].user] # "none"

\* Only applicants who registered have an application.
RowsExist ==
    \A u \in Users : status[u] # "none" => u \in Applicants /\ role[u] # "absent"

IInv == TypeOK /\ RowsExist /\ \A w \in Workers : RequestOK(w)

USE DEF Roles, Statuses, Steps, Free, Work

LEMMA InitIInv == Init => IInv
<1> USE UsersAssumption, RolesAssumption DEF Init
<1>1. Init => TypeOK
  BY DEF TypeOK
<1>2. Init => RowsExist
  BY DEF RowsExist
<1>3. Init => \A w \in Workers : work[w].step = "idle"
  OBVIOUS
<1>4. Init => \A w \in Workers : RequestOK(w)
  BY <1>3 DEF RequestOK
<1> QED
  BY <1>1, <1>2, <1>4 DEF IInv

LEMMA IInvStep == IInv /\ [Next]_vars => IInv'
<1> SUFFICES ASSUME IInv, [Next]_vars PROVE IInv'
    OBVIOUS
<1> USE UsersAssumption, RolesAssumption DEF IInv, TypeOK, RowsExist, RequestOK
<1>1. ASSUME NEW u \in Users, SignIn(u) PROVE IInv'
    BY <1>1 DEF SignIn
<1>2. ASSUME NEW u \in Users, Expire(u) PROVE IInv'
    BY <1>2 DEF Expire
<1>3. ASSUME NEW w \in Workers, NEW u \in Applicants, NEW r \in Roles, Register(w, u, r)
      PROVE  IInv'
    BY <1>3 DEF Register
<1>4. ASSUME NEW w \in Workers, RaiseRequest(w) PROVE IInv'
  <2>1. work[w].user \in Users /\ work[w].role \in Roles /\ work[w].user \in Applicants
    BY <1>4 DEF RaiseRequest
  <2>2. TypeOK'
    BY <1>4, <2>1 DEF RaiseRequest
  <2>3. RowsExist' /\ (\A v \in Workers : RequestOK(v))'
    BY <1>4, <2>1 DEF RaiseRequest
  <2> QED
    BY <2>2, <2>3
<1>5. ASSUME NEW w \in Workers, NEW caller \in Users, NEW u \in Users, NEW r \in Roles,
             LoadUser(w, caller, u, r)
      PROVE  IInv'
    BY <1>5 DEF LoadUser
<1>6. ASSUME NEW w \in Workers, CountAdmins(w) PROVE IInv'
    BY <1>6 DEF CountAdmins
<1>7. ASSUME NEW w \in Workers, SaveRole(w) PROVE IInv'
    BY <1>7 DEF SaveRole, Written
<1>8. ASSUME NEW w \in Workers, NEW caller \in Users, NEW u \in Users, NEW a \in BOOLEAN,
             LoadRequest(w, caller, u, a)
      PROVE  IInv'
    BY <1>8 DEF LoadRequest
<1>9. ASSUME NEW w \in Workers, LoadApplicant(w) PROVE IInv'
  <2>1. work[w].user \in Users /\ role[work[w].user] \in Roles
    BY <1>9 DEF LoadApplicant
  <2>2. work'[w] \in Work
    <3>1. work' = [work EXCEPT ![w] =
                     [work[w] EXCEPT !.step = "decide", !.seen = role[work[w].user]]]
      BY <1>9 DEF LoadApplicant
    <3>2. work[w] \in Work
      OBVIOUS
    <3> QED
      BY <2>1, <3>1, <3>2
  <2>3. TypeOK'
    BY <1>9, <2>2 DEF LoadApplicant
  <2>4. RowsExist' /\ (\A v \in Workers : RequestOK(v))'
    BY <1>9, <2>1 DEF LoadApplicant
  <2> QED
    BY <2>3, <2>4
<1>10. ASSUME NEW w \in Workers, SaveDecision(w) PROVE IInv'
    BY <1>10 DEF SaveDecision, Written
<1>11. ASSUME NEW w \in Workers, Crash(w) PROVE IInv'
    BY <1>11 DEF Crash
<1>12. CASE UNCHANGED vars
    BY <1>12 DEF vars
<1> QED
    BY <1>1, <1>2, <1>3, <1>4, <1>5, <1>6, <1>7, <1>8, <1>9, <1>10, <1>11, <1>12
    DEF Next, Apply, Edit, Decide

LEMMA IInvAlways == Spec => []IInv
  BY InitIInv, IInvStep, PTL DEF Spec

\* Accounts, applications, tokens and requests have their types.
THEOREM TypeCorrect == Spec => []TypeOK
<1>1. IInv => TypeOK
  BY DEF IInv
<1> QED
  BY <1>1, IInvAlways, PTL

-----------------------------------------------------------------------------
(* One request at a time: the guard for the last admin *)

\* What was loaded is still true, and whoever is about to demote an admin has
\* counted another one.
Counted ==
    \A w \in Workers :
        /\ work[w].step \in {"count", "save"} => work[w].seen = role[work[w].user]
        /\ (work[w].step = "save" /\ work[w].seen = "admin" /\ work[w].role # "admin") =>
                Admins \ {work[w].user} # {}

CInv == IInv /\ Counted

LEMMA CInvInit == Init => CInv
<1>1. Init => \A w \in Workers : work[w].step = "idle"
  BY DEF Init
<1> QED
  BY InitIInv, <1>1 DEF CInv, Counted

\* The only worker has finished its request.
LEMMA FreeIsCounted ==
  ASSUME Serial, IInv, NEW w \in Workers, work' = [work EXCEPT ![w] = Free]
  PROVE  Counted'
<1>1. \A v \in Workers : v = w
  BY DEF Serial
<1>2. work'[w].step = "idle"
  BY DEF IInv, TypeOK
<1> QED
  BY <1>1, <1>2 DEF Counted

LEMMA CountedStep == Serial /\ CInv /\ [Next]_vars => Counted'
<1> SUFFICES ASSUME Serial, CInv, [Next]_vars PROVE Counted'
    OBVIOUS
<1> USE UsersAssumption, RolesAssumption
    DEF CInv, IInv, TypeOK, RowsExist, RequestOK, Counted, Admins, Serial
<1>1. ASSUME NEW u \in Users, SignIn(u) \/ Expire(u) PROVE Counted'
    BY <1>1 DEF SignIn, Expire
<1>2. ASSUME NEW w \in Workers, Apply(w) PROVE Counted'
  <2>1. ASSUME NEW u \in Applicants, NEW r \in Roles, Register(w, u, r) PROVE Counted'
    BY <2>1 DEF Register
  <2>2. CASE RaiseRequest(w)
    BY <2>2, FreeIsCounted DEF RaiseRequest
  <2> QED
    BY <1>2, <2>1, <2>2 DEF Apply
<1>3. ASSUME NEW w \in Workers, NEW caller \in Users, NEW u \in Users, NEW r \in Roles,
             LoadUser(w, caller, u, r)
      PROVE  Counted'
    BY <1>3 DEF LoadUser
<1>4. ASSUME NEW w \in Workers, CountAdmins(w) PROVE Counted'
    BY <1>4 DEF CountAdmins
<1>5. ASSUME NEW w \in Workers, SaveRole(w) \/ SaveDecision(w) \/ Crash(w) PROVE Counted'
    BY <1>5, FreeIsCounted DEF SaveRole, SaveDecision, Crash
<1>6. ASSUME NEW w \in Workers, NEW caller \in Users, NEW u \in Users, NEW a \in BOOLEAN,
             LoadRequest(w, caller, u, a)
      PROVE  Counted'
    BY <1>6 DEF LoadRequest
<1>7. ASSUME NEW w \in Workers, LoadApplicant(w) PROVE Counted'
    BY <1>7 DEF LoadApplicant
<1>8. CASE UNCHANGED vars
    BY <1>8 DEF vars
<1> QED
    BY <1>1, <1>2, <1>3, <1>4, <1>5, <1>6, <1>7, <1>8 DEF Next, Edit, Decide

\* A role edit that demotes an admin leaves the one that was counted.
LEMMA EditLeavesAnAdmin ==
  ASSUME CInv, NEW w \in Workers, SaveRole(w), AdminRemains
  PROVE  AdminRemains'
<1> USE DEF CInv, IInv, TypeOK, RequestOK, Counted, AdminRemains, Admins
<1>1. work[w].user \in Users /\ work[w].seen = role[work[w].user]
  BY DEF SaveRole
<1>2. CASE work[w].role = work[w].seen
  BY <1>2 DEF SaveRole, Written
<1>3. CASE work[w].role # work[w].seen
  <2>1. role' = [role EXCEPT ![work[w].user] = work[w].role]
    BY <1>3 DEF SaveRole, Written
  <2>2. CASE work[w].role = "admin"
    BY <1>1, <2>1, <2>2
  <2>3. CASE work[w].role # "admin"
    <3>1. PICK a \in Users : role[a] = "admin" /\ a # work[w].user
      BY <1>1, <2>3 DEF SaveRole
    <3> QED
      BY <2>1, <3>1
  <2> QED
    BY <2>2, <2>3
<1> QED
  BY <1>2, <1>3

\* Every other step but a decision leaves the admins there are.
LEMMA AdminsStay ==
  ASSUME CInv, [Next]_vars, AdminRemains, \A w \in Workers : ~SaveDecision(w)
  PROVE  AdminRemains'
<1> USE DEF AdminRemains, Admins
<1>1. ASSUME NEW u \in Users, SignIn(u) \/ Expire(u) PROVE AdminRemains'
  BY <1>1 DEF SignIn, Expire
<1>2. ASSUME NEW w \in Workers, NEW u \in Applicants, NEW r \in Roles, Register(w, u, r)
      PROVE  AdminRemains'
  <2>1. PICK a \in Users : role[a] = "admin"
    OBVIOUS
  <2>2. role'[a] = "admin"
    BY <1>2, <2>1 DEF Register, CInv, IInv, TypeOK
  <2> QED
    BY <2>2
<1>3. ASSUME NEW w \in Workers, RaiseRequest(w) PROVE AdminRemains'
  BY <1>3 DEF RaiseRequest
<1>4. ASSUME NEW w \in Workers, Edit(w) PROVE AdminRemains'
  BY <1>4, EditLeavesAnAdmin DEF Edit, LoadUser, CountAdmins
<1>5. ASSUME NEW w \in Workers, Decide(w) PROVE AdminRemains'
  BY <1>5 DEF Decide, LoadRequest, LoadApplicant
<1>6. ASSUME NEW w \in Workers, Crash(w) PROVE AdminRemains'
  BY <1>6 DEF Crash
<1>7. CASE UNCHANGED vars
  BY <1>7 DEF vars
<1> QED
  BY <1>1, <1>2, <1>3, <1>4, <1>5, <1>6, <1>7 DEF Next, Apply

\* With requests one at a time, only the decision on an application can leave an
\* institution without an admin (update_user_role, decide_role_request).
THEOREM TheGuardIsEnough == Serial /\ Spec => LastAdminGuarded
<1> SUFFICES ASSUME Serial PROVE Spec => LastAdminGuarded
  OBVIOUS
<1>1. CInv /\ [Next]_vars => CInv'
  BY IInvStep, CountedStep DEF CInv
<1>2. CInv /\ [Next]_vars =>
        [Admins # {} /\ Admins' = {} => \E w \in Workers : SaveDecision(w)]_vars
  BY AdminsStay DEF AdminRemains
<1> QED
  BY CInvInit, <1>1, <1>2, PTL DEF Spec, LastAdminGuarded

NoApplications == Applicants = {}

\* With requests one at a time and nobody who applies, an institution always has
\* an admin.
THEOREM TheLastAdminStays == Serial /\ NoApplications /\ Spec => []AdminRemains
<1> SUFFICES ASSUME Serial, NoApplications PROVE Spec => []AdminRemains
  OBVIOUS
<1>1. Init => CInv /\ AdminRemains
  BY CInvInit, UsersAssumption DEF Init, AdminRemains, Admins
<1>2. CInv => \A w \in Workers : ~SaveDecision(w)
  BY DEF CInv, IInv, RequestOK, RowsExist, SaveDecision, NoApplications
<1>3. CInv /\ AdminRemains /\ [Next]_vars => (CInv /\ AdminRemains)'
  BY <1>2, IInvStep, CountedStep, AdminsStay DEF CInv
<1> QED
  BY <1>1, <1>3, PTL DEF Spec

-----------------------------------------------------------------------------
(* One request at a time: the role follows the decision *)

\* An application is raised once, and it is pending while it is being decided.
Pending ==
    \A w \in Workers :
        /\ work[w].step = "raise" => status[work[w].user] = "none"
        /\ work[w].step \in {"load", "decide"} =>
                /\ status[work[w].user] = "pending"
                /\ work[w].role = asked[work[w].user]
        /\ work[w].step = "decide" => work[w].seen = role[work[w].user]

DInv == IInv /\ RoleFollowsDecision /\ Pending

LEMMA DInvStep == Serial /\ DInv /\ [Next]_vars => DInv'
<1> SUFFICES ASSUME Serial, DInv, [Next]_vars PROVE DInv'
    OBVIOUS
<1>0. IInv'
    BY IInvStep DEF DInv
<1> DEFINE Goal == RoleFollowsDecision' /\ Pending'
<1> USE UsersAssumption, RolesAssumption
    DEF DInv, IInv, TypeOK, RowsExist, RequestOK, RoleFollowsDecision, Pending, Serial
<1>1. ASSUME NEW u \in Users, SignIn(u) PROVE Goal
    BY <1>1 DEF SignIn
<1>2. ASSUME NEW u \in Users, Expire(u) PROVE Goal
    BY <1>2 DEF Expire
<1>3. ASSUME NEW w \in Workers, NEW u \in Applicants, NEW r \in Roles, Register(w, u, r)
      PROVE  Goal
    BY <1>3 DEF Register
<1>4. ASSUME NEW w \in Workers, RaiseRequest(w) PROVE Goal
    BY <1>4 DEF RaiseRequest
<1>5. ASSUME NEW w \in Workers, NEW caller \in Users, NEW u \in Users, NEW r \in Roles,
             LoadUser(w, caller, u, r)
      PROVE  Goal
    BY <1>5 DEF LoadUser
<1>6. ASSUME NEW w \in Workers, CountAdmins(w) PROVE Goal
    BY <1>6 DEF CountAdmins
<1>7. ASSUME NEW w \in Workers, SaveRole(w) PROVE Goal
    BY <1>7 DEF SaveRole, Written
<1>8. ASSUME NEW w \in Workers, NEW caller \in Users, NEW u \in Users, NEW a \in BOOLEAN,
             LoadRequest(w, caller, u, a)
      PROVE  Goal
    BY <1>8 DEF LoadRequest
<1>9. ASSUME NEW w \in Workers, LoadApplicant(w) PROVE Goal
    BY <1>9 DEF LoadApplicant
<1>10. ASSUME NEW w \in Workers, SaveDecision(w) PROVE Goal
  <2>1. /\ work[w].user \in Users
        /\ work[w].seen = role[work[w].user]
        /\ work[w].role = asked[work[w].user]
        /\ status[work[w].user] = "pending"
    BY <1>10 DEF SaveDecision
  <2>2. CASE work[w].approve
    BY <1>10, <2>1, <2>2 DEF SaveDecision, Written
  <2>3. CASE ~work[w].approve
    BY <1>10, <2>1, <2>3 DEF SaveDecision
  <2> QED
    BY <2>2, <2>3
<1>11. ASSUME NEW w \in Workers, Crash(w) PROVE Goal
    BY <1>11 DEF Crash
<1>12. UNCHANGED vars => Goal
    BY DEF vars
<1> QED
    BY <1>0, <1>1, <1>2, <1>3, <1>4, <1>5, <1>6, <1>7, <1>8, <1>9, <1>10, <1>11, <1>12
    DEF Next, Apply, Edit, Decide

\* With requests one at a time, an account nobody edited has the role the
\* decision on its application says (decide_role_request).
THEOREM TheDecisionIsFollowed == Serial /\ Spec => []RoleFollowsDecision
<1> SUFFICES ASSUME Serial PROVE Spec => []RoleFollowsDecision
  OBVIOUS
<1>1. Init => DInv
  <2>1. Init => RoleFollowsDecision
    BY UsersAssumption DEF Init, RoleFollowsDecision
  <2>2. Init => \A w \in Workers : work[w].step = "idle"
    BY DEF Init
  <2> QED
    BY InitIInv, <2>1, <2>2 DEF DInv, Pending
<1>2. DInv /\ [Next]_vars => DInv'
  BY DInvStep
<1>3. DInv => RoleFollowsDecision
  BY DEF DInv
<1> QED
  BY <1>1, <1>2, <1>3, PTL DEF Spec
=============================================================================
