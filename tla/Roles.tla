------------------------------- MODULE Roles -------------------------------
(***************************************************************************)
(* Who administers an institution: direct role edits, self-registration    *)
(* with a role application, and the decision on it (services/identity/     *)
(* app/routers/users.py, role_requests.py and register in auth.py).        *)
(*                                                                         *)
(* Every request reads, checks and commits without a row lock, under READ  *)
(* COMMITTED; the authorisation itself is the role in an access token,     *)
(* which was true when the token was issued.  An account raises at most    *)
(* one application, when it registers, so an application is named by its   *)
(* account.  The ORM writes an attribute only if it differs from the value *)
(* it loaded.                                                              *)
(***************************************************************************)
EXTENDS Naturals

CONSTANTS Users,       \* accounts of one institution, by email
          FirstAdmins, \* the admins it was set up with
          Applicants,  \* people who register themselves, maybe for a role
          StaffRoles,  \* roles that are neither student nor admin
          Workers,     \* requests handled at the same time
          None

ASSUME UsersAssumption ==
    /\ Applicants \cup FirstAdmins \subseteq Users
    /\ Applicants \cap FirstAdmins = {}
    /\ FirstAdmins # {}
    /\ None \notin Users
ASSUME RolesAssumption == {"admin", "student", "absent"} \cap StaffRoles = {}

Roles == StaffRoles \cup {"admin", "student"}
Statuses == {"none", "pending", "approved", "rejected"}

VARIABLES
    role,     \* users.role; "absent" until the account exists
    asked,    \* role_requests.requested_role
    status,   \* role_requests.status, "none" without a row
    tokens,   \* accounts with an unexpired access token that says admin
    work,     \* per worker: the request it serves and what it has loaded
    edited    \* history: accounts whose role an admin edited directly

vars == <<role, asked, status, tokens, work, edited>>

Steps == {"idle", "raise", "count", "save", "load", "decide"}

Free == [step |-> "idle", user |-> None, role |-> "student", seen |-> "student",
         approve |-> FALSE]

Work == [step : Steps, user : Users \cup {None}, role : Roles, seen : Roles,
         approve : BOOLEAN]

TypeOK ==
    /\ role \in [Users -> Roles \cup {"absent"}]
    /\ asked \in [Users -> Roles]
    /\ status \in [Users -> Statuses]
    /\ tokens \subseteq Users
    /\ work \in [Workers -> Work]
    /\ edited \subseteq Users

Init ==
    /\ role = [u \in Users |-> IF u \in FirstAdmins THEN "admin"
                               ELSE IF u \in Applicants THEN "absent" ELSE "student"]
    /\ asked = [u \in Users |-> "student"]
    /\ status = [u \in Users |-> "none"]
    /\ tokens = {}
    /\ work = [w \in Workers |-> Free]
    /\ edited = {}

Admins == {u \in Users : role[u] = "admin"}

-----------------------------------------------------------------------------
(* Access tokens *)

\* Sign-in or refresh: the token carries the role of this moment.  require_roles
\* looks at nothing else, so only tokens that say admin matter here.
SignIn(u) ==
    /\ role[u] = "admin"
    /\ tokens' = tokens \cup {u}
    /\ UNCHANGED <<role, asked, status, work, edited>>

Expire(u) ==
    /\ u \in tokens
    /\ tokens' = tokens \ {u}
    /\ UNCHANGED <<role, asked, status, work, edited>>

-----------------------------------------------------------------------------
(* POST /auth/register: two commits, the account and then the application *)

Register(w, u, r) ==
    /\ work[w] = Free
    /\ role[u] = "absent"
    /\ role' = [role EXCEPT ![u] = "student"]
    /\ work' = IF r = "student" THEN work
               ELSE [work EXCEPT ![w] = [Free EXCEPT !.step = "raise", !.user = u,
                                                     !.role = r]]
    /\ UNCHANGED <<asked, status, tokens, edited>>

RaiseRequest(w) ==
    /\ work[w].step = "raise"
    /\ asked' = [asked EXCEPT ![work[w].user] = work[w].role]
    /\ status' = [status EXCEPT ![work[w].user] = "pending"]
    /\ work' = [work EXCEPT ![w] = Free]
    /\ UNCHANGED <<role, tokens, edited>>

-----------------------------------------------------------------------------
(* PATCH /users/{user_id}/role *)

\* The caller's token says admin, nobody edits their own role, and the account
\* is loaded.  Only the demotion of an admin goes on to count the others.
LoadUser(w, caller, u, r) ==
    /\ work[w] = Free
    /\ caller \in tokens
    /\ caller # u
    /\ role[u] # "absent"
    /\ work' = [work EXCEPT ![w] =
                 [Free EXCEPT !.step = IF role[u] = "admin" /\ r # "admin"
                                       THEN "count" ELSE "save",
                              !.user = u, !.role = r, !.seen = role[u]]]
    /\ UNCHANGED <<role, asked, status, tokens, edited>>

\* Variant: the guard for the last admin counts the account itself too.
CountAdminsAll(w) ==
    /\ work[w].step = "count"
    /\ work' = [work EXCEPT ![w] = IF Admins # {} THEN [work[w] EXCEPT !.step = "save"]
                                   ELSE Free]
    /\ UNCHANGED <<role, asked, status, tokens, edited>>

\* Without another admin the answer is 409.
CountAdmins(w) ==
    /\ work[w].step = "count"
    /\ work' = [work EXCEPT ![w] = IF Admins \ {work[w].user} # {}
                                   THEN [work[w] EXCEPT !.step = "save"] ELSE Free]
    /\ UNCHANGED <<role, asked, status, tokens, edited>>

\* The account a worker writes, if the value is not the one it loaded.
Written(w) ==
    IF work[w].role = work[w].seen THEN role
    ELSE [role EXCEPT ![work[w].user] = work[w].role]

SaveRole(w) ==
    /\ work[w].step = "save"
    /\ role' = Written(w)
    /\ edited' = edited \cup {work[w].user}
    /\ work' = [work EXCEPT ![w] = Free]
    /\ UNCHANGED <<asked, status, tokens>>

-----------------------------------------------------------------------------
(* POST /role-requests/{request_id}/decision *)

\* Variant: an application can be decided whatever its status.
LoadRequestAny(w, caller, u, approve) ==
    /\ work[w] = Free
    /\ caller \in tokens
    /\ caller # u
    /\ status[u] # "none"
    /\ work' = [work EXCEPT ![w] = [Free EXCEPT !.step = "load", !.user = u,
                                                !.role = asked[u], !.approve = approve]]
    /\ UNCHANGED <<role, asked, status, tokens, edited>>

\* The application is loaded and still pending, and it is not the caller's own.
LoadRequest(w, caller, u, approve) ==
    /\ work[w] = Free
    /\ caller \in tokens
    /\ caller # u
    /\ status[u] = "pending"
    /\ work' = [work EXCEPT ![w] = [Free EXCEPT !.step = "load", !.user = u,
                                                !.role = asked[u], !.approve = approve]]
    /\ UNCHANGED <<role, asked, status, tokens, edited>>

LoadApplicant(w) ==
    /\ work[w].step = "load"
    /\ work' = [work EXCEPT ![w].step = "decide", ![w].seen = role[work[w].user]]
    /\ UNCHANGED <<role, asked, status, tokens, edited>>

SaveDecision(w) ==
    /\ work[w].step = "decide"
    /\ role' = IF work[w].approve THEN Written(w) ELSE role
    /\ status' = [status EXCEPT ![work[w].user] =
                    IF work[w].approve THEN "approved" ELSE "rejected"]
    /\ work' = [work EXCEPT ![w] = Free]
    /\ UNCHANGED <<asked, tokens, edited>>

\* A process dies or a client disconnects: nothing uncommitted remains.
Crash(w) ==
    /\ work[w] # Free
    /\ work' = [work EXCEPT ![w] = Free]
    /\ UNCHANGED <<role, asked, status, tokens, edited>>

-----------------------------------------------------------------------------
Edit(w) ==
    \/ \E caller, u \in Users, r \in Roles : LoadUser(w, caller, u, r)
    \/ CountAdmins(w)
    \/ SaveRole(w)

Decide(w) ==
    \/ \E caller, u \in Users, approve \in BOOLEAN : LoadRequest(w, caller, u, approve)
    \/ LoadApplicant(w)
    \/ SaveDecision(w)

Apply(w) ==
    \/ \E u \in Applicants, r \in Roles : Register(w, u, r)
    \/ RaiseRequest(w)

Next ==
    \/ \E u \in Users : SignIn(u) \/ Expire(u)
    \/ \E w \in Workers : Apply(w) \/ Edit(w) \/ Decide(w) \/ Crash(w)

Spec == Init /\ [][Next]_vars

-----------------------------------------------------------------------------
(* Properties *)

\* An institution always has an admin: nobody else could grant the role back
\* (update_user_role, the comment at routers/users.py:65).  It holds when
\* requests are handled one at a time and nobody applies for a role, even with
\* tokens of admins who were demoted since; it fails otherwise, see the README.
AdminRemains == Admins # {}

\* The guard of update_user_role is enough when requests are handled one at a
\* time: only the decision on an application, which has no such guard, may leave
\* an institution without an admin, and not even somebody who is no admin any more
\* but still has the token of one can do it by editing roles.
LastAdminGuarded == [][Admins # {} /\ Admins' = {} => \E w \in Workers : SaveDecision(w)]_vars

\* The role of an account nobody edited directly is what the decision on its
\* application says: the requested role if and only if it was approved
\* (decide_role_request; RoleRequest "grants nothing" by itself).
RoleFollowsDecision ==
    \A u \in Applicants \ edited :
        role[u] \in {"absent", IF status[u] = "approved" THEN asked[u] ELSE "student"}

\* Requests are handled one at a time.
Serial == \A v, w \in Workers : v = w
=============================================================================
