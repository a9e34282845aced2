--------------------------- MODULE RefreshTokens ---------------------------
(***************************************************************************)
(* Refresh tokens of one account: sign-in starts a family, every refresh   *)
(* revokes the token it is given and adds its successor to the family, and *)
(* a revoked token that comes back revokes the whole family (services/     *)
(* identity/app/routers/auth.py, _issue_tokens_for_user, refresh, logout;  *)
(* RefreshSession in models/identity.py).                                  *)
(*                                                                         *)
(* refresh reads the row without a lock and commits later.  The UPDATE that *)
(* revokes a family sees the rows committed when it starts, and waiting    *)
(* for the row of a rotation in flight does not show it the rotation's new *)
(* row: the outcome is that of the rotation committing last.  A family is  *)
(* named by the token that started it.  A client presents any token it was *)
(* given, again and from several windows; answers get lost.                *)
(***************************************************************************)

CONSTANTS Tokens,    \* refresh_sessions rows, by token
          Requests,  \* refresh requests handled at the same time
          NoToken

ASSUME NoTokenAssumption == NoToken \notin Tokens

VARIABLES
    family,    \* per row: its family, NoToken before the row exists
    parent,    \* history: the token that was exchanged for this one
    revoked,   \* revoked_at IS NOT NULL
    lapsed,    \* expires_at has passed
    refreshing, \* per request: its step and its token
    reported   \* history: families that were revoked because of a reuse

tokenVars == <<family, parent, revoked, lapsed, refreshing, reported>>

NotRefreshing == [step |-> "idle", token |-> NoToken]

TokensTypeOK ==
    /\ family \in [Tokens -> Tokens \cup {NoToken}]
    /\ parent \in [Tokens -> Tokens \cup {NoToken}]
    /\ revoked \subseteq Tokens
    /\ lapsed \subseteq Tokens
    /\ refreshing \in [Requests -> [step : {"idle", "rotate", "reuse"},
                             token : Tokens \cup {NoToken}]]
    /\ reported \subseteq Tokens

TokensInit ==
    /\ family = [t \in Tokens |-> NoToken]
    /\ parent = [t \in Tokens |-> NoToken]
    /\ revoked = {}
    /\ lapsed = {}
    /\ refreshing = [w \in Requests |-> NotRefreshing]
    /\ reported = {}

Issued == {t \in Tokens : family[t] # NoToken}
Family(f) == {t \in Tokens : family[t] = f}
Live(f) == Family(f) \ revoked

-----------------------------------------------------------------------------
\* _issue_tokens_for_user: a new family.
StartFamily(t) ==
    /\ t \notin Issued
    /\ family' = [family EXCEPT ![t] = t]
    /\ UNCHANGED <<parent, revoked, lapsed, refreshing, reported>>

\* Variant: revoked_at is not looked at.
PresentRevoked(w, t) ==
    /\ refreshing[w] = NotRefreshing
    /\ t \in Issued \ lapsed
    /\ refreshing' = [refreshing EXCEPT ![w] = [step |-> "rotate", token |-> t]]
    /\ UNCHANGED <<family, parent, revoked, lapsed, reported>>

\* POST /refresh reads the row of the token: a revoked one is a reuse, an
\* lapsed one a 401, else the token is about to be exchanged.
Present(w, t) ==
    /\ refreshing[w] = NotRefreshing
    /\ t \in Issued
    /\ t \in revoked \/ t \notin lapsed
    /\ refreshing' = [refreshing EXCEPT ![w] = [step |-> IF t \in revoked THEN "reuse" ELSE "rotate",
                                    token |-> t]]
    /\ UNCHANGED <<family, parent, revoked, lapsed, reported>>

\* Variant: the exchanged token is not revoked.
RotateKeeping(w, n) ==
    LET t == refreshing[w].token IN
    /\ refreshing[w].step = "rotate"
    /\ n \notin Issued
    /\ family' = [family EXCEPT ![n] = family[t]]
    /\ parent' = [parent EXCEPT ![n] = t]
    /\ refreshing' = [refreshing EXCEPT ![w] = NotRefreshing]
    /\ UNCHANGED <<revoked, lapsed, reported>>

\* One commit: the token is revoked and its successor exists.
Rotate(w, n) ==
    LET t == refreshing[w].token IN
    /\ refreshing[w].step = "rotate"
    /\ n \notin Issued
    /\ family' = [family EXCEPT ![n] = family[t]]
    /\ parent' = [parent EXCEPT ![n] = t]
    /\ revoked' = revoked \cup {t}
    /\ refreshing' = [refreshing EXCEPT ![w] = NotRefreshing]
    /\ UNCHANGED <<lapsed, reported>>

RevokeFamily(w) ==
    LET f == family[refreshing[w].token] IN
    /\ refreshing[w].step = "reuse"
    /\ revoked' = revoked \cup Family(f)
    /\ reported' = reported \cup {f}
    /\ refreshing' = [refreshing EXCEPT ![w] = NotRefreshing]
    /\ UNCHANGED <<family, parent, lapsed>>

\* POST /logout: one UPDATE of the presented token's row.
Logout(t) ==
    /\ t \in Issued \ revoked
    /\ revoked' = revoked \cup {t}
    /\ UNCHANGED <<family, parent, lapsed, refreshing, reported>>

Expire(t) ==
    /\ t \in Issued \ lapsed
    /\ lapsed' = lapsed \cup {t}
    /\ UNCHANGED <<family, parent, revoked, refreshing, reported>>

\* A process dies or a client disconnects before the commit.
AbandonRefresh(w) ==
    /\ refreshing[w] # NotRefreshing
    /\ refreshing' = [refreshing EXCEPT ![w] = NotRefreshing]
    /\ UNCHANGED <<family, parent, revoked, lapsed, reported>>

TokensNext ==
    \/ \E t \in Tokens : StartFamily(t) \/ Logout(t) \/ Expire(t)
    \/ \E w \in Requests :
        \/ \E t \in Tokens : Present(w, t)
        \/ \E n \in Tokens : Rotate(w, n)
        \/ RevokeFamily(w)
        \/ AbandonRefresh(w)

TokensSpec == TokensInit /\ [][TokensNext]_tokenVars

-----------------------------------------------------------------------------
(* Properties *)

\* A request is about to exchange a token of the family.
Rotating(f) ==
    \E w \in Requests : refreshing[w].step = "rotate" /\ family[refreshing[w].token] = f

\* What a step may not do to a family.
StaysDead ==
    \A f \in Issued : (Live(f) = {} /\ ~Rotating(f)) => (Live(f)' = {} /\ ~Rotating(f)')

\* A family with no live token and no exchange in flight stays that way, however
\* often and from wherever its old tokens are presented (refresh, logout).
DeadFamiliesStayDead == [][StaysDead]_tokenVars

\* A token that was exchanged is never live again, and after the first exchange
\* of a family the only live tokens are those of the latest exchanges: every
\* ancestor of a live token is revoked (refresh; RefreshSession's docstring).
OnlyLeavesLive == \A t \in Issued : parent[t] # NoToken => parent[t] \in revoked

\* A family has at most one live token: a token is exchanged once, and a second
\* exchange of it is a reuse (RefreshSession's docstring, "so reuse of a
\* stale/rotated-out token is detectable").  Requests one at a time only.
OneLiveToken == \A f \in Issued : \A s, t \in Live(f) : s = t

\* A family that was reported for a reuse has no live token (refresh, "the whole
\* rotation family is revoked immediately").  Requests one at a time only.
ReportedIsDead == \A f \in reported : Live(f) = {}

\* Refresh requests are handled one at a time.
OneRefresh == \A v, w \in Requests : v = w
=============================================================================
