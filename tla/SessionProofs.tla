--------------------------- MODULE SessionProofs ---------------------------
(***************************************************************************)
(* Proofs about how a session begins and goes on: the emailed code is used *)
(* once and guessed a bounded number of times (SignIn), and an exchanged   *)
(* token or a dead family never comes back (RefreshTokens), for any number *)
(* of concurrent requests; and what one request at a time adds.            *)
(***************************************************************************)
EXTENDS SignIn, RefreshTokens, TLAPS

-----------------------------------------------------------------------------
(* Signing in: the inductive invariant, what the row lock makes true *)

\* What a request may rely on where it stands.  With its challenge loaded it
\* holds the row lock, so what it loaded is still what the row says; once it
\* has consumed the challenge, no session has been opened with it.
RequestOK(w) ==
    LET c == work[w].challenge IN
    /\ work[w].step \in {"mail", "code", "issue"} => c \in Challenges
    /\ work[w].step = "code" =>
            /\ holder[c] = w
            /\ challenge[c] = "open"
            /\ work[w].tries = tries[c]
            /\ tries[c] < MfaAttempts
    /\ work[w].step = "issue" =>
            /\ challenge[c] = "consumed"
            /\ sessions[c] = 0
            /\ tries[c] < MfaAttempts

\* A challenge is consumed by one request only.
OneIssuer ==
    \A v, w \in Workers :
        /\ work[v].step = "issue"
        /\ work[w].step = "issue"
        /\ work[v].challenge = work[w].challenge
        => v = w

\* Every wrong code is counted, and a session was opened before the last one.
ChallengeOK(c) ==
    /\ guesses[c] = tries[c]
    /\ tries[c] <= MfaAttempts
    /\ sessions[c] <= 1
    /\ sessions[c] # 0 => challenge[c] = "consumed" /\ tries[c] < MfaAttempts

IInv ==
    /\ TypeOK
    /\ \A w \in Workers : RequestOK(w)
    /\ OneIssuer
    /\ \A c \in Challenges : ChallengeOK(c)

USE DEF Steps, Work, Free, account, mfa

LEMMA InitIInv == Init => IInv
  BY NoneAssumption, BoundsAssumption
  DEF Init, IInv, TypeOK, RequestOK, OneIssuer, ChallengeOK

\* Types, for every step.
LEMMA TypeStep == IInv /\ [Next]_vars => TypeOK'
<1> SUFFICES ASSUME IInv, [Next]_vars PROVE TypeOK'
    OBVIOUS
<1> USE BoundsAssumption
<1>0. TypeOK /\ \A w \in Workers : RequestOK(w)
    BY DEF IInv
<1>1. ASSUME NEW w \in Workers, Login(w) PROVE TypeOK'
  <2>1. CASE LoadAccount(w)
    BY <1>0, <2>1 DEF TypeOK, LoadAccount
  <2>2. CASE WrongPassword(w)
    <3>1. work[w].attempts \in Nat
      BY <1>0 DEF TypeOK
    <3> QED
      BY <1>0, <2>2, <3>1 DEF TypeOK, WrongPassword
  <2>3. CASE SignInDirectly(w)
    BY <1>0, <2>3 DEF TypeOK, SignInDirectly, ResetAccount
  <2>4. ASSUME NEW c \in Challenges, StartMfaChallenge(w, c) PROVE TypeOK'
    BY <1>0, <2>4 DEF TypeOK, StartMfaChallenge, ResetAccount
  <2>5. CASE Mail(w)
    BY <1>0, <2>5 DEF TypeOK, Mail, RequestOK
  <2> QED
    BY <1>1, <2>1, <2>2, <2>3, <2>4, <2>5 DEF Login
<1>2. ASSUME NEW w \in Workers, Verify(w) PROVE TypeOK'
  <2>1. ASSUME NEW c \in Challenges, LoadChallenge(w, c) PROVE TypeOK'
    BY <1>0, <2>1 DEF TypeOK, LoadChallenge
  <2>2. CASE WrongCode(w)
    <3>1. work[w].challenge \in Challenges /\ work[w].tries \in Nat
      BY <1>0, <2>2 DEF TypeOK, WrongCode, RequestOK
    <3> QED
      BY <1>0, <2>2, <3>1 DEF TypeOK, WrongCode
  <2>3. CASE RightCode(w)
    BY <1>0, <2>3 DEF TypeOK, RightCode
  <2>4. CASE IssueTokens(w)
    <3>1. work[w].challenge \in Challenges
      BY <1>0, <2>4 DEF IssueTokens, RequestOK
    <3> QED
      BY <1>0, <2>4, <3>1 DEF TypeOK, IssueTokens
  <2> QED
    BY <1>2, <2>1, <2>2, <2>3, <2>4 DEF Verify
<1>3. ASSUME NEW w \in Workers, Crash(w) PROVE TypeOK'
    BY <1>0, <1>3 DEF TypeOK, Crash
<1>4. ASSUME NEW c \in Challenges, ChallengeExpires(c) PROVE TypeOK'
    BY <1>0, <1>4 DEF TypeOK, ChallengeExpires
<1>5. CASE LockoutEnds
    BY <1>0, <1>5 DEF TypeOK, LockoutEnds
<1>6. CASE UNCHANGED vars
    BY <1>0, <1>6 DEF TypeOK, vars
<1> QED
    BY <1>1, <1>2, <1>3, <1>4, <1>5, <1>6 DEF Next

\* Challenges, for every step.
LEMMA ChallengeStep ==
    IInv /\ TypeOK' /\ [Next]_vars =>
        (\A w \in Workers : RequestOK(w))' /\ OneIssuer' /\ (\A c \in Challenges : ChallengeOK(c))'
<1> SUFFICES ASSUME IInv, TypeOK', [Next]_vars
             PROVE  /\ (\A w \in Workers : RequestOK(w))'
                    /\ OneIssuer'
                    /\ (\A c \in Challenges : ChallengeOK(c))'
    OBVIOUS
<1> USE BoundsAssumption, NoneAssumption DEF TypeOK, RequestOK, OneIssuer, ChallengeOK
<1>0. /\ TypeOK
      /\ \A w \in Workers : RequestOK(w)
      /\ OneIssuer
      /\ \A c \in Challenges : ChallengeOK(c)
    BY DEF IInv
<1> DEFINE Goal == /\ (\A w \in Workers : RequestOK(w))'
                   /\ OneIssuer'
                   /\ (\A c \in Challenges : ChallengeOK(c))'
<1>1. ASSUME NEW w \in Workers, Login(w) PROVE Goal
  <2>1. CASE LoadAccount(w)
    BY <1>0, <2>1 DEF LoadAccount
  <2>2. CASE WrongPassword(w)
    BY <1>0, <2>2 DEF WrongPassword
  <2>3. CASE SignInDirectly(w)
    BY <1>0, <2>3 DEF SignInDirectly
  <2>4. ASSUME NEW c \in Challenges, StartMfaChallenge(w, c) PROVE Goal
    BY <1>0, <2>4 DEF StartMfaChallenge
  <2>5. CASE Mail(w)
    BY <1>0, <2>5 DEF Mail
  <2> QED
    BY <1>1, <2>1, <2>2, <2>3, <2>4, <2>5 DEF Login
<1>2. ASSUME NEW w \in Workers, Verify(w) PROVE Goal
  <2>1. ASSUME NEW c \in Challenges, LoadChallenge(w, c) PROVE Goal
    BY <1>0, <2>1 DEF LoadChallenge, CanBeAnswered
  <2>2. CASE WrongCode(w)
    <3>1. work[w].challenge \in Challenges
      BY <1>0, <2>2 DEF WrongCode
    <3> QED
      BY <1>0, <2>2, <3>1 DEF WrongCode
  <2>3. CASE RightCode(w)
    <3>1. work[w].challenge \in Challenges
      BY <1>0, <2>3 DEF RightCode
    <3> QED
      BY <1>0, <2>3, <3>1 DEF RightCode
  <2>4. CASE IssueTokens(w)
    <3>1. work[w].challenge \in Challenges
      BY <1>0, <2>4 DEF IssueTokens
    <3> QED
      BY <1>0, <2>4, <3>1 DEF IssueTokens
  <2> QED
    BY <1>2, <2>1, <2>2, <2>3, <2>4 DEF Verify
<1>3. ASSUME NEW w \in Workers, Crash(w) PROVE Goal
    BY <1>0, <1>3 DEF Crash
<1>4. ASSUME NEW c \in Challenges, ChallengeExpires(c) PROVE Goal
    BY <1>0, <1>4 DEF ChallengeExpires
<1>5. CASE LockoutEnds
    BY <1>0, <1>5 DEF LockoutEnds
<1>6. CASE UNCHANGED vars
    BY <1>0, <1>6 DEF vars
<1> QED
    BY <1>1, <1>2, <1>3, <1>4, <1>5, <1>6 DEF Next

\* The invariant is inductive.
LEMMA IInvStep == IInv /\ [Next]_vars => IInv'
  BY TypeStep, ChallengeStep DEF IInv

LEMMA IInvAlways == Spec => []IInv
  BY InitIInv, IInvStep, PTL DEF Spec

-----------------------------------------------------------------------------
(* Theorems *)

\* The account's row, the challenges and the requests have their types.
THEOREM TypeCorrect == Spec => []TypeOK
<1>1. IInv => TypeOK
  BY DEF IInv
<1> QED
  BY <1>1, IInvAlways, PTL

\* A challenge opens at most one session, for any number of concurrent requests
\* (verify_mfa).
THEOREM TheCodeIsUsedOnce == Spec => []CodeUsedOnce
<1>1. IInv => CodeUsedOnce
  BY DEF IInv, CodeUsedOnce, RequestOK, ChallengeOK
<1> QED
  BY <1>1, IInvAlways, PTL

\* Concurrent requests get no more guesses at a code than one after the other,
\* and none succeeds once the guesses are spent (verify_mfa).
THEOREM GuessesStayBounded == Spec => []GuessesAreBounded
<1>1. IInv => GuessesAreBounded
  BY BoundsAssumption DEF IInv, TypeOK, GuessesAreBounded, ChallengeOK
<1> QED
  BY <1>1, IInvAlways, PTL

-----------------------------------------------------------------------------
(* The lockout *)

\* Answering a challenge and crashing leave the account and the sign-ins in
\* flight alone.
LEMMA AccountUntouched ==
  ASSUME TypeOK, NEW w \in Workers, Verify(w) \/ Crash(w)
  PROVE  /\ UNCHANGED <<attempts, lockout, wrong>>
         /\ \A v \in Workers : work'[v].step = "password" => work'[v] = work[v]
<1>0. work \in [Workers -> Work]
  BY DEF TypeOK
<1>1. ASSUME NEW c \in Challenges, LoadChallenge(w, c)
      PROVE  /\ UNCHANGED <<attempts, lockout, wrong>>
             /\ \A v \in Workers : work'[v].step = "password" => work'[v] = work[v]
  BY <1>0, <1>1 DEF LoadChallenge
<1>2. CASE WrongCode(w)
  BY <1>0, <1>2 DEF WrongCode
<1>3. CASE RightCode(w)
  BY <1>0, <1>3 DEF RightCode
<1>4. CASE IssueTokens(w)
  BY <1>0, <1>4 DEF IssueTokens
<1>5. CASE Crash(w)
  BY <1>0, <1>5 DEF Crash
<1> QED
  BY <1>1, <1>2, <1>3, <1>4, <1>5 DEF Verify

\* A running lockout is cleared by time or by a sign-in that loaded the account while an
\* earlier one was over, and none such begins while it runs (login).
THEOREM LockoutsStand == Spec => LockoutStands
<1>1. ASSUME IInv, [Next]_vars PROVE [LockoutHolds]_vars
  <2> DEFINE Goal ==
        /\ lockout' = "none" => \E w \in Workers : Stale(w) /\ work'[w].step # "password"
        /\ lockout' = "running" => \A w \in Workers : Stale(w)' => Stale(w)
  <2> SUFFICES ASSUME lockout = "running" PROVE Goal
    BY DEF LockoutHolds
  <2> USE DEF Stale
  <2>0. TypeOK
    BY <1>1 DEF IInv
  <2>1. ASSUME NEW w \in Workers, Login(w) PROVE Goal
    <3>1. work \in [Workers -> Work]
      BY <2>0 DEF TypeOK
    <3>2. CASE LoadAccount(w)
      BY <3>1, <3>2 DEF LoadAccount
    <3>3. CASE WrongPassword(w)
      BY <3>1, <3>3 DEF WrongPassword, Free
    <3>4. CASE SignInDirectly(w)
      BY <3>1, <3>4 DEF SignInDirectly, ResetAccount, Free, Work
    <3>5. ASSUME NEW c \in Challenges, StartMfaChallenge(w, c) PROVE Goal
      BY <3>1, <3>5 DEF StartMfaChallenge, ResetAccount, Free, Work
    <3>6. CASE Mail(w)
      BY <3>1, <3>6 DEF Mail, account, Free
    <3> QED
      BY <2>1, <3>2, <3>3, <3>4, <3>5, <3>6 DEF Login
  <2>2. ASSUME NEW w \in Workers, Verify(w) \/ Crash(w) PROVE Goal
    BY <2>0, <2>2, AccountUntouched
  <2>3. ASSUME NEW c \in Challenges, ChallengeExpires(c) PROVE Goal
    BY <2>3 DEF ChallengeExpires, account
  <2>4. CASE LockoutEnds
    BY <2>4 DEF LockoutEnds
  <2>5. CASE UNCHANGED vars
    BY <2>5 DEF vars, account
  <2> QED
    BY <1>1, <2>1, <2>2, <2>3, <2>4, <2>5 DEF Next
<1> QED
  BY <1>1, IInvAlways, PTL DEF Spec, LockoutStands

\* With one request at a time a sign-in counts on from the true counter, which
\* is at least the number of wrong passwords in a row.
CountInv ==
    /\ IInv
    /\ wrong < MaxAttempts
    /\ wrong <= attempts
    /\ \A w \in Workers : work[w].step = "password" => work[w].attempts = attempts

\* With requests one at a time MaxAttempts wrong passwords in a row lock the
\* account, through any number of lockouts (login).
THEOREM OneAtATimeLocksInTime == Serial /\ Spec => []LocksInTime
<1> SUFFICES ASSUME Serial PROVE Spec => []LocksInTime
  OBVIOUS
<1>1. Init => CountInv
  <2>1. ASSUME Init PROVE \A w \in Workers : work[w].step = "idle"
    <3>1. work = [w \in Workers |-> Free]
      BY <2>1 DEF Init
    <3> QED
      BY <3>1
  <2> QED
    BY <2>1, InitIInv, BoundsAssumption DEF CountInv, Init
<1>2. ASSUME CountInv, [Next]_vars PROVE CountInv'
  <2> DEFINE Goal == /\ wrong' < MaxAttempts
                     /\ wrong' <= attempts'
                     /\ \A w \in Workers : work'[w].step = "password" =>
                                            work'[w].attempts = attempts'
  <2>0. /\ wrong \in Nat /\ attempts \in Nat /\ work \in [Workers -> Work]
        /\ wrong < MaxAttempts /\ wrong <= attempts
        /\ \A w \in Workers : work[w].step = "password" => work[w].attempts = attempts
    BY <1>2 DEF CountInv, IInv, TypeOK
  <2> USE BoundsAssumption, <2>0 DEF Serial
  <2>1. ASSUME NEW w \in Workers, Login(w) PROVE Goal
    <3>1. \A v \in Workers : v = w
      OBVIOUS
    <3>2. CASE LoadAccount(w)
      BY <3>1, <3>2 DEF LoadAccount
    <3>3. CASE WrongPassword(w)
      BY <3>1, <3>3 DEF WrongPassword
    <3>4. CASE SignInDirectly(w)
      BY <3>1, <3>4 DEF SignInDirectly, ResetAccount
    <3>5. ASSUME NEW c \in Challenges, StartMfaChallenge(w, c) PROVE Goal
      BY <3>1, <3>5 DEF StartMfaChallenge, ResetAccount
    <3>6. CASE Mail(w)
      BY <3>1, <3>6 DEF Mail
    <3> QED
      BY <2>1, <3>2, <3>3, <3>4, <3>5, <3>6 DEF Login
  <2>2. ASSUME NEW w \in Workers, Verify(w) \/ Crash(w) PROVE Goal
    <3>1. TypeOK
      BY <1>2 DEF CountInv, IInv
    <3> QED
      BY <2>2, <3>1, AccountUntouched
  <2>3. ASSUME NEW c \in Challenges, ChallengeExpires(c) PROVE Goal
    BY <2>3 DEF ChallengeExpires
  <2>4. ASSUME LockoutEnds PROVE Goal
    BY <2>4 DEF LockoutEnds
  <2>5. ASSUME UNCHANGED vars PROVE Goal
    BY <2>5 DEF vars
  <2>6. Goal
    BY <1>2, <2>1, <2>2, <2>3, <2>4, <2>5 DEF Next
  <2> QED
    BY <1>2, <2>6, IInvStep DEF CountInv
<1>3. CountInv => LocksInTime
  BY DEF CountInv, LocksInTime
<1> QED
  BY <1>1, <1>2, <1>3, PTL DEF Spec

-----------------------------------------------------------------------------
(* Refresh tokens: the inductive invariant *)

\* Only rows are revoked, reported or worked on; the parent of a row and the
\* first row of its family exist.
RowsExist ==
    /\ \A t \in Issued : family[t] \in Issued
    /\ revoked \cup reported \subseteq Issued
    /\ \A t \in Tokens : parent[t] # NoToken => t \in Issued /\ parent[t] \in Issued
    /\ \A w \in Requests : refreshing[w].step # "idle" => refreshing[w].token \in Issued

RInv == TokensTypeOK /\ RowsExist /\ OnlyLeavesLive

USE DEF Issued, NotRefreshing

LEMMA InitRInv == TokensInit => RInv
  BY NoTokenAssumption DEF TokensInit, RInv, TokensTypeOK, RowsExist, OnlyLeavesLive

LEMMA RInvStep == RInv /\ [TokensNext]_tokenVars => RInv'
<1> SUFFICES ASSUME RInv, [TokensNext]_tokenVars PROVE RInv'
    OBVIOUS
<1> USE NoTokenAssumption DEF RInv, TokensTypeOK, RowsExist, OnlyLeavesLive
<1>1. ASSUME NEW t \in Tokens, StartFamily(t) PROVE RInv'
    BY <1>1 DEF StartFamily
<1>2. ASSUME NEW t \in Tokens, Logout(t) PROVE RInv'
    BY <1>2 DEF Logout
<1>3. ASSUME NEW t \in Tokens, Expire(t) PROVE RInv'
    BY <1>3 DEF Expire
<1>4. ASSUME NEW w \in Requests, NEW t \in Tokens, Present(w, t) PROVE RInv'
    BY <1>4 DEF Present
<1>5. ASSUME NEW w \in Requests, NEW n \in Tokens, Rotate(w, n) PROVE RInv'
  <2>1. refreshing[w].token \in Issued
    BY <1>5 DEF Rotate
  <2>2. TokensTypeOK'
    BY <1>5, <2>1 DEF Rotate
  <2>3. RowsExist'
    BY <1>5, <2>1 DEF Rotate
  <2>4. OnlyLeavesLive'
    BY <1>5, <2>1 DEF Rotate
  <2> QED
    BY <2>2, <2>3, <2>4
<1>6. ASSUME NEW w \in Requests, RevokeFamily(w) PROVE RInv'
  <2>1. refreshing[w].token \in Issued
    BY <1>6 DEF RevokeFamily
  <2>2. family[refreshing[w].token] \in Issued
    BY <2>1
  <2> QED
    BY <1>6, <2>1, <2>2 DEF RevokeFamily, Family
<1>7. ASSUME NEW w \in Requests, AbandonRefresh(w) PROVE RInv'
    BY <1>7 DEF AbandonRefresh
<1>8. CASE UNCHANGED tokenVars
    BY <1>8 DEF tokenVars
<1> QED
    BY <1>1, <1>2, <1>3, <1>4, <1>5, <1>6, <1>7, <1>8 DEF TokensNext

LEMMA RInvAlways == TokensSpec => []RInv
  BY InitRInv, RInvStep, PTL DEF TokensSpec

-----------------------------------------------------------------------------
(* Refresh tokens: theorems, for any number of concurrent refreshes *)

\* Rows, requests and reports have their types.
THEOREM TokensTyped == TokensSpec => []TokensTypeOK
<1>1. RInv => TokensTypeOK
  BY DEF RInv
<1> QED
  BY <1>1, RInvAlways, PTL

\* Every ancestor of a live token is revoked: an exchanged token is never live
\* again (refresh, one commit for the old row and the new one).
THEOREM ExchangedTokensAreRevoked == TokensSpec => []OnlyLeavesLive
<1>1. RInv => OnlyLeavesLive
  BY DEF RInv
<1> QED
  BY <1>1, RInvAlways, PTL

\* Once a family has no live token and no exchange of one in flight, nothing
\* brings it back (refresh and logout).
THEOREM DeadFamiliesNeverReturn == TokensSpec => DeadFamiliesStayDead
<1>1. RInv /\ [TokensNext]_tokenVars => [StaysDead]_tokenVars
  <2> SUFFICES ASSUME RInv, TokensNext, NEW f \in Issued, Live(f) = {}, ~Rotating(f)
               PROVE  Live(f)' = {} /\ ~Rotating(f)'
    BY DEF StaysDead
  <2> USE NoTokenAssumption DEF RInv, TokensTypeOK, RowsExist, Live, Family, Rotating
  <2>1. ASSUME NEW t \in Tokens, StartFamily(t) PROVE Live(f)' = {} /\ ~Rotating(f)'
    BY <2>1 DEF StartFamily
  <2>2. ASSUME NEW t \in Tokens, Logout(t) PROVE Live(f)' = {} /\ ~Rotating(f)'
    BY <2>2 DEF Logout
  <2>3. ASSUME NEW t \in Tokens, Expire(t) PROVE Live(f)' = {} /\ ~Rotating(f)'
    BY <2>3 DEF Expire
  <2>4. ASSUME NEW w \in Requests, NEW t \in Tokens, Present(w, t)
        PROVE  Live(f)' = {} /\ ~Rotating(f)'
    BY <2>4 DEF Present
  <2>5. ASSUME NEW w \in Requests, NEW n \in Tokens, Rotate(w, n)
        PROVE  Live(f)' = {} /\ ~Rotating(f)'
    <3>1. refreshing[w].token \in Issued /\ family[refreshing[w].token] # f
      BY <2>5 DEF Rotate
    <3>2. Live(f)' = {}
      BY <2>5, <3>1 DEF Rotate
    <3>3. ~Rotating(f)'
      BY <2>5, <3>1 DEF Rotate
    <3> QED
      BY <3>2, <3>3
  <2>6. ASSUME NEW w \in Requests, RevokeFamily(w) PROVE Live(f)' = {} /\ ~Rotating(f)'
    BY <2>6 DEF RevokeFamily
  <2>7. ASSUME NEW w \in Requests, AbandonRefresh(w) PROVE Live(f)' = {} /\ ~Rotating(f)'
    BY <2>7 DEF AbandonRefresh
  <2> QED
    BY <2>1, <2>2, <2>3, <2>4, <2>5, <2>6, <2>7 DEF TokensNext
<1> QED
  BY <1>1, RInvAlways, PTL DEF TokensSpec, DeadFamiliesStayDead

-----------------------------------------------------------------------------
(* Refresh tokens: theorems, for one refresh at a time *)

\* While a token is exchanged it is the only one of its family that may be live,
\* and its family was not reported.
Exclusive ==
    \A w \in Requests : refreshing[w].step = "rotate" =>
        /\ Live(family[refreshing[w].token]) \subseteq {refreshing[w].token}
        /\ family[refreshing[w].token] \notin reported

OneRInv == RInv /\ OneLiveToken /\ ReportedIsDead /\ Exclusive

LEMMA OneRInvStep == OneRefresh /\ OneRInv /\ [TokensNext]_tokenVars => OneRInv'
<1> SUFFICES ASSUME OneRefresh, OneRInv, [TokensNext]_tokenVars PROVE OneRInv'
    OBVIOUS
<1>0. RInv'
    BY RInvStep DEF OneRInv
<1> DEFINE Goal == OneLiveToken' /\ ReportedIsDead' /\ Exclusive'
<1> USE NoTokenAssumption DEF OneRInv, RInv, TokensTypeOK, RowsExist, OneLiveToken, ReportedIsDead,
                           Exclusive, Live, Family, OneRefresh
<1>1. ASSUME NEW t \in Tokens, StartFamily(t) PROVE Goal
    BY <1>1 DEF StartFamily
<1>2. ASSUME NEW t \in Tokens, Logout(t) PROVE Goal
    BY <1>2 DEF Logout
<1>3. ASSUME NEW t \in Tokens, Expire(t) PROVE Goal
    BY <1>3 DEF Expire
<1>4. ASSUME NEW w \in Requests, NEW t \in Tokens, Present(w, t) PROVE Goal
    BY <1>4 DEF Present
<1>5. ASSUME NEW w \in Requests, NEW n \in Tokens, Rotate(w, n) PROVE Goal
  <2>1. /\ refreshing[w].token \in Issued
        /\ family[refreshing[w].token] \in Issued
        /\ family[refreshing[w].token] \notin reported
        /\ Live(family[refreshing[w].token]) \subseteq {refreshing[w].token}
    BY <1>5 DEF Rotate
  <2>2. OneLiveToken'
    BY <1>5, <2>1 DEF Rotate
  <2>3. ReportedIsDead'
    BY <1>5, <2>1 DEF Rotate
  <2>4. Exclusive'
    BY <1>5, <2>1 DEF Rotate
  <2> QED
    BY <2>2, <2>3, <2>4
<1>6. ASSUME NEW w \in Requests, RevokeFamily(w) PROVE Goal
  <2>1. OneLiveToken' /\ ReportedIsDead'
    BY <1>6 DEF RevokeFamily
  <2>2. Exclusive'
    BY <1>6 DEF RevokeFamily
  <2> QED
    BY <2>1, <2>2
<1>7. ASSUME NEW w \in Requests, AbandonRefresh(w) PROVE Goal
    BY <1>7 DEF AbandonRefresh
<1>8. CASE UNCHANGED tokenVars
  <2>1. OneLiveToken' /\ ReportedIsDead'
    BY <1>8 DEF tokenVars
  <2>2. Exclusive'
    BY <1>8 DEF tokenVars
  <2> QED
    BY <1>0, <2>1, <2>2
<1> QED
    BY <1>0, <1>1, <1>2, <1>3, <1>4, <1>5, <1>6, <1>7, <1>8 DEF TokensNext

\* One refresh at a time, a family has one live token at most and a reported
\* family none (refresh, RefreshSession).
THEOREM OneRefreshAtATime == OneRefresh /\ TokensSpec => []OneLiveToken /\ []ReportedIsDead
<1> SUFFICES ASSUME OneRefresh PROVE TokensSpec => []OneLiveToken /\ []ReportedIsDead
  OBVIOUS
<1>1. TokensInit => OneRInv
  BY InitRInv, NoTokenAssumption
  DEF OneRInv, TokensInit, OneLiveToken, ReportedIsDead, Exclusive, Live, Family
<1>2. OneRInv /\ [TokensNext]_tokenVars => OneRInv'
  BY OneRInvStep
<1>3. OneRInv => OneLiveToken /\ ReportedIsDead
  BY DEF OneRInv
<1> QED
  BY <1>1, <1>2, <1>3, PTL DEF TokensSpec
=============================================================================
