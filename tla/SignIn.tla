------------------------------- MODULE SignIn -------------------------------
(***************************************************************************)
(* Signing in to one account: the password with its lockout, and the       *)
(* emailed code that admins need as well (services/identity/app/routers/   *)
(* auth.py, login, _start_mfa_challenge and verify_mfa).                   *)
(*                                                                         *)
(* login loads the account, checks the password and commits, without a row *)
(* lock; the ORM writes an attribute only if it differs from the value it  *)
(* loaded.  verify_mfa holds the row lock of the challenge from its SELECT *)
(* to its commit.  Time is what it does to a row: a lockout is running or  *)
(* over, a challenge has expired or not.                                   *)
(***************************************************************************)
EXTENDS Naturals

CONSTANTS Workers,       \* requests handled at the same time
          Challenges,    \* identifiers of mfa_challenges rows
          MaxAttempts,   \* settings.max_failed_login_attempts
          MfaAttempts,   \* settings.mfa_max_attempts
          MaxLockouts,   \* bound on lockouts that run out
          None

ASSUME NoneAssumption == None \notin Workers \cup Challenges
ASSUME BoundsAssumption ==
    /\ MaxAttempts \in Nat \ {0}
    /\ MfaAttempts \in Nat \ {0}
    /\ MaxLockouts \in Nat

VARIABLES
    attempts,    \* users.failed_login_attempts
    lockout,     \* users.locked_until: "none", "running" or "over"
    challenge,   \* mfa_challenges: "none", "open" or "consumed"
    tries,       \* mfa_challenges.attempts
    expired,     \* challenges whose expires_at has passed
    known,       \* challenges whose id went back to the client
    holder,      \* per challenge: the worker that holds its row lock
    work,        \* per worker: the request it serves and what it has loaded
    lockouts,    \* lockouts that have run out
    wrong,       \* history: wrong passwords since the last success or lockout
    guesses,     \* history: wrong codes answered, per challenge
    sessions     \* history: sessions opened with a challenge

account == <<attempts, lockout, lockouts, wrong>>
mfa == <<challenge, tries, expired, known, holder, guesses, sessions>>
vars == <<account, mfa, work>>

Steps == {"idle", "password", "mail", "code", "issue"}

Free == [step |-> "idle", attempts |-> 0, lockout |-> "none", challenge |-> None,
         tries |-> 0]

Work == [step : Steps, attempts : Nat, lockout : {"none", "over"},
         challenge : Challenges \cup {None}, tries : Nat]

TypeOK ==
    /\ attempts \in Nat
    /\ lockout \in {"none", "running", "over"}
    /\ challenge \in [Challenges -> {"none", "open", "consumed"}]
    /\ tries \in [Challenges -> Nat]
    /\ expired \subseteq Challenges
    /\ known \subseteq Challenges
    /\ holder \in [Challenges -> Workers \cup {None}]
    /\ work \in [Workers -> Work]
    /\ lockouts \in Nat
    /\ wrong \in Nat
    /\ guesses \in [Challenges -> Nat]
    /\ sessions \in [Challenges -> Nat]

Init ==
    /\ attempts = 0
    /\ lockout = "none"
    /\ challenge = [c \in Challenges |-> "none"]
    /\ tries = [c \in Challenges |-> 0]
    /\ expired = {}
    /\ known = {}
    /\ holder = [c \in Challenges |-> None]
    /\ work = [w \in Workers |-> Free]
    /\ lockouts = 0
    /\ wrong = 0
    /\ guesses = [c \in Challenges |-> 0]
    /\ sessions = [c \in Challenges |-> 0]

-----------------------------------------------------------------------------
(* POST /login *)

\* The account is loaded and not locked (a running lockout answers 401).
LoadAccount(w) ==
    /\ work[w] = Free
    /\ lockout # "running"
    /\ work' = [work EXCEPT ![w] = [Free EXCEPT !.step = "password",
                                      !.attempts = attempts, !.lockout = lockout]]
    /\ UNCHANGED <<account, mfa>>

\* The counter goes on from the loaded value, which is never reset when a
\* lockout runs out.
WrongPassword(w) ==
    /\ work[w].step = "password"
    /\ attempts' = work[w].attempts + 1
    /\ IF attempts' >= MaxAttempts
       THEN lockout' = "running" /\ wrong' = 0
       ELSE lockout' = lockout /\ wrong' = wrong + 1
    /\ work' = [work EXCEPT ![w] = Free]
    /\ UNCHANGED <<mfa, lockouts>>

\* Variant: the lockout is cleared whatever was loaded.
ResetAnyLockout(w) ==
    /\ work[w].step = "password"
    /\ attempts' = 0
    /\ lockout' = "none"
    /\ wrong' = 0

\* The counter and the lockout are reset where they were loaded as set.
ResetAccount(w) ==
    /\ work[w].step = "password"
    /\ attempts' = IF work[w].attempts = 0 THEN attempts ELSE 0
    /\ lockout' = IF work[w].lockout = "none" THEN lockout ELSE "none"
    /\ wrong' = 0

\* The right password and a role that needs no code: one commit for the reset and
\* the refresh session.  (An account's role may change from one sign-in to the
\* next, so both outcomes of the right password are possible.)
SignInDirectly(w) ==
    /\ ResetAccount(w)
    /\ work' = [work EXCEPT ![w] = Free]
    /\ UNCHANGED <<lockouts, mfa>>

\* The right password of an admin: one commit for the reset and the challenge.
StartMfaChallenge(w, c) ==
    /\ ResetAccount(w)
    /\ challenge[c] = "none"
    /\ challenge' = [challenge EXCEPT ![c] = "open"]
    /\ work' = [work EXCEPT ![w] = [Free EXCEPT !.step = "mail", !.challenge = c]]
    /\ UNCHANGED <<lockouts, tries, expired, known, holder, guesses, sessions>>

\* send_mfa_code: the challenge id goes back only if the mail was sent.
Mail(w) ==
    /\ work[w].step = "mail"
    /\ known' \in {known, known \cup {work[w].challenge}}
    /\ work' = [work EXCEPT ![w] = Free]
    /\ UNCHANGED <<account, challenge, tries, expired, holder, guesses, sessions>>

LockoutEnds ==
    /\ lockout = "running"
    /\ lockouts < MaxLockouts
    /\ lockout' = "over"
    /\ lockouts' = lockouts + 1
    /\ UNCHANGED <<attempts, wrong, mfa, work>>

-----------------------------------------------------------------------------
(* POST /mfa/verify *)

CanBeAnswered(c) ==
    /\ challenge[c] = "open"
    /\ c \notin expired
    /\ tries[c] < MfaAttempts

\* Variant: the challenge is loaded without FOR UPDATE.
LoadUnlocked(w, c) ==
    /\ work[w] = Free
    /\ c \in known
    /\ CanBeAnswered(c)
    /\ work' = [work EXCEPT ![w] = [Free EXCEPT !.step = "code", !.challenge = c,
                                                !.tries = tries[c]]]
    /\ UNCHANGED <<account, mfa>>

\* SELECT ... FOR UPDATE waits for the row; a challenge that can no longer be
\* answered is a 401 that changes nothing.
LoadChallenge(w, c) ==
    /\ work[w] = Free
    /\ c \in known
    /\ holder[c] = None
    /\ CanBeAnswered(c)
    /\ holder' = [holder EXCEPT ![c] = w]
    /\ work' = [work EXCEPT ![w] = [Free EXCEPT !.step = "code", !.challenge = c,
                                                !.tries = tries[c]]]
    /\ UNCHANGED <<account, challenge, tries, expired, known, guesses, sessions>>

\* Variant: a wrong code is not counted.
WrongCodeUncounted(w) ==
    LET c == work[w].challenge IN
    /\ work[w].step = "code"
    /\ guesses' = [guesses EXCEPT ![c] = @ + 1]
    /\ holder' = [holder EXCEPT ![c] = None]
    /\ work' = [work EXCEPT ![w] = Free]
    /\ UNCHANGED <<account, challenge, tries, expired, known, sessions>>

WrongCode(w) ==
    LET c == work[w].challenge IN
    /\ work[w].step = "code"
    /\ tries' = [tries EXCEPT ![c] = work[w].tries + 1]
    /\ guesses' = [guesses EXCEPT ![c] = @ + 1]
    /\ holder' = [holder EXCEPT ![c] = None]
    /\ work' = [work EXCEPT ![w] = Free]
    /\ UNCHANGED <<account, challenge, expired, known, sessions>>

\* The challenge is consumed in a commit of its own.
RightCode(w) ==
    LET c == work[w].challenge IN
    /\ work[w].step = "code"
    /\ challenge' = [challenge EXCEPT ![c] = "consumed"]
    /\ holder' = [holder EXCEPT ![c] = None]
    /\ work' = [work EXCEPT ![w] = [Free EXCEPT !.step = "issue", !.challenge = c]]
    /\ UNCHANGED <<account, tries, expired, known, guesses, sessions>>

\* _issue_tokens_for_user, in the second transaction.
IssueTokens(w) ==
    LET c == work[w].challenge IN
    /\ work[w].step = "issue"
    /\ sessions' = [sessions EXCEPT ![c] = @ + 1]
    /\ work' = [work EXCEPT ![w] = Free]
    /\ UNCHANGED <<account, challenge, tries, expired, known, holder, guesses>>

ChallengeExpires(c) ==
    /\ challenge[c] = "open"
    /\ c \notin expired
    /\ expired' = expired \cup {c}
    /\ UNCHANGED <<account, challenge, tries, known, holder, guesses, sessions, work>>

\* A process dies or a client disconnects: uncommitted writes and row locks go.
Crash(w) ==
    /\ work[w] # Free
    /\ holder' = [c \in Challenges |-> IF holder[c] = w THEN None ELSE holder[c]]
    /\ work' = [work EXCEPT ![w] = Free]
    /\ UNCHANGED <<account, challenge, tries, expired, known, guesses, sessions>>

-----------------------------------------------------------------------------
Login(w) ==
    \/ LoadAccount(w)
    \/ WrongPassword(w)
    \/ SignInDirectly(w)
    \/ \E c \in Challenges : StartMfaChallenge(w, c)
    \/ Mail(w)

Verify(w) ==
    \/ \E c \in Challenges : LoadChallenge(w, c)
    \/ WrongCode(w)
    \/ RightCode(w)
    \/ IssueTokens(w)

Next ==
    \/ \E w \in Workers : Login(w) \/ Verify(w) \/ Crash(w)
    \/ \E c \in Challenges : ChallengeExpires(c)
    \/ LockoutEnds

Spec == Init /\ [][Next]_vars

-----------------------------------------------------------------------------
(* Properties *)

\* A challenge opens at most one session, whoever answers it at the same time
\* (verify_mfa and its row lock; consumed_at).
CodeUsedOnce ==
    \A c \in Challenges :
        /\ sessions[c] <= 1
        /\ \A w \in Workers :
               (work[w].step = "issue" /\ work[w].challenge = c) => sessions[c] = 0

\* No challenge is guessed at more than mfa_max_attempts times, and one that was
\* guessed at that often opens no session with the right code either
\* (verify_mfa; the test that rejects after max attempts).
GuessesAreBounded ==
    \A c \in Challenges :
        /\ guesses[c] <= MfaAttempts
        /\ guesses[c] = MfaAttempts => sessions[c] = 0

\* Sign-in w loaded the account while a lockout was over: if its password is right, it
\* clears whatever lockout there is by then (login, which sets locked_until to None and
\* so writes it where it was loaded as set).
Stale(w) == work[w].step = "password" /\ work[w].lockout = "over"

\* What a step may not do to a running lockout.
LockoutHolds ==
    lockout = "running" =>
        /\ lockout' = "none" => \E w \in Workers : Stale(w) /\ work'[w].step # "password"
        /\ lockout' = "running" => \A w \in Workers : Stale(w)' => Stale(w)

\* A running lockout is cleared by time, or by a sign-in that loaded the account while
\* an earlier lockout was over; by no other sign-in, not even one that got past the
\* check before the account was locked.  While it runs, no sign-in begins that could
\* clear it (login).
LockoutStands == [][LockoutHolds]_vars

\* MaxAttempts wrong passwords in a row lock the account: there are never that
\* many since the last right one or the last lockout (login, the lockout; the
\* counter is not reset when a lockout runs out).  It holds when sign-ins are
\* handled one at a time, see the README.
LocksInTime == wrong < MaxAttempts

\* Requests are handled one at a time.
Serial == \A v, w \in Workers : v = w
=============================================================================
