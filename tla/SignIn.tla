------------------------------- MODULE SignIn -------------------------------
(***************************************************************************)
(* Signing in to one account (modules/identity): the failed-login lockout, *)
(* the sessions a login mints, the second factor with its per-session      *)
(* budget of codes, its enrolment, and everything that revokes a session.  *)
(*                                                                         *)
(* None of these routes holds a transaction across a request: the row of   *)
(* the account and the rows of its sessions change in single statements    *)
(* and short transactions, and every request acts on what it read before.  *)
(* A login opens at most one session, so a session is named by its login.  *)
(* Whether a password or a code is right is the caller's choice.           *)
(***************************************************************************)
EXTENDS Naturals, FiniteSets

CONSTANTS
    Logins,      \* requests to /auth/login, and the sessions they open
    Coders,      \* requests to /auth/mfa/*, and the secrets an enrolment draws
    NoSecret,    \* totp_secret_enc is NULL
    Factory,     \* the secret of an account that starts enrolled, confirmed or not
    Threshold,   \* maxFailedAttempts
    Lockout,     \* lockoutDuration
    MaxCodes,    \* maxMFAAttempts
    MaxLag,      \* bound: time between a login reading its clock and its charge
    MaxClock     \* bound of the clock

ASSUME SignInAssumption ==
    /\ Threshold \in Nat \ {0} /\ Lockout \in Nat \ {0} /\ MaxCodes \in Nat \ {0}
    /\ MaxLag \in Nat /\ MaxClock \in Nat
    /\ NoSecret \notin Coders /\ Factory \notin Coders /\ NoSecret # Factory

VARIABLES
    clock,       \* starts at 1; 0 stands for a NULL timestamp
    active,      \* users.status is active
    budget,      \* failed_login_attempts and locked_until
    totp,        \* totp_secret_enc and totp_enabled
    session,     \* the rows of sessions
    pending,     \* those with mfa_pending
    spent,       \* their mfa_attempts
    login,       \* the requests to /auth/login
    coder,       \* the requests to /auth/mfa/*
    \* history
    spentAt,     \* when a login verified the stored hash, 0 once a success wiped it
    guesses,     \* codes validated against a session by MfaVerify
    proven       \* secrets a right code was shown for

account == <<active, budget, totp>>
sessions == <<session, pending, spent>>
history == <<spentAt, guesses, proven>>
vars == <<clock, account, sessions, login, coder, history>>

Secrets == Coders \cup {NoSecret, Factory}

Budgets == [attempts : 0..Threshold, lockedUntil : Nat]
Totps == [secret : Secrets, enabled : BOOLEAN]
SessionStates == {"none", "live", "revoked"}

LoginSteps == [at : {"charge", "open"}, now : Nat, mfa : BOOLEAN]
CoderSteps ==
    [at : {"charge", "validate", "complete", "destroy", "charge enrolment", "enable", "discard"},
     on : Logins, spent : 0..MaxCodes, secret : Secrets]
Enrolling == [at |-> "enroll"]
Fresh == [at |-> "new"]
\* A request that has answered, or died.
Answered == [at |-> "done"]

TypeOK ==
    /\ clock \in Nat
    /\ active \in BOOLEAN /\ budget \in Budgets /\ totp \in Totps
    /\ session \in [Logins -> SessionStates] /\ pending \subseteq Logins
    /\ spent \in [Logins -> 0..MaxCodes]
    /\ login \in [Logins -> LoginSteps \cup {Fresh, Answered}]
    /\ coder \in [Coders -> CoderSteps \cup {Enrolling, Fresh, Answered}]
    /\ spentAt \in [Logins -> Nat]
    /\ guesses \in [Logins -> Nat]
    /\ proven \subseteq Secrets

Init ==
    /\ clock = 1
    /\ active = TRUE /\ budget = [attempts |-> 0, lockedUntil |-> 0]
    /\ totp \in {[secret |-> NoSecret, enabled |-> FALSE]} \cup [secret : {Factory}, enabled : BOOLEAN]
    /\ session = [s \in Logins |-> "none"] /\ pending = {} /\ spent = [s \in Logins |-> 0]
    /\ login = [l \in Logins |-> Fresh]
    /\ coder = [c \in Coders |-> Fresh]
    /\ spentAt = [l \in Logins |-> 0]
    /\ guesses = [s \in Logins |-> 0]
    /\ proven = IF totp.enabled THEN {Factory} ELSE {}

-----------------------------------------------------------------------------
(***************************************************************************)
(* Login: look up, charge, verify, open a session.                         *)
(***************************************************************************)
\* The request reads its clock and then the account; only an active human
\* with a password can go on, everybody else verifies the dummy and is refused.
LookUp(l) ==
    /\ login[l] = Fresh
    /\ login' = [login EXCEPT ![l] =
          IF active THEN [at |-> "charge", now |-> clock, mfa |-> totp.enabled] ELSE Answered]
    /\ UNCHANGED <<clock, account, sessions, coder, history>>

\* Seeded fault: the lock is written but not looked at.
NeverLive(now) == FALSE

Live(now) == budget.lockedUntil > now

\* The attempts the account owes once an elapsed lock is erased.
Debt(now) == IF budget.lockedUntil # 0 THEN 0 ELSE budget.attempts

LockedFrom(now) == [attempts |-> Threshold, lockedUntil |-> now + Lockout]
Counted(now) == [attempts |-> Debt(now) + 1, lockedUntil |-> 0]

\* ConsumeLoginAttempt: one statement, on the request's own clock.
Charged(now) ==
    CASE Live(now) -> budget
      [] ~Live(now) /\ Debt(now) + 1 >= Threshold -> LockedFrom(now)
      [] OTHER -> Counted(now)

\* Within the budget the stored hash is verified, otherwise the dummy is.
Charge(l) ==
    /\ login[l].at = "charge"
    /\ LET now == login[l].now IN
        /\ budget' = Charged(now)
        /\ spentAt' = [spentAt EXCEPT ![l] = IF Live(now) THEN 0 ELSE clock]
        /\ \/ login' = [login EXCEPT ![l] = Answered]
           \/ ~Live(now) /\ login' = [login EXCEPT ![l] = [at |-> "open", now |-> now, mfa |-> login[l].mfa]]
    /\ UNCHANGED <<clock, active, totp, sessions, coder, guesses, proven>>

\* One transaction: clear the budget and insert the session.
Open(l) ==
    /\ login[l].at = "open"
    /\ budget' = [attempts |-> 0, lockedUntil |-> 0]
    /\ session' = [session EXCEPT ![l] = "live"]
    /\ pending' = IF login[l].mfa THEN pending \cup {l} ELSE pending
    /\ login' = [login EXCEPT ![l] = Answered]
    /\ spentAt' = [k \in Logins |-> 0]
    /\ UNCHANGED <<clock, active, totp, spent, coder, guesses, proven>>

\* The process or its database connection dies, or the charge cannot be made
\* and the login is refused.
LoginDies(l) ==
    /\ login[l] \notin {Fresh, Answered}
    /\ login' = [login EXCEPT ![l] = Answered]
    /\ UNCHANGED <<clock, account, sessions, coder, history>>

-----------------------------------------------------------------------------
(***************************************************************************)
(* The budget of codes of a session.                                       *)
(***************************************************************************)
Usable(s) == session[s] = "live"

Step(c, at) == coder' = [coder EXCEPT ![c] =
    [at |-> at, on |-> coder[c].on, spent |-> coder[c].spent, secret |-> coder[c].secret]]
Done(c) == coder' = [coder EXCEPT ![c] = Answered]

WithinBudget(s) == spent[s] < MaxCodes

Spent(s) == IF spent[s] < MaxCodes THEN spent[s] + 1 ELSE MaxCodes

\* ConsumeMFAAttempt: one statement that counts and decides.
ChargeCode(s) == spent' = [spent EXCEPT ![s] = Spent(s)]

(***************************************************************************)
(* MfaVerify: charge, validate, then complete or destroy the session.      *)
(***************************************************************************)
\* Only a live session still waiting for its second factor is found.
Verify(c, s) ==
    /\ coder[c] = Fresh
    /\ Usable(s) /\ s \in pending
    /\ coder' = [coder EXCEPT ![c] = [at |-> "charge", on |-> s, spent |-> 0, secret |-> NoSecret]]
    /\ UNCHANGED <<clock, account, sessions, login, history>>

ChargeVerify(c) ==
    /\ coder[c].at = "charge"
    /\ LET s == coder[c].on IN
        /\ ChargeCode(s)
        /\ IF WithinBudget(s)
           THEN coder' = [coder EXCEPT ![c] =
                    [at |-> "validate", on |-> s, spent |-> Spent(s), secret |-> NoSecret]]
           ELSE Step(c, "destroy")
    /\ UNCHANGED <<clock, account, session, pending, login, history>>

\* The charge fails, and fails closed: the pending session is destroyed.
ChargeVerifyFails(c) ==
    /\ coder[c].at = "charge" /\ Step(c, "destroy")
    /\ UNCHANGED <<clock, account, sessions, login, history>>

\* The account is read only now, and the code is checked against its secret.
Validate(c) ==
    /\ coder[c].at = "validate"
    /\ totp.secret # NoSecret
    /\ \/ Step(c, "complete")
       \/ coder[c].spent >= MaxCodes /\ Step(c, "destroy")
       \/ coder[c].spent < MaxCodes /\ Done(c)
    /\ guesses' = [guesses EXCEPT ![coder[c].on] = @ + 1]
    /\ UNCHANGED <<clock, account, sessions, login, spentAt, proven>>

NotEnrolled(c) ==
    /\ coder[c].at = "validate" /\ totp.secret = NoSecret /\ Done(c)
    /\ UNCHANGED <<clock, account, sessions, login, history>>

KeptState(s) == UNCHANGED session

\* By the id of the session alone, whatever became of it meanwhile.
CompleteMFA(c) ==
    /\ coder[c].at = "complete"
    /\ KeptState(coder[c].on)
    /\ pending' = pending \ {coder[c].on}
    /\ spent' = [spent EXCEPT ![coder[c].on] = 0]
    /\ Done(c)
    /\ UNCHANGED <<clock, account, login, history>>

Revoked(s) == IF Usable(s) THEN "revoked" ELSE session[s]

DestroyPendingSession(c) ==
    /\ coder[c].at = "destroy"
    /\ session' = [session EXCEPT ![coder[c].on] = Revoked(coder[c].on)]
    /\ Done(c)
    /\ UNCHANGED <<clock, account, pending, spent, login, history>>

-----------------------------------------------------------------------------
(***************************************************************************)
(* MfaEnroll and MfaEnable: draw a secret, confirm it with a code.         *)
(***************************************************************************)
\* RequireAuth and fullSession: a live session past its second factor, of an active account.
SignedIn == active /\ \E s \in Logins : Usable(s) /\ s \notin pending

\* The account is read, and found without MFA.
Enroll(c) ==
    /\ coder[c] = Fresh /\ SignedIn /\ ~totp.enabled
    /\ coder' = [coder EXCEPT ![c] = Enrolling]
    /\ UNCHANGED <<clock, account, sessions, login, history>>

\* SetTOTP writes both columns whatever they hold by now.
WriteEnrolment(c) ==
    /\ coder[c] = Enrolling
    /\ totp' = [secret |-> c, enabled |-> FALSE]
    /\ Done(c)
    /\ UNCHANGED <<clock, active, budget, sessions, login, history>>

\* The pending enrolment is read along with the session, before the charge.
Enable(c, s) ==
    /\ coder[c] = Fresh /\ active
    /\ Usable(s) /\ s \notin pending
    /\ totp.secret # NoSecret /\ ~totp.enabled
    /\ coder' = [coder EXCEPT ![c] =
           [at |-> "charge enrolment", on |-> s, spent |-> 0, secret |-> totp.secret]]
    /\ UNCHANGED <<clock, account, sessions, login, history>>

\* Within the budget the code is checked against the secret that was read.
ChargeEnable(c) ==
    /\ coder[c].at = "charge enrolment"
    /\ LET s == coder[c].on IN
        /\ ChargeCode(s)
        /\ \/ /\ WithinBudget(s) /\ Step(c, "enable")
              /\ proven' = proven \cup {coder[c].secret}
           \/ ~WithinBudget(s) /\ Step(c, "discard") /\ UNCHANGED proven
           \/ WithinBudget(s) /\ Spent(s) >= MaxCodes /\ Step(c, "discard") /\ UNCHANGED proven
           \/ WithinBudget(s) /\ Spent(s) < MaxCodes /\ Done(c) /\ UNCHANGED proven
    /\ UNCHANGED <<clock, account, session, pending, login, spentAt, guesses>>

\* The charge fails, and fails closed: the enrolment is discarded.
ChargeEnableFails(c) ==
    /\ coder[c].at = "charge enrolment" /\ Step(c, "discard")
    /\ UNCHANGED <<clock, account, sessions, login, history>>

\* Seeded fault: the flag is set, the secret is left as it is found.
OnlyEnabled(secret) == [secret |-> totp.secret, enabled |-> TRUE]

Confirmed(secret) == [secret |-> secret, enabled |-> TRUE]

ClearMFAAttempts(s) == spent' = [spent EXCEPT ![s] = 0]

\* One transaction: SetTOTP with the secret read, and the budget given back.
ConfirmEnrolment(c) ==
    /\ coder[c].at = "enable"
    /\ totp' = Confirmed(coder[c].secret)
    /\ ClearMFAAttempts(coder[c].on)
    /\ Done(c)
    /\ UNCHANGED <<clock, active, budget, session, pending, login, history>>

\* One transaction: no secret, MFA off, and the budget given back.
DestroyEnrollment(c) ==
    /\ coder[c].at = "discard"
    /\ totp' = [secret |-> NoSecret, enabled |-> FALSE]
    /\ ClearMFAAttempts(coder[c].on)
    /\ Done(c)
    /\ UNCHANGED <<clock, active, budget, session, pending, login, history>>

CoderDies(c) ==
    /\ coder[c] \notin {Fresh, Answered} /\ Done(c)
    /\ UNCHANGED <<clock, account, sessions, login, history>>

-----------------------------------------------------------------------------
(***************************************************************************)
(* What ends sessions from outside.                                        *)
(***************************************************************************)
AllRevoked == [s \in Logins |-> Revoked(s)]

Logout(s) ==
    /\ Usable(s)
    /\ session' = [session EXCEPT ![s] = Revoked(s)]
    /\ UNCHANGED <<clock, account, pending, spent, login, coder, history>>

LogoutAll ==
    /\ SignedIn
    /\ session' = AllRevoked
    /\ UNCHANGED <<clock, account, pending, spent, login, coder, history>>

\* UpdateMember on this account: disabling revokes every session with it.
Disable ==
    /\ active
    /\ active' = FALSE
    /\ session' = AllRevoked
    /\ UNCHANGED <<clock, budget, totp, pending, spent, login, coder, history>>

Reenable ==
    /\ ~active
    /\ active' = TRUE
    /\ UNCHANGED <<clock, budget, totp, sessions, login, coder, history>>

\* No login is slower than MaxLag between its clock and its charge.
Tick ==
    /\ clock < MaxClock
    /\ \A l \in Logins : login[l].at = "charge" => clock - login[l].now < MaxLag
    /\ clock' = clock + 1
    /\ UNCHANGED <<account, sessions, login, coder, history>>

LoginNext(l) == LookUp(l) \/ Charge(l) \/ Open(l) \/ LoginDies(l)
VerifyNext(c) ==
    \/ \E s \in Logins : Verify(c, s)
    \/ ChargeVerify(c) \/ ChargeVerifyFails(c) \/ Validate(c) \/ NotEnrolled(c)
    \/ CompleteMFA(c) \/ DestroyPendingSession(c)
EnrolNext(c) ==
    \/ Enroll(c) \/ WriteEnrolment(c)
    \/ \E s \in Logins : Enable(c, s)
    \/ ChargeEnable(c) \/ ChargeEnableFails(c) \/ ConfirmEnrolment(c) \/ DestroyEnrollment(c)

Next ==
    \/ \E l \in Logins : LoginNext(l)
    \/ \E c \in Coders : VerifyNext(c) \/ EnrolNext(c) \/ CoderDies(c)
    \/ \E s \in Logins : Logout(s)
    \/ LogoutAll \/ Disable \/ Reenable \/ Tick

Spec == Init /\ [][Next]_vars

-----------------------------------------------------------------------------
(***************************************************************************)
(* Properties.                                                             *)
(***************************************************************************)
\* However many logins run at once, no more than Threshold of them verify the
\* stored hash between two successes in any Lockout (login.go:19, charged in one
\* statement), less the time a login may sit between its clock and its charge.
\* And a session waiting for its second factor has no more than MaxCodes looked at,
\* however many are sent at once (mfa.go:19).
GuessesBounded ==
    /\ Cardinality({l \in Logins : spentAt[l] # 0 /\ spentAt[l] + Lockout > clock + MaxLag}) <= Threshold
    /\ \A s \in pending : guesses[s] <= MaxCodes

\* The counter and the lock are written together by charges and successes in any
\* order: the account is under a lock exactly when its counter is full.
LockMatchesCount == budget.lockedUntil # 0 <=> budget.attempts = Threshold

\* A running lock is neither extended nor charged by the attempts it refuses;
\* only a success that was already past its charge lifts it (login.go:33).
LiveLockNeverMoves ==
    [][Live(clock) =>
        \/ budget'.lockedUntil = budget.lockedUntil /\ budget'.attempts = budget.attempts
        \/ budget'.lockedUntil = 0 /\ budget'.attempts = 0]_vars

\* An elapsed lock clears the debt: locking again costs Threshold attempts
\* verified after it, never fewer (login.go:36).
LockEarned ==
    budget'.lockedUntil \notin {0, budget.lockedUntil} =>
        Cardinality({l \in Logins : spentAt'[l] # 0 /\ spentAt'[l] >= budget.lockedUntil}) >= Threshold

\* The budget of guesses holds in both directions (login.go:19, login.go:36):
\* concurrency buys no more of them, and an account is not locked for fewer.
BudgetsHold == [][GuessesBounded' /\ LockEarned]_vars

\* A session that logout, a disable or a spent budget killed stays dead, under
\* verifications in flight, new logins and a re-enable (member.go:337).
KilledStaysKilled ==
    [][\A s \in Logins : session[s] = "revoked" => session'[s] = "revoked"]_vars

\* MFA is on only under a secret the owner has shown a code of, however
\* enrolments and confirmations interleave: nobody is locked out by a secret
\* that was drawn but never confirmed.
EnabledSecretProven == totp.enabled => totp.secret \in proven

\* Discarding an enrolment "can never become a way of turning a protected
\* account's MFA off" (mfa.go:388): the secret of an account whose MFA is on stays.
DiscardSparesProtected == [][totp.enabled => totp'.secret # NoSecret]_vars
=============================================================================
