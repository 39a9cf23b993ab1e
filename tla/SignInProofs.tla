---------------------------- MODULE SignInProofs ----------------------------
(* Theorems about SignIn, for any number of logins, codes and secrets. *)
EXTENDS SignIn, FiniteSetTheorems, TLAPS

(***************************************************************************)
(* The invariant.  A confirmation about to be written holds a secret whose *)
(* code was shown, and a login that has not opened its session has none.   *)
(***************************************************************************)
AccountOK == active \in BOOLEAN /\ budget \in Budgets /\ totp \in Totps
SessionsOK ==
    /\ session \in [Logins -> SessionStates] /\ pending \subseteq Logins
    /\ spent \in [Logins -> 0..MaxCodes]
LoginsOK == login \in [Logins -> LoginSteps \cup {Fresh, Answered}]
CodersOK == coder \in [Coders -> CoderSteps \cup {Enrolling, Fresh, Answered}]
HistoryOK ==
    /\ clock \in Nat /\ spentAt \in [Logins -> Nat] /\ guesses \in [Logins -> Nat]
    /\ proven \subseteq Secrets

Shown == \A c \in Coders : coder[c].at = "enable" => coder[c].secret \in proven
NotOpened == \A l \in Logins : login[l] # Answered => session[l] = "none"

IInv == /\ AccountOK /\ SessionsOK /\ LoginsOK /\ CodersOK /\ HistoryOK
        /\ LockMatchesCount /\ EnabledSecretProven /\ Shown /\ NotOpened

\* The parts are the type invariant.
LEMMA Parts == TypeOK <=> AccountOK /\ SessionsOK /\ LoginsOK /\ CodersOK /\ HistoryOK
  BY DEF TypeOK, AccountOK, SessionsOK, LoginsOK, CodersOK, HistoryOK

\* The charge of an attempt leaves the counter and the lock in step.
LEMMA ChargeInStep ==
    ASSUME NEW now \in Nat, budget \in Budgets, LockMatchesCount
    PROVE  /\ Charged(now) \in Budgets
           /\ Charged(now).lockedUntil # 0 <=> Charged(now).attempts = Threshold
<1> USE SignInAssumption DEF Budgets
<1>1. CASE Live(now)
  BY <1>1 DEF Charged, LockMatchesCount
<1>2. CASE ~Live(now) /\ Debt(now) + 1 >= Threshold
  <2>1. Charged(now) = LockedFrom(now)
    BY <1>2 DEF Charged
  <2>2. QED
    BY <2>1 DEF LockedFrom
<1>3. CASE ~Live(now) /\ ~(Debt(now) + 1 >= Threshold)
  <2>1. Debt(now) \in 0..Threshold
    BY DEF Debt
  <2>2. Charged(now) = Counted(now)
    BY <1>3 DEF Charged
  <2>3. QED
    BY <1>3, <2>1, <2>2 DEF Counted
<1>4. QED
  BY <1>1, <1>2, <1>3

LEMMA InitIInv == Init => IInv
<1> SUFFICES ASSUME Init PROVE IInv
  OBVIOUS
<1> USE SignInAssumption DEF Init
<1>1. AccountOK /\ LockMatchesCount
  <2>1. active \in BOOLEAN
    OBVIOUS
  <2>2. budget \in Budgets /\ LockMatchesCount
    BY DEF Budgets, LockMatchesCount
  <2>3. totp \in Totps
    <3>1. CASE totp = [secret |-> NoSecret, enabled |-> FALSE]
      BY <3>1 DEF Totps, Secrets
    <3>2. CASE totp \in [secret : {Factory}, enabled : BOOLEAN]
      BY <3>2 DEF Totps, Secrets
    <3>3. QED
      BY <3>1, <3>2
  <2>4. QED
    BY <2>1, <2>2, <2>3 DEF AccountOK
<1>2. SessionsOK /\ LoginsOK /\ CodersOK /\ NotOpened
  BY DEF SessionsOK, LoginsOK, CodersOK, SessionStates, NotOpened
<1>3. HistoryOK
  BY DEF HistoryOK, Secrets
<1>4. EnabledSecretProven
  BY DEF EnabledSecretProven
<1>5. Shown
  BY DEF Shown, Fresh
<1>6. QED
  BY <1>1, <1>2, <1>3, <1>4, <1>5 DEF IInv

(***************************************************************************)
(* The steps of logins.                                                    *)
(***************************************************************************)
\* What a login may be, told from where it stands.
LEMMA LoginForms ==
    ASSUME LoginsOK, NEW l \in Logins, login[l].at \in {"charge", "open"}
    PROVE  login[l] \in LoginSteps
  BY DEF LoginsOK, Fresh, Answered

LEMMA LoginStep == ASSUME IInv, NEW l \in Logins, LoginNext(l) PROVE IInv'
<1> USE DEF IInv
<1>1. CASE LookUp(l)
  <2>1. login'[l] \in LoginSteps \cup {Answered}
    BY <1>1 DEF LookUp, LoginsOK, LoginSteps, HistoryOK, AccountOK, Totps
  <2>2. /\ LoginsOK'
        /\ \A k \in Logins : login'[k] # Answered => login[k] # Answered
    BY <1>1, <2>1 DEF LookUp, LoginsOK, Fresh, Answered
  <2>3. UNCHANGED <<clock, active, budget, totp, session, pending, spent, coder, spentAt, guesses, proven>>
    BY <1>1 DEF LookUp, account, sessions, history
  <2>4. QED
    BY <2>2, <2>3 DEF AccountOK, SessionsOK, CodersOK, HistoryOK, LockMatchesCount, EnabledSecretProven, Shown, NotOpened
<1>2. CASE Charge(l)
  <2>1. login[l] \in LoginSteps
    BY <1>2, LoginForms DEF Charge
  <2>2. budget' = Charged(login[l].now)
        /\ UNCHANGED <<clock, active, totp, session, pending, spent, coder, guesses, proven>>
    BY <1>2 DEF Charge, sessions
  <2>3. AccountOK' /\ LockMatchesCount'
    BY <2>1, <2>2, ChargeInStep DEF LoginSteps, AccountOK, LockMatchesCount
  <2>4. \E new \in LoginSteps \cup {Answered} : login' = [login EXCEPT ![l] = new]
    <3>1. [at |-> "open", now |-> login[l].now, mfa |-> login[l].mfa] \in LoginSteps
      BY <2>1 DEF LoginSteps
    <3>2. QED
      BY <1>2, <3>1 DEF Charge
  <2>5. LoginsOK' /\ \A k \in Logins : login'[k] # Answered => login[k] # Answered
    BY <1>2, <2>4 DEF LoginsOK, Charge, Answered
  <2>6. HistoryOK'
    BY <1>2, <2>2 DEF Charge, HistoryOK
  <2>7. QED
    BY <2>2, <2>3, <2>5, <2>6 DEF SessionsOK, CodersOK, EnabledSecretProven, Shown, NotOpened
<1>3. CASE Open(l)
  <2>1. login' = [login EXCEPT ![l] = Answered] /\ session' = [session EXCEPT ![l] = "live"]
        /\ UNCHANGED <<clock, active, totp, spent, coder, guesses, proven>>
    BY <1>3 DEF Open
  <2>2. AccountOK' /\ LockMatchesCount'
    BY <1>3, <2>1, SignInAssumption DEF Open, AccountOK, LockMatchesCount, Budgets
  <2>3. SessionsOK'
    BY <1>3, <2>1 DEF Open, SessionsOK, SessionStates
  <2>4. LoginsOK' /\ NotOpened'
    BY <2>1 DEF LoginsOK, NotOpened, SessionsOK
  <2>5. HistoryOK'
    BY <1>3, <2>1 DEF Open, HistoryOK
  <2>6. QED
    BY <2>1, <2>2, <2>3, <2>4, <2>5 DEF CodersOK, EnabledSecretProven, Shown
<1>4. CASE LoginDies(l)
  <2>1. UNCHANGED <<clock, active, budget, totp, session, pending, spent, coder, spentAt, guesses, proven>>
    BY <1>4 DEF LoginDies, account, sessions, history
  <2>2. LoginsOK' /\ NotOpened'
    BY <1>4, <2>1 DEF LoginDies, LoginsOK, NotOpened
  <2>3. QED
    BY <2>1, <2>2 DEF AccountOK, SessionsOK, CodersOK, HistoryOK, LockMatchesCount, EnabledSecretProven, Shown
<1>5. QED
  BY <1>1, <1>2, <1>3, <1>4 DEF LoginNext

(***************************************************************************)
(* The steps of second-factor requests.                                    *)
(***************************************************************************)
\* What a request may be, told from where it stands.
LEMMA CoderForms ==
    ASSUME CodersOK, NEW c \in Coders,
           coder[c].at \in {"charge", "validate", "complete", "destroy", "charge enrolment", "enable", "discard"}
    PROVE  /\ coder[c] \in CoderSteps
           /\ coder[c].on \in Logins /\ coder[c].spent \in 0..MaxCodes /\ coder[c].secret \in Secrets
<1>1. coder[c].at \notin {"enroll", "new", "done"}
  OBVIOUS
<1>2. Enrolling.at = "enroll" /\ Fresh.at = "new" /\ Answered.at = "done"
  BY DEF Enrolling, Fresh, Answered
<1>3. coder[c] \notin {Enrolling, Fresh, Answered}
  BY <1>1, <1>2
<1>4. coder[c] \in CoderSteps
  BY <1>3 DEF CodersOK
<1>5. QED
  BY <1>4 DEF CoderSteps

\* Moving one request on keeps the types, and what the others hold.
LEMMA CoderMoves ==
    ASSUME CodersOK, Shown, NEW c \in Coders,
           NEW new \in CoderSteps \cup {Enrolling, Fresh, Answered},
           coder' = [coder EXCEPT ![c] = new], proven \subseteq proven',
           new.at = "enable" => new.secret \in proven'
    PROVE  CodersOK' /\ Shown'
  BY DEF CodersOK, Shown

\* A step to another place of the same request.
LEMMA StepMoves ==
    ASSUME CodersOK, NEW c \in Coders, coder[c] \in CoderSteps,
           NEW at \in {"complete", "destroy", "enable", "discard"}, Step(c, at)
    PROVE  \E new \in CoderSteps :
              /\ coder' = [coder EXCEPT ![c] = new]
              /\ new.at = at /\ new.secret = coder[c].secret
<1> DEFINE new == [at |-> at, on |-> coder[c].on, spent |-> coder[c].spent, secret |-> coder[c].secret]
<1>1. new \in CoderSteps /\ new.at = at /\ new.secret = coder[c].secret
  BY DEF CoderSteps
<1>2. coder' = [coder EXCEPT ![c] = new]
  BY DEF Step
<1>3. QED
  BY <1>1, <1>2

\* What a step of a request leaves to show when it does not touch the account.
LEMMA CoderOnly ==
    ASSUME IInv, UNCHANGED <<clock, active, budget, totp, login, spentAt>>, SessionsOK', CodersOK', Shown',
           \A s \in Logins : session[s] = "none" => session'[s] = "none",
           guesses' \in [Logins -> Nat], proven' \subseteq Secrets, proven \subseteq proven'
    PROVE  IInv'
<1> USE DEF IInv
<1>1. AccountOK' /\ LoginsOK' /\ HistoryOK'
  BY DEF AccountOK, LoginsOK, HistoryOK
<1>2. LockMatchesCount' /\ EnabledSecretProven'
  BY DEF LockMatchesCount, EnabledSecretProven
<1>3. NotOpened'
  BY DEF NotOpened
<1>4. QED
  BY <1>1, <1>2, <1>3

\* Revoking keeps a session's state a state, none none, and dead dead.
LEMMA RevokedStates ==
    ASSUME SessionsOK, NEW s \in Logins
    PROVE  /\ Revoked(s) \in SessionStates
           /\ session[s] = "none" => Revoked(s) = "none"
           /\ session[s] = "revoked" => Revoked(s) = "revoked"
  BY DEF Revoked, Usable, SessionsOK, SessionStates

\* The counter of codes stays within its bound.
LEMMA SpentBound == ASSUME SessionsOK, NEW s \in Logins PROVE Spent(s) \in 0..MaxCodes
  BY SignInAssumption DEF SessionsOK, Spent

\* The steps of MfaVerify.
LEMMA VerifyStep == ASSUME IInv, NEW c \in Coders, VerifyNext(c) PROVE IInv'
<1> USE DEF IInv
<1>1. ASSUME NEW s \in Logins, Verify(c, s) PROVE IInv'
  <2> DEFINE new == [at |-> "charge", on |-> s, spent |-> 0, secret |-> NoSecret]
  <2>1. new \in CoderSteps
    BY SignInAssumption DEF CoderSteps, Secrets
  <2>2. UNCHANGED <<clock, active, budget, totp, session, pending, spent, login, spentAt, guesses, proven>>
    BY <1>1 DEF Verify, account, sessions, history
  <2>3. coder' = [coder EXCEPT ![c] = new] /\ new.at # "enable"
    BY <1>1 DEF Verify
  <2>4. CodersOK' /\ Shown'
    BY <2>1, <2>2, <2>3, CoderMoves
  <2>5. QED
    BY <2>2, <2>4, CoderOnly DEF SessionsOK, HistoryOK
<1>2. CASE ChargeVerify(c)
  <2>1. coder[c] \in CoderSteps /\ coder[c].on \in Logins
    BY <1>2, CoderForms DEF ChargeVerify
  <2>2. Spent(coder[c].on) \in 0..MaxCodes
    BY <2>1, SpentBound
  <2>3. /\ spent' = [spent EXCEPT ![coder[c].on] = Spent(coder[c].on)]
        /\ UNCHANGED <<clock, active, budget, totp, session, pending, login, spentAt, guesses, proven>>
    BY <1>2 DEF ChargeVerify, ChargeCode, account, history
  <2>4. SessionsOK'
    BY <2>1, <2>2, <2>3 DEF SessionsOK
  <2>5. \E new \in CoderSteps : coder' = [coder EXCEPT ![c] = new] /\ new.at # "enable"
    <3> DEFINE new == [at |-> "validate", on |-> coder[c].on, spent |-> Spent(coder[c].on), secret |-> NoSecret]
    <3>1. new \in CoderSteps /\ new.at # "enable"
      BY <2>1, <2>2 DEF CoderSteps, Secrets
    <3>2. coder' = [coder EXCEPT ![c] = new] \/ Step(c, "destroy")
      BY <1>2 DEF ChargeVerify
    <3>3. QED
      BY <2>1, <3>1, <3>2, StepMoves
  <2>6. CodersOK' /\ Shown'
    BY <2>3, <2>5, CoderMoves
  <2>7. QED
    BY <2>3, <2>4, <2>6, CoderOnly DEF HistoryOK
<1>3. CASE ChargeVerifyFails(c)
  <2>1. coder[c] \in CoderSteps
    BY <1>3, CoderForms DEF ChargeVerifyFails
  <2>2. UNCHANGED <<clock, active, budget, totp, session, pending, spent, login, spentAt, guesses, proven>>
    BY <1>3 DEF ChargeVerifyFails, account, sessions, history
  <2>3. \E new \in CoderSteps : coder' = [coder EXCEPT ![c] = new] /\ new.at # "enable"
    BY <1>3, <2>1, StepMoves DEF ChargeVerifyFails
  <2>4. CodersOK' /\ Shown'
    BY <2>2, <2>3, CoderMoves
  <2>5. QED
    BY <2>2, <2>4, CoderOnly DEF SessionsOK, HistoryOK
<1>4. CASE Validate(c)
  <2>1. coder[c] \in CoderSteps /\ coder[c].on \in Logins
    BY <1>4, CoderForms DEF Validate
  <2>2. UNCHANGED <<clock, active, budget, totp, session, pending, spent, login, spentAt, proven>>
    BY <1>4 DEF Validate, account, sessions
  <2>3. guesses' \in [Logins -> Nat]
    BY <1>4, <2>1 DEF Validate, HistoryOK
  <2>4. Step(c, "complete") \/ Step(c, "destroy") \/ coder' = [coder EXCEPT ![c] = Answered]
    BY <1>4 DEF Validate, Done
  <2>5. \E new \in CoderSteps \cup {Answered} : coder' = [coder EXCEPT ![c] = new] /\ new.at # "enable"
    <3>1. CASE Step(c, "complete")
      BY <2>1, <3>1, StepMoves
    <3>2. CASE Step(c, "destroy")
      BY <2>1, <3>2, StepMoves
    <3>3. CASE coder' = [coder EXCEPT ![c] = Answered]
      <4>1. Answered.at # "enable"
        BY DEF Answered
      <4>2. QED
        BY <3>3, <4>1
    <3>4. QED
      BY <2>4, <3>1, <3>2, <3>3
  <2>6. CodersOK' /\ Shown'
    BY <2>2, <2>5, CoderMoves
  <2>7. QED
    BY <2>2, <2>3, <2>6, CoderOnly DEF SessionsOK, HistoryOK
<1>5. CASE NotEnrolled(c)
  <2>1. UNCHANGED <<clock, active, budget, totp, session, pending, spent, login, spentAt, guesses, proven>>
    BY <1>5 DEF NotEnrolled, account, sessions, history
  <2>2. coder' = [coder EXCEPT ![c] = Answered] /\ Answered.at # "enable"
    BY <1>5 DEF NotEnrolled, Done, Answered
  <2>3. CodersOK' /\ Shown'
    BY <2>1, <2>2, CoderMoves
  <2>4. QED
    BY <2>1, <2>3, CoderOnly DEF SessionsOK, HistoryOK
<1>6. CASE CompleteMFA(c) \/ DestroyPendingSession(c)
  <2>1. coder[c].on \in Logins
    BY <1>6, CoderForms DEF CompleteMFA, DestroyPendingSession
  <2>2. UNCHANGED <<clock, active, budget, totp, login, spentAt, guesses, proven>>
    BY <1>6 DEF CompleteMFA, DestroyPendingSession, account, history
  <2>3. SessionsOK' /\ \A s \in Logins : session[s] = "none" => session'[s] = "none"
    <3>1. CASE CompleteMFA(c)
      BY <3>1, <2>1, SignInAssumption DEF CompleteMFA, KeptState, SessionsOK
    <3>2. CASE DestroyPendingSession(c)
      BY <3>2, <2>1, RevokedStates DEF DestroyPendingSession, SessionsOK
    <3>3. QED
      BY <1>6, <3>1, <3>2
  <2>4. coder' = [coder EXCEPT ![c] = Answered] /\ Answered.at # "enable"
    BY <1>6 DEF CompleteMFA, DestroyPendingSession, Done, Answered
  <2>5. CodersOK' /\ Shown'
    BY <2>2, <2>4, CoderMoves
  <2>6. QED
    BY <2>2, <2>3, <2>5, CoderOnly DEF HistoryOK
<1>7. QED
  BY <1>1, <1>2, <1>3, <1>4, <1>5, <1>6 DEF VerifyNext

\* The steps of MfaEnroll and MfaEnable, and a request that dies.
LEMMA EnrolStep == ASSUME IInv, NEW c \in Coders, EnrolNext(c) \/ CoderDies(c) PROVE IInv'
<1> USE DEF IInv
<1>1. CASE Enroll(c) \/ CoderDies(c)
  <2>1. UNCHANGED <<clock, active, budget, totp, session, pending, spent, login, spentAt, guesses, proven>>
    BY <1>1 DEF Enroll, CoderDies, account, sessions, history
  <2>2. \E new \in {Enrolling, Answered} : coder' = [coder EXCEPT ![c] = new] /\ new.at # "enable"
    BY <1>1 DEF Enroll, CoderDies, Done, Enrolling, Answered
  <2>3. CodersOK' /\ Shown'
    BY <2>1, <2>2, CoderMoves
  <2>4. QED
    BY <2>1, <2>3, CoderOnly DEF SessionsOK, HistoryOK
<1>2. CASE WriteEnrolment(c)
  <2>1. totp' = [secret |-> c, enabled |-> FALSE]
        /\ UNCHANGED <<clock, active, budget, session, pending, spent, login, spentAt, guesses, proven>>
    BY <1>2 DEF WriteEnrolment, sessions, history
  <2>2. coder' = [coder EXCEPT ![c] = Answered] /\ Answered.at # "enable"
    BY <1>2 DEF WriteEnrolment, Done, Answered
  <2>3. CodersOK' /\ Shown'
    BY <2>1, <2>2, CoderMoves
  <2>4. AccountOK'
    BY <2>1 DEF AccountOK, Totps, Secrets
  <2>5. EnabledSecretProven'
    BY <2>1 DEF EnabledSecretProven
  <2>6. QED
    BY <2>1, <2>3, <2>4, <2>5 DEF SessionsOK, LoginsOK, HistoryOK, LockMatchesCount, NotOpened
<1>3. ASSUME NEW s \in Logins, Enable(c, s) PROVE IInv'
  <2> DEFINE new == [at |-> "charge enrolment", on |-> s, spent |-> 0, secret |-> totp.secret]
  <2>1. totp.secret \in Secrets
    BY DEF AccountOK, Totps
  <2>2. new \in CoderSteps /\ new.at # "enable"
    BY <2>1, SignInAssumption DEF CoderSteps
  <2>3. coder' = [coder EXCEPT ![c] = new]
    BY <1>3 DEF Enable
  <2>4. UNCHANGED <<clock, active, budget, totp, session, pending, spent, login, spentAt, guesses, proven>>
    BY <1>3 DEF Enable, account, sessions, history
  <2> HIDE DEF new
  <2>5. CodersOK' /\ Shown'
    BY <2>2, <2>3, <2>4, CoderMoves
  <2>6. QED
    BY <2>4, <2>5, CoderOnly DEF SessionsOK, HistoryOK
<1>4. CASE ChargeEnable(c)
  <2>1. coder[c] \in CoderSteps /\ coder[c].on \in Logins /\ coder[c].secret \in Secrets
    BY <1>4, CoderForms DEF ChargeEnable
  <2>2. Spent(coder[c].on) \in 0..MaxCodes
    BY <2>1, SpentBound
  <2>3. /\ spent' = [spent EXCEPT ![coder[c].on] = Spent(coder[c].on)]
        /\ UNCHANGED <<clock, active, budget, totp, session, pending, login, spentAt, guesses>>
    BY <1>4 DEF ChargeEnable, ChargeCode, account
  <2>4. SessionsOK'
    BY <2>1, <2>2, <2>3 DEF SessionsOK
  <2>5. \/ Step(c, "enable") /\ proven' = proven \cup {coder[c].secret}
        \/ Step(c, "discard") /\ proven' = proven
        \/ coder' = [coder EXCEPT ![c] = Answered] /\ proven' = proven
    BY <1>4 DEF ChargeEnable, Done
  <2>6. proven' \subseteq Secrets /\ proven \subseteq proven'
    BY <2>1, <2>5 DEF HistoryOK
  <2>7. \E new \in CoderSteps \cup {Answered} :
            coder' = [coder EXCEPT ![c] = new] /\ (new.at = "enable" => new.secret \in proven')
    <3>1. CASE Step(c, "enable") /\ proven' = proven \cup {coder[c].secret}
      BY <2>1, <3>1, StepMoves
    <3>2. CASE Step(c, "discard")
      BY <2>1, <3>2, StepMoves
    <3>3. CASE coder' = [coder EXCEPT ![c] = Answered]
      <4>1. Answered.at # "enable"
        BY DEF Answered
      <4>2. QED
        BY <3>3, <4>1
    <3>4. QED
      BY <2>5, <3>1, <3>2, <3>3
  <2>8. CodersOK' /\ Shown'
    BY <2>6, <2>7, CoderMoves
  <2>9. QED
    BY <2>3, <2>4, <2>6, <2>8, CoderOnly DEF HistoryOK
<1>5. CASE ChargeEnableFails(c)
  <2>1. coder[c] \in CoderSteps
    BY <1>5, CoderForms DEF ChargeEnableFails
  <2>2. UNCHANGED <<clock, active, budget, totp, session, pending, spent, login, spentAt, guesses, proven>>
    BY <1>5 DEF ChargeEnableFails, account, sessions, history
  <2>3. \E new \in CoderSteps : coder' = [coder EXCEPT ![c] = new] /\ new.at # "enable"
    BY <1>5, <2>1, StepMoves DEF ChargeEnableFails
  <2>4. CodersOK' /\ Shown'
    BY <2>2, <2>3, CoderMoves
  <2>5. QED
    BY <2>2, <2>4, CoderOnly DEF SessionsOK, HistoryOK
<1>6. CASE ConfirmEnrolment(c) \/ DestroyEnrollment(c)
  <2>1. coder[c].on \in Logins /\ coder[c].secret \in Secrets
    BY <1>6, CoderForms DEF ConfirmEnrolment, DestroyEnrollment
  <2>2. spent' = [spent EXCEPT ![coder[c].on] = 0]
        /\ UNCHANGED <<clock, active, budget, session, pending, login, spentAt, guesses, proven>>
    BY <1>6 DEF ConfirmEnrolment, DestroyEnrollment, ClearMFAAttempts, history
  <2>3. SessionsOK'
    BY <2>1, <2>2, SignInAssumption DEF SessionsOK
  <2>4. AccountOK' /\ EnabledSecretProven'
    <3>1. CASE ConfirmEnrolment(c)
      <4>1. totp' = [secret |-> coder[c].secret, enabled |-> TRUE] /\ coder[c].secret \in proven
        BY <3>1 DEF ConfirmEnrolment, Confirmed, Shown
      <4>2. QED
        BY <2>1, <2>2, <4>1 DEF AccountOK, Totps, EnabledSecretProven
    <3>2. CASE DestroyEnrollment(c)
      <4>1. totp' = [secret |-> NoSecret, enabled |-> FALSE]
        BY <3>2 DEF DestroyEnrollment
      <4>2. QED
        BY <2>2, <4>1 DEF AccountOK, Totps, Secrets, EnabledSecretProven
    <3>3. QED
      BY <1>6, <3>1, <3>2
  <2>5. coder' = [coder EXCEPT ![c] = Answered] /\ Answered.at # "enable"
    BY <1>6 DEF ConfirmEnrolment, DestroyEnrollment, Done, Answered
  <2>6. CodersOK' /\ Shown'
    BY <2>2, <2>5, CoderMoves
  <2>7. QED
    BY <2>2, <2>3, <2>4, <2>6 DEF LoginsOK, HistoryOK, LockMatchesCount, NotOpened
<1>7. QED
  BY <1>1, <1>2, <1>3, <1>4, <1>5, <1>6 DEF EnrolNext

(***************************************************************************)
(* The whole system.                                                       *)
(***************************************************************************)
\* Every step keeps the invariant.
LEMMA NextIInv == IInv /\ [Next]_vars => IInv'
<1> SUFFICES ASSUME IInv, [Next]_vars PROVE IInv'
  OBVIOUS
<1> USE DEF IInv
<1>1. ASSUME NEW l \in Logins, LoginNext(l) PROVE IInv'
  BY <1>1, LoginStep
<1>2. ASSUME NEW c \in Coders, VerifyNext(c) \/ EnrolNext(c) \/ CoderDies(c) PROVE IInv'
  BY <1>2, VerifyStep, EnrolStep
<1>3. ASSUME NEW s \in Logins, Logout(s) PROVE IInv'
  <2>1. UNCHANGED <<clock, active, budget, totp, pending, spent, login, coder, spentAt, guesses, proven>>
    BY <1>3 DEF Logout, account, history
  <2>2. SessionsOK' /\ \A k \in Logins : session[k] = "none" => session'[k] = "none"
    BY <1>3, <2>1, RevokedStates DEF Logout, SessionsOK
  <2>3. QED
    BY <2>1, <2>2, CoderOnly DEF CodersOK, Shown, HistoryOK
<1>4. CASE LogoutAll \/ Disable
  <2>1. UNCHANGED <<clock, budget, totp, pending, spent, login, coder, spentAt, guesses, proven>>
        /\ active' \in BOOLEAN
    BY <1>4 DEF LogoutAll, Disable, account, history, AccountOK
  <2>2. SessionsOK' /\ \A k \in Logins : session[k] = "none" => session'[k] = "none"
    BY <1>4, <2>1, RevokedStates DEF LogoutAll, Disable, AllRevoked, SessionsOK
  <2>3. AccountOK' /\ LoginsOK' /\ CodersOK' /\ HistoryOK'
    BY <2>1 DEF AccountOK, LoginsOK, CodersOK, HistoryOK
  <2>4. QED
    BY <2>1, <2>2, <2>3 DEF LockMatchesCount, EnabledSecretProven, Shown, NotOpened
<1>5. CASE Reenable \/ Tick \/ UNCHANGED vars
  <2>1. UNCHANGED <<budget, totp, session, pending, spent, login, coder, spentAt, guesses, proven>>
    BY <1>5 DEF Reenable, Tick, vars, account, sessions, history
  <2>2. active' \in BOOLEAN /\ clock' \in Nat
    <3>1. active' = TRUE \/ active' = active
      BY <1>5 DEF Reenable, Tick, vars, account
    <3>2. clock' = clock + 1 \/ clock' = clock
      BY <1>5 DEF Reenable, Tick, vars
    <3>3. active' \in BOOLEAN
      BY <3>1 DEF AccountOK
    <3>4. clock' \in Nat
      BY <3>2 DEF HistoryOK
    <3>5. QED
      BY <3>3, <3>4
  <2>3. AccountOK' /\ SessionsOK' /\ LoginsOK' /\ CodersOK' /\ HistoryOK'
    BY <2>1, <2>2 DEF AccountOK, SessionsOK, LoginsOK, CodersOK, HistoryOK
  <2>4. QED
    BY <2>1, <2>3 DEF LockMatchesCount, EnabledSecretProven, Shown, NotOpened
<1>6. QED
  BY <1>1, <1>2, <1>3, <1>4, <1>5 DEF Next

\* The invariant holds in every state.
LEMMA Invariance == Spec => []IInv
  BY InitIInv, NextIInv, PTL DEF Spec

\* Every variable keeps its type: the counters stay within their thresholds
\* (login.go and mfa.go, the two budgets).
THEOREM TypeCorrect == Spec => []TypeOK
<1>1. IInv => TypeOK
  BY Parts DEF IInv
<1>2. QED
  BY <1>1, Invariance, PTL

\* However charges, successes and slow requests interleave, the account is
\* locked exactly when its counter is full (login.go, ConsumeLoginAttempt).
THEOREM LocksMatch == Spec => []LockMatchesCount
<1>1. IInv => LockMatchesCount
  BY DEF IInv
<1>2. QED
  BY <1>1, Invariance, PTL

\* However enrolments, confirmations and discards interleave, the secret that
\* is on is one whose code was shown (mfa.go, MfaEnable).
THEOREM SecretsProven == Spec => []EnabledSecretProven
<1>1. IInv => EnabledSecretProven
  BY DEF IInv
<1>2. QED
  BY <1>1, Invariance, PTL

\* A session that was revoked is never live again (session_repo.go, CompleteMFA
\* and Revoke; a login opens a session under an id of its own).
THEOREM KilledStay == Spec => KilledStaysKilled
<1>1. ASSUME IInv, [Next]_vars, NEW s \in Logins, session[s] = "revoked" PROVE session'[s] = "revoked"
  <2> USE <1>1 DEF IInv
  <2>1. ASSUME NEW l \in Logins, LoginNext(l) PROVE session'[s] = "revoked"
    <3>1. CASE Open(l)
      <4>1. login[l] # Answered
        BY <3>1 DEF Open, Answered
      <4>2. l # s
        BY <4>1 DEF NotOpened
      <4>3. QED
        BY <3>1, <4>2 DEF Open, SessionsOK
    <3>2. CASE UNCHANGED session
      BY <3>2
    <3>3. QED
      BY <2>1, <3>1, <3>2 DEF LoginNext, LookUp, Charge, LoginDies, sessions
  <2>2. ASSUME NEW c \in Coders, VerifyNext(c) \/ EnrolNext(c) \/ CoderDies(c) PROVE session'[s] = "revoked"
    <3>1. CASE DestroyPendingSession(c)
      BY <3>1, RevokedStates, CoderForms DEF DestroyPendingSession, SessionsOK
    <3>2. CASE UNCHANGED session
      BY <3>2
    <3>3. CASE VerifyNext(c) /\ ~DestroyPendingSession(c)
      BY <3>2, <3>3 DEF VerifyNext, Verify, ChargeVerify, ChargeVerifyFails, Validate, NotEnrolled,
         CompleteMFA, KeptState, sessions
    <3>4. CASE EnrolNext(c) \/ CoderDies(c)
      BY <3>2, <3>4 DEF EnrolNext, CoderDies, Enroll, WriteEnrolment, Enable, ChargeEnable,
         ChargeEnableFails, ConfirmEnrolment, DestroyEnrollment, sessions
    <3>5. QED
      BY <2>2, <3>1, <3>3, <3>4
  <2>3. ASSUME NEW k \in Logins, Logout(k) PROVE session'[s] = "revoked"
    BY <2>3, RevokedStates DEF Logout, SessionsOK
  <2>4. CASE LogoutAll \/ Disable
    BY <2>4, RevokedStates DEF LogoutAll, Disable, AllRevoked
  <2>5. CASE Reenable \/ Tick \/ UNCHANGED vars
    BY <2>5 DEF Reenable, Tick, vars, sessions
  <2>6. QED
    BY <2>1, <2>2, <2>3, <2>4, <2>5 DEF Next
<1>2. IInv /\ [Next]_vars => [\A s \in Logins : session[s] = "revoked" => session'[s] = "revoked"]_vars
  BY <1>1
<1>3. QED
  BY <1>2, Invariance, PTL DEF Spec, KilledStaysKilled

(***************************************************************************)
(* Locks that run.  No request carries a clock ahead of the present.       *)
(***************************************************************************)
Stamped == \A l \in Logins : login[l].at \in {"charge", "open"} => login[l].now <= clock

\* Stamps stay in the past.
LEMMA StampedInvariant == Spec => []Stamped
<1>1. Init => Stamped
  BY DEF Init, Stamped, Fresh
<1>2. IInv /\ Stamped /\ [Next]_vars => Stamped'
  <2> SUFFICES ASSUME IInv, Stamped, [Next]_vars, NEW l \in Logins, login'[l].at \in {"charge", "open"}
               PROVE  login'[l].now <= clock'
    BY DEF Stamped
  <2> USE DEF IInv
  <2>1. clock \in Nat /\ clock' \in {clock, clock + 1}
    <3>1. CASE Tick
      BY <3>1 DEF Tick, HistoryOK
    <3>2. CASE clock' = clock
      BY <3>2 DEF HistoryOK
    <3>3. QED
      BY <3>1, <3>2 DEF Next, vars, LoginNext, LookUp, Charge, Open, LoginDies, VerifyNext, Verify, ChargeVerify,
         ChargeVerifyFails, Validate, NotEnrolled, CompleteMFA, DestroyPendingSession, EnrolNext, Enroll,
         WriteEnrolment, Enable, ChargeEnable, ChargeEnableFails, ConfirmEnrolment, DestroyEnrollment, CoderDies,
         Logout, LogoutAll, Disable, Reenable
  <2>2. CASE login'[l] = login[l]
    <3>1. login[l] \in LoginSteps /\ login[l].now <= clock
      BY <2>2, LoginForms DEF Stamped
    <3>2. QED
      BY <2>1, <2>2, <3>1 DEF LoginSteps
  <2>3. ASSUME LoginNext(l), login'[l] # login[l] PROVE login'[l].now <= clock'
    <3>1. Answered.at = "done"
      BY DEF Answered
    <3>2. CASE LookUp(l)
      BY <2>1, <3>1, <3>2 DEF LookUp, LoginsOK
    <3>3. CASE Charge(l)
      <4>1. login[l] \in LoginSteps /\ login[l].now <= clock
        BY <3>3, LoginForms DEF Charge, Stamped
      <4>2. login'[l] = [at |-> "open", now |-> login[l].now, mfa |-> login[l].mfa]
        BY <3>1, <3>3 DEF Charge, LoginsOK
      <4>3. QED
        BY <2>1, <4>1, <4>2 DEF LoginSteps
    <3>4. CASE Open(l) \/ LoginDies(l)
      BY <3>1, <3>4 DEF Open, LoginDies, LoginsOK
    <3>5. QED
      BY <2>3, <3>2, <3>3, <3>4 DEF LoginNext
  <2>4. ASSUME NEW k \in Logins, LoginNext(k), k # l PROVE login'[l] = login[l]
    BY <2>4 DEF LoginNext, LookUp, Charge, Open, LoginDies, LoginsOK
  <2>5. login' = login \/ \E k \in Logins : LoginNext(k)
    BY DEF Next, vars, VerifyNext, Verify, ChargeVerify,
       ChargeVerifyFails, Validate, NotEnrolled, CompleteMFA, DestroyPendingSession, EnrolNext, Enroll,
       WriteEnrolment, Enable, ChargeEnable, ChargeEnableFails, ConfirmEnrolment, DestroyEnrollment, CoderDies,
       Logout, LogoutAll, Disable, Reenable, Tick
  <2>6. QED
    BY <2>2, <2>3, <2>4, <2>5
<1>3. QED
  BY <1>1, <1>2, Invariance, PTL DEF Spec

\* A running lock is neither extended nor charged by the attempts it refuses,
\* and only a success lifts it (login.go, "A LIVE lock is never extended").
THEOREM LockStill == Spec => LiveLockNeverMoves
<1> DEFINE Still ==
      \/ budget'.lockedUntil = budget.lockedUntil /\ budget'.attempts = budget.attempts
      \/ budget'.lockedUntil = 0 /\ budget'.attempts = 0
<1>1. ASSUME IInv, Stamped, [Next]_vars, Live(clock) PROVE Still
  <2> USE DEF IInv
  <2>1. ASSUME NEW l \in Logins, Charge(l) PROVE budget' = budget
    <3>0. login[l].at = "charge"
      BY <2>1 DEF Charge
    <3>1. login[l] \in LoginSteps /\ login[l].now <= clock
      BY <1>1, <2>1, <3>0, LoginForms DEF Stamped
    <3>2. Live(login[l].now)
      BY <1>1, <3>1 DEF Live, LoginSteps, AccountOK, Budgets, HistoryOK
    <3>3. QED
      BY <2>1, <3>2 DEF Charge, Charged
  <2>2. ASSUME NEW l \in Logins, Open(l) PROVE Still
    BY <2>2 DEF Open
  <2>3. budget' = budget \/ \E l \in Logins : Charge(l) \/ Open(l)
    BY <1>1 DEF Next, vars, account, LoginNext, LookUp, LoginDies, VerifyNext, Verify, ChargeVerify,
       ChargeVerifyFails, Validate, NotEnrolled, CompleteMFA, DestroyPendingSession, EnrolNext, Enroll,
       WriteEnrolment, Enable, ChargeEnable, ChargeEnableFails, ConfirmEnrolment, DestroyEnrollment, CoderDies,
       Logout, LogoutAll, Disable, Reenable, Tick
  <2>4. CASE budget' = budget
    BY <2>4
  <2>5. CASE budget' # budget
    BY <2>1, <2>2, <2>3, <2>5
  <2>6. QED
    BY <2>4, <2>5
<1>2. IInv /\ Stamped /\ [Next]_vars => [Live(clock) => Still]_vars
  BY <1>1
<1>3. QED
  BY <1>2, Invariance, StampedInvariant, PTL DEF Spec, LiveLockNeverMoves

(***************************************************************************)
(* The budget of passwords.  While no lock is stamped the counter bounds   *)
(* the recent verifications from above and all of them from below; what    *)
(* was verified before a lock is no longer recent once the lock has run.   *)
(***************************************************************************)
Spenders == {l \in Logins : spentAt[l] # 0}
Recent == {l \in Logins : spentAt[l] # 0 /\ spentAt[l] + Lockout > clock + MaxLag}

Timely ==
    /\ clock >= 1
    /\ \A l \in Logins : spentAt[l] <= clock
    /\ \A l \in Logins : login[l].at \in {"new", "charge"} => spentAt[l] = 0
    /\ \A l \in Logins : login[l].at = "charge" =>
          login[l].now <= clock /\ clock <= login[l].now + MaxLag
Budgeted ==
    /\ IsFiniteSet(Spenders)
    /\ budget.lockedUntil = 0 =>
          Cardinality(Recent) <= budget.attempts /\ budget.attempts <= Cardinality(Spenders)
    /\ budget.lockedUntil # 0 =>
          /\ Cardinality(Recent) <= Threshold
          /\ \A l \in Spenders : spentAt[l] + Lockout <= budget.lockedUntil + MaxLag

LEMMA GrowsByOne ==
    ASSUME NEW S, IsFiniteSet(S), NEW x, NEW T, T \subseteq S \cup {x}
    PROVE  IsFiniteSet(T) /\ Cardinality(T) \in Nat /\ Cardinality(T) <= Cardinality(S) + 1
<1>1. /\ IsFiniteSet(S \cup {x}) /\ Cardinality(S \cup {x}) <= Cardinality(S) + 1
      /\ Cardinality(S \cup {x}) \in Nat /\ Cardinality(S) \in Nat
  BY FS_AddElement, FS_CardinalityType
<1>2. IsFiniteSet(T) /\ Cardinality(T) <= Cardinality(S \cup {x})
  BY <1>1, FS_Subset
<1>3. Cardinality(T) \in Nat
  BY <1>2, FS_CardinalityType
<1>4. QED
  BY <1>1, <1>2, <1>3

\* Fewer recent ones, and as many in all, are no worse.
LEMMA BudgetStays ==
    ASSUME AccountOK, Budgeted, UNCHANGED <<budget, spentAt>>, Recent' \subseteq Recent
    PROVE  Budgeted'
<1>1. Spenders' = Spenders /\ Recent \subseteq Spenders
  BY DEF Spenders, Recent
<1>2. IsFiniteSet(Recent) /\ IsFiniteSet(Recent') /\ Cardinality(Recent') <= Cardinality(Recent)
  BY <1>1, FS_Subset DEF Budgeted
<1>3. Cardinality(Recent') \in Nat /\ Cardinality(Recent) \in Nat
  BY <1>2, FS_CardinalityType
<1>4. budget.attempts \in Nat
  BY SignInAssumption DEF AccountOK, Budgets
<1>5. QED
  BY <1>1, <1>2, <1>3, <1>4, SignInAssumption DEF Budgeted

\* The charge of an attempt.
LEMMA ChargeBudget ==
    ASSUME IInv, Timely, Budgeted, NEW l \in Logins, Charge(l)
    PROVE  Budgeted' /\ LockEarned
<1> USE SignInAssumption
<1> DEFINE now == login[l].now
           set == {k \in Logins : spentAt'[k] # 0 /\ spentAt'[k] >= budget.lockedUntil}
<1>1. /\ login[l].at = "charge" /\ clock' = clock /\ budget' = Charged(now)
      /\ spentAt' = [spentAt EXCEPT ![l] = IF Live(now) THEN 0 ELSE clock]
  BY DEF Charge
<1>2. /\ now \in Nat /\ clock \in Nat /\ clock >= 1 /\ now <= clock /\ clock <= now + MaxLag
      /\ spentAt \in [Logins -> Nat] /\ spentAt[l] = 0 /\ \A k \in Logins : spentAt[k] <= clock
      /\ budget.attempts \in 0 .. Threshold /\ budget.lockedUntil \in Nat
      /\ budget.lockedUntil # 0 <=> budget.attempts = Threshold
  BY <1>1, LoginForms DEF IInv, LoginSteps, Timely, HistoryOK, AccountOK, Budgets, LockMatchesCount
<1>3. Recent \subseteq Spenders /\ l \notin Spenders /\ IsFiniteSet(Spenders)
  BY <1>2 DEF Spenders, Recent, Budgeted
<1>4. /\ IsFiniteSet(Recent) /\ Cardinality(Recent) \in Nat /\ Cardinality(Spenders) \in Nat
      /\ IsFiniteSet(Spenders \cup {l}) /\ Cardinality(Spenders \cup {l}) = Cardinality(Spenders) + 1
  BY <1>3, FS_Subset, FS_CardinalityType, FS_AddElement
<1>5. CASE Live(now)
  <2>1. spentAt' = spentAt /\ budget' = budget
    BY <1>1, <1>2, <1>5 DEF Charged
  <2>2. Recent' \subseteq Recent
    BY <1>1, <2>1 DEF Recent
  <2>3. Budgeted'
    BY <2>1, <2>2, BudgetStays DEF IInv
  <2>4. QED
    BY <2>1, <2>3 DEF LockEarned
<1>6. CASE ~Live(now)
  <2>1. /\ spentAt'[l] = clock /\ \A k \in Logins \ {l} : spentAt'[k] = spentAt[k]
        /\ budget.lockedUntil <= now
    BY <1>1, <1>2, <1>6 DEF Live
  <2>2. Spenders' = Spenders \cup {l}
    BY <1>2, <2>1 DEF Spenders
  <2>3. Recent' \subseteq Recent \cup {l}
    BY <1>1, <2>1 DEF Recent
  <2>4. /\ IsFiniteSet(Recent') /\ Cardinality(Recent') \in Nat
        /\ Cardinality(Recent') <= Cardinality(Recent) + 1
    BY <1>4, <2>3, GrowsByOne
  <2>5. Debt(now) \in Nat /\ Cardinality(Recent) <= Debt(now) /\ Debt(now) + 1 <= Threshold
    <3>1. CASE budget.lockedUntil = 0
      BY <1>2, <3>1 DEF Budgeted, Debt
    <3>2. CASE budget.lockedUntil # 0
      <4>1. ASSUME NEW k \in Spenders PROVE k \notin Recent
        <5>1. spentAt[k] + Lockout <= budget.lockedUntil + MaxLag /\ spentAt[k] \in Nat
          BY <1>2, <3>2 DEF Budgeted, Spenders
        <5>2. budget.lockedUntil <= clock
          BY <1>2, <2>1
        <5>3. QED
          BY <1>2, <5>1, <5>2 DEF Recent
      <4>2. Recent = {}
        BY <1>3, <4>1
      <4>3. QED
        BY <3>2, <4>2, FS_EmptySet DEF Debt
    <3>3. QED
      BY <3>1, <3>2
  <2>6. CASE Debt(now) + 1 >= Threshold
    <3>1. budget'.lockedUntil = now + Lockout /\ budget'.attempts = Threshold
      BY <1>1, <1>6, <2>6 DEF Charged, LockedFrom
    <3>2. Cardinality(Recent') <= Threshold
      BY <1>4, <2>4, <2>5
    <3>3. ASSUME NEW k \in Logins PROVE spentAt'[k] + Lockout <= budget'.lockedUntil + MaxLag
      BY <1>2, <2>1, <3>1
    <3>4. Budgeted'
      BY <1>2, <1>4, <2>2, <3>1, <3>2, <3>3, SMTT(60) DEF Budgeted, Spenders
    <3>5. Cardinality(set) >= Threshold
      <4>1. CASE budget.lockedUntil = 0
        <5>1. set = Spenders \cup {l}
          BY <1>2, <2>1, <4>1 DEF Spenders
        <5>2. budget.attempts + 1 = Threshold /\ budget.attempts <= Cardinality(Spenders)
          BY <2>5, <2>6, <4>1 DEF Budgeted, Debt
        <5>3. Cardinality(set) = Cardinality(Spenders) + 1
          BY <1>4, <5>1
        <5> HIDE DEF set
        <5>4. QED
          BY <1>2, <1>4, <5>2, <5>3
      <4>2. CASE budget.lockedUntil # 0
        <5>1. Threshold = 1
          BY <2>5, <2>6, <4>2 DEF Debt
        <5>2. l \in set /\ set \subseteq Spenders \cup {l}
          BY <1>2, <2>1 DEF Spenders
        <5>3. IsFiniteSet(set) /\ Cardinality(set) \in Nat
          BY <1>4, <5>2, FS_Subset, FS_CardinalityType
        <5>4. Cardinality(set) # 0
          BY <5>2, <5>3, FS_EmptySet
        <5>5. QED
          BY <5>1, <5>3, <5>4
      <4>3. QED
        BY <4>1, <4>2
    <3>6. QED
      BY <3>4, <3>5 DEF LockEarned
  <2>7. CASE ~(Debt(now) + 1 >= Threshold)
    <3>1. budget'.lockedUntil = 0 /\ budget'.attempts = Debt(now) + 1
      BY <1>1, <1>6, <2>7 DEF Charged, Counted
    <3>2. Debt(now) <= Cardinality(Spenders)
      BY <1>2, <1>4, <2>5 DEF Debt, Budgeted
    <3>3. Cardinality(Recent') <= budget'.attempts /\ budget'.attempts <= Cardinality(Spenders')
      BY <1>4, <2>2, <2>4, <2>5, <3>1, <3>2
    <3>4. Budgeted'
      BY <1>4, <2>2, <3>1, <3>3 DEF Budgeted
    <3>5. QED
      BY <3>1, <3>4 DEF LockEarned
  <2>8. QED
    BY <2>6, <2>7
<1>7. QED
  BY <1>5, <1>6

\* The other steps of logins, and the passage of time.
LEMMA BudgetKept ==
    ASSUME IInv, Timely, Budgeted, [Next]_vars, \A l \in Logins : ~Charge(l)
    PROVE  Budgeted' /\ LockEarned
<1> USE SignInAssumption
<1>1. CASE \E l \in Logins : Open(l)
  <2>1. budget' = [attempts |-> 0, lockedUntil |-> 0] /\ spentAt' = [k \in Logins |-> 0]
    BY <1>1 DEF Open
  <2>2. Spenders' = {} /\ Recent' = {}
    BY <2>1 DEF Spenders, Recent
  <2>3. QED
    BY <2>1, <2>2, FS_EmptySet DEF Budgeted, LockEarned
<1>2. CASE UNCHANGED <<budget, spentAt>> /\ clock' \in {clock, clock + 1}
  <2>1. Recent' \subseteq Recent
    <3>1. spentAt \in [Logins -> Nat] /\ clock \in Nat
      BY DEF IInv, HistoryOK
    <3>2. QED
      BY <1>2, <3>1 DEF Recent
  <2>2. QED
    BY <1>2, <2>1, BudgetStays DEF IInv, LockEarned
<1>3. QED
  BY <1>1, <1>2
  DEF Next, vars, account, sessions, history, LoginNext, LookUp, LoginDies, VerifyNext, Verify, ChargeVerify,
      ChargeVerifyFails, Validate, NotEnrolled, CompleteMFA, DestroyPendingSession, EnrolNext, Enroll,
      WriteEnrolment, Enable, ChargeEnable, ChargeEnableFails, ConfirmEnrolment, DestroyEnrollment, CoderDies,
      Logout, LogoutAll, Disable, Reenable, Tick

\* No login takes longer than MaxLag from its clock to its charge.
LEMMA NextTimely ==
    ASSUME IInv, Timely, [Next]_vars
    PROVE  Timely'
<1> USE SignInAssumption DEF IInv
<1>0. /\ clock \in Nat /\ spentAt \in [Logins -> Nat]
      /\ login \in [Logins -> LoginSteps \cup {Fresh, Answered}]
      /\ Fresh.at = "new" /\ Answered.at = "done"
  BY DEF HistoryOK, LoginsOK, Fresh, Answered
<1>1. ASSUME NEW l \in Logins, LoginNext(l) PROVE Timely'
  <2>1. clock' = clock /\ \A k \in Logins \ {l} : login'[k] = login[k]
    BY <1>0, <1>1 DEF LoginNext, LookUp, Charge, Open, LoginDies
  <2>2. CASE LookUp(l)
    <3>1. spentAt' = spentAt /\ login[l].at = "new"
      BY <1>0, <2>2 DEF LookUp, history
    <3>2. login'[l].at = "charge" => login'[l].now = clock
      BY <1>0, <2>2 DEF LookUp
    <3>3. login'[l].at \in {"charge", "done"}
      BY <1>0, <2>2 DEF LookUp
    <3>4. QED
      BY <1>0, <2>1, <3>1, <3>2, <3>3 DEF Timely
  <2>3. CASE Charge(l)
    <3>1. login'[l].at \in {"open", "done"}
      BY <1>0, <2>3 DEF Charge
    <3>2. spentAt'[l] \in {0, clock} /\ \A k \in Logins \ {l} : spentAt'[k] = spentAt[k]
      BY <1>0, <2>3 DEF Charge
    <3>3. QED
      BY <1>0, <2>1, <3>1, <3>2 DEF Timely
  <2>4. CASE Open(l) \/ LoginDies(l)
    <3>1. login'[l].at = "done" /\ (spentAt' = spentAt \/ spentAt' = [k \in Logins |-> 0])
      BY <1>0, <2>4 DEF Open, LoginDies, history
    <3>2. QED
      BY <1>0, <2>1, <3>1 DEF Timely
  <2>5. QED
    BY <1>1, <2>2, <2>3, <2>4 DEF LoginNext
<1>2. CASE Tick
  <2>1. /\ clock' = clock + 1 /\ UNCHANGED <<login, spentAt>>
        /\ \A l \in Logins : login[l].at = "charge" => login[l].now \in Nat /\ clock - login[l].now < MaxLag
    BY <1>2, LoginForms DEF Tick, history, LoginSteps
  <2>2. QED
    BY <1>0, <2>1 DEF Timely
<1>3. CASE UNCHANGED <<clock, login, spentAt>>
  BY <1>3 DEF Timely
<1>4. QED
  BY <1>1, <1>2, <1>3
  DEF Next, vars, account, sessions, history, VerifyNext, Verify, ChargeVerify,
      ChargeVerifyFails, Validate, NotEnrolled, CompleteMFA, DestroyPendingSession, EnrolNext, Enroll,
      WriteEnrolment, Enable, ChargeEnable, ChargeEnableFails, ConfirmEnrolment, DestroyEnrollment, CoderDies,
      Logout, LogoutAll, Disable, Reenable

(***************************************************************************)
(* The budget of codes.  What was validated against a session, and what is *)
(* about to be, was charged to it.  The budget is given back only to a     *)
(* session past its second factor, and none goes back before it.           *)
(***************************************************************************)
Asked == {"charge", "validate", "complete", "destroy", "charge enrolment", "enable", "discard"}
OfEnrolment == {"charge enrolment", "enable", "discard"}
Guessing(s) == {c \in Coders : coder[c].at = "validate" /\ coder[c].on = s}

OnOpened ==
    /\ \A s \in Logins : session[s] = "none" => guesses[s] = 0 /\ s \notin pending
    /\ \A c \in Coders : coder[c].at \in Asked => session[coder[c].on] # "none"
    /\ \A c \in Coders : coder[c].at \in OfEnrolment => coder[c].on \notin pending
GuessesPaid ==
    \A s \in pending : /\ IsFiniteSet(Guessing(s))
                      /\ guesses[s] + Cardinality(Guessing(s)) <= spent[s]

\* What a step of a second-factor request is about.
LEMMA CoderAbout ==
    ASSUME IInv, OnOpened, NEW c \in Coders, VerifyNext(c) \/ EnrolNext(c) \/ CoderDies(c)
    PROVE  /\ \A d \in Coders \ {c} : coder'[d] = coder[d]
           /\ pending' \subseteq pending
           /\ coder'[c].at \in Asked => session[coder'[c].on] # "none"
           /\ coder'[c].at \in OfEnrolment => coder'[c].on \notin pending
<1> USE DEF Done, Asked, OfEnrolment
<1>0. /\ coder \in [Coders -> CoderSteps \cup {Enrolling, Fresh, Answered}]
      /\ Enrolling.at = "enroll" /\ Answered.at = "done"
  BY DEF IInv, CodersOK, Enrolling, Answered
<1>1. ASSUME NEW s \in Logins, Verify(c, s) \/ Enable(c, s)
      PROVE  /\ \A d \in Coders \ {c} : coder'[d] = coder[d]
             /\ pending' = pending /\ coder'[c].on = s /\ session[s] # "none"
             /\ coder'[c].at \in OfEnrolment => s \notin pending
  <2>1. CASE Verify(c, s)
    <3>1. coder'[c].on = s /\ coder'[c].at = "charge" /\ \A d \in Coders \ {c} : coder'[d] = coder[d]
      BY <1>0, <2>1 DEF Verify
    <3>2. QED
      BY <2>1, <3>1 DEF Verify, Usable, sessions
  <2>2. CASE Enable(c, s)
    <3>1. coder'[c].on = s /\ \A d \in Coders \ {c} : coder'[d] = coder[d]
      BY <1>0, <2>2 DEF Enable
    <3>2. QED
      BY <2>2, <3>1 DEF Enable, Usable, sessions
  <2>3. QED
    BY <1>1, <2>1, <2>2
<1>2. CASE coder' = [coder EXCEPT ![c] = Answered] \/ coder' = [coder EXCEPT ![c] = Enrolling]
  <2>1. coder'[c].at \notin Asked /\ \A d \in Coders \ {c} : coder'[d] = coder[d]
    BY <1>0, <1>2
  <2>2. pending' \subseteq pending
    BY DEF VerifyNext, EnrolNext, CoderDies, Verify, ChargeVerify, ChargeVerifyFails, Validate, NotEnrolled,
           CompleteMFA, DestroyPendingSession, Enroll, WriteEnrolment, Enable, ChargeEnable, ChargeEnableFails,
           ConfirmEnrolment, DestroyEnrollment, sessions
  <2>3. QED
    BY <2>1, <2>2
<1>3. ASSUME NEW at \in {"destroy", "complete"}, coder[c].at \in Asked, Step(c, at), pending' = pending
      PROVE  /\ \A d \in Coders \ {c} : coder'[d] = coder[d]
             /\ coder'[c].on = coder[c].on /\ coder'[c].at = at
  BY <1>0, <1>3 DEF Step
<1>4. ASSUME NEW at \in {"enable", "discard"}, coder[c].at \in Asked, Step(c, at), pending' = pending
      PROVE  /\ \A d \in Coders \ {c} : coder'[d] = coder[d]
             /\ coder'[c].on = coder[c].on /\ coder'[c].at = at
  BY <1>0, <1>4 DEF Step
<1>5. CASE ChargeVerify(c)
  <2>1. pending' = pending /\ coder[c].at \in Asked
    BY <1>5 DEF ChargeVerify
  <2>2. CASE Step(c, "destroy")
    BY <1>3, <2>1, <2>2 DEF OnOpened
  <2>3. CASE ~Step(c, "destroy")
    <3>1. /\ \A d \in Coders \ {c} : coder'[d] = coder[d]
          /\ coder'[c].at = "validate" /\ coder'[c].on = coder[c].on
      BY <1>0, <1>5, <2>3 DEF ChargeVerify
    <3>2. QED
      BY <2>1, <3>1 DEF OnOpened
  <2>4. QED
    BY <2>2, <2>3
<1>6. CASE ChargeVerifyFails(c)
  BY <1>3, <1>6 DEF ChargeVerifyFails, sessions, OnOpened
<1>7. CASE Validate(c)
  <2>1. pending' = pending /\ coder[c].at \in Asked
        /\ (Step(c, "complete") \/ Step(c, "destroy") \/ Done(c))
    BY <1>7 DEF Validate, sessions
  <2>2. CASE Step(c, "complete") \/ Step(c, "destroy")
    BY <1>3, <2>1, <2>2 DEF OnOpened
  <2>3. CASE Done(c)
    BY <1>2, <2>3
  <2>4. QED
    BY <2>1, <2>2, <2>3
<1>8. CASE ChargeEnable(c)
  <2>1. pending' = pending /\ coder[c].at \in OfEnrolment
        /\ (Step(c, "enable") \/ Step(c, "discard") \/ Done(c))
    BY <1>8 DEF ChargeEnable
  <2>2. CASE Step(c, "enable") \/ Step(c, "discard")
    BY <1>4, <2>1, <2>2 DEF OnOpened
  <2>3. CASE Done(c)
    BY <1>2, <2>3
  <2>4. QED
    BY <2>1, <2>2, <2>3
<1>9. CASE ChargeEnableFails(c)
  BY <1>4, <1>9 DEF ChargeEnableFails, sessions, OnOpened
<1>10. CASE \/ NotEnrolled(c) \/ CompleteMFA(c) \/ DestroyPendingSession(c) \/ Enroll(c)
            \/ WriteEnrolment(c) \/ ConfirmEnrolment(c) \/ DestroyEnrollment(c) \/ CoderDies(c)
  BY <1>2, <1>10
  DEF NotEnrolled, CompleteMFA, DestroyPendingSession, Enroll, WriteEnrolment, ConfirmEnrolment,
      DestroyEnrollment, CoderDies
<1>11. QED
  BY <1>1, <1>5, <1>6, <1>7, <1>8, <1>9, <1>10 DEF VerifyNext, EnrolNext

\* A session that was opened does not become one that was not.
LEMMA OpenedStays ==
    ASSUME IInv, [Next]_vars, NEW s \in Logins, session'[s] = "none"
    PROVE  session[s] = "none"
<1> USE DEF IInv
<1>0. session \in [Logins -> SessionStates] /\ (Revoked(s) = "none" => session[s] = "none")
  BY DEF SessionsOK, Revoked
<1>1. CASE session' = AllRevoked
  BY <1>0, <1>1 DEF AllRevoked
<1>2. ASSUME NEW l \in Logins, session' = [session EXCEPT ![l] = Revoked(l)] PROVE session[s] = "none"
  BY <1>0, <1>2
<1>3. ASSUME NEW l \in Logins, session' = [session EXCEPT ![l] = "live"] PROVE session[s] = "none"
  BY <1>0, <1>3
<1>4. ASSUME NEW c \in Coders, DestroyPendingSession(c) PROVE session[s] = "none"
  BY <1>2, <1>4, CoderForms DEF DestroyPendingSession
<1>5. CASE session' = session
  BY <1>5
<1>6. QED
  BY <1>1, <1>2, <1>3, <1>4, <1>5
  DEF Next, vars, account, sessions, history, LoginNext, LookUp, Charge, Open, LoginDies, VerifyNext, Verify,
      ChargeVerify, ChargeVerifyFails, Validate, NotEnrolled, CompleteMFA, KeptState, EnrolNext, Enroll,
      WriteEnrolment, Enable, ChargeEnable, ChargeEnableFails, ConfirmEnrolment, DestroyEnrollment, CoderDies,
      Logout, LogoutAll, Disable, Reenable, Tick

\* A login opens its session once, and nobody has asked about it before.
LEMMA OpenAbout ==
    ASSUME IInv, OnOpened, NEW l \in Logins, Open(l)
    PROVE  /\ session[l] = "none" /\ session'[l] = "live" /\ pending' \subseteq pending \cup {l}
           /\ guesses' = guesses /\ spent' = spent /\ coder' = coder
           /\ l \notin pending /\ guesses[l] = 0 /\ Guessing(l) = {}
           /\ \A c \in Coders : coder[c].at \in Asked => coder[c].on # l
<1>1. session[l] = "none" /\ session'[l] = "live"
  BY DEF IInv, NotOpened, SessionsOK, Open, Answered
<1>2. \A c \in Coders : coder[c].at \in Asked => coder[c].on # l
  BY <1>1 DEF OnOpened
<1>3. QED
  BY <1>1, <1>2 DEF Open, OnOpened, Guessing, Asked

LEMMA NextOnOpened ==
    ASSUME IInv, OnOpened, [Next]_vars
    PROVE  OnOpened'
<1>1. IInv'
  BY NextIInv
<1>2. ASSUME NEW c \in Coders, coder'[c].at \in Asked PROVE coder'[c].on \in Logins
  <2>1. coder'[c] \in CoderSteps \cup {Enrolling, Fresh, Answered}
    BY <1>1 DEF IInv, CodersOK
  <2>2. coder'[c] \notin {Enrolling, Fresh, Answered}
    <3>1. coder'[c].at \notin {"enroll", "new", "done"}
      BY <1>2 DEF Asked
    <3>2. Enrolling.at = "enroll" /\ Fresh.at = "new" /\ Answered.at = "done"
      BY DEF Enrolling, Fresh, Answered
    <3>3. QED
      BY <3>1, <3>2
  <2>3. QED
    BY <2>1, <2>2 DEF CoderSteps
<1>3. \A s \in Logins : session'[s] = "none" => session[s] = "none"
  BY OpenedStays
<1>4. ASSUME NEW l \in Logins, Open(l) PROVE OnOpened'
  <2>1. /\ session'[l] = "live" /\ pending' \subseteq pending \cup {l}
        /\ guesses' = guesses /\ coder' = coder
        /\ \A c \in Coders : coder[c].at \in Asked => coder[c].on # l
    BY <1>4, OpenAbout
  <2>2. \A s \in Logins : session'[s] = "none" => guesses'[s] = 0 /\ s \notin pending'
    BY <1>3, <2>1 DEF OnOpened
  <2>3. \A c \in Coders : coder'[c].at \in Asked => session'[coder'[c].on] # "none"
    BY <1>2, <1>3, <2>1 DEF OnOpened
  <2>4. \A c \in Coders : coder'[c].at \in OfEnrolment => coder'[c].on \notin pending'
    BY <2>1 DEF OnOpened, OfEnrolment, Asked
  <2>5. QED
    BY <2>2, <2>3, <2>4 DEF OnOpened, Asked, OfEnrolment
<1>5. ASSUME NEW c \in Coders, VerifyNext(c) \/ EnrolNext(c) \/ CoderDies(c) PROVE OnOpened'
  <2>1. /\ \A d \in Coders \ {c} : coder'[d] = coder[d]
        /\ pending' \subseteq pending
        /\ coder'[c].at \in Asked => session[coder'[c].on] # "none"
        /\ coder'[c].at \in OfEnrolment => coder'[c].on \notin pending
    BY <1>5, CoderAbout
  <2>2. ASSUME NEW s \in Logins, session[s] = "none" PROVE guesses'[s] = 0
    <3>1. CASE Validate(c)
      <4>1. coder[c].at \in Asked
        BY <3>1 DEF Validate, Asked
      <4>2. coder[c].on # s
        BY <2>2, <4>1 DEF OnOpened
      <4>3. QED
        BY <2>2, <3>1, <4>2 DEF Validate, OnOpened, IInv, HistoryOK
    <3>2. CASE guesses' = guesses
      BY <2>2, <3>2 DEF OnOpened
    <3>3. QED
      BY <1>5, <3>1, <3>2
      DEF VerifyNext, EnrolNext, CoderDies, history, Verify, ChargeVerify, ChargeVerifyFails, NotEnrolled,
          CompleteMFA, DestroyPendingSession, Enroll, WriteEnrolment, Enable, ChargeEnable, ChargeEnableFails,
          ConfirmEnrolment, DestroyEnrollment
  <2>3. \A s \in Logins : session'[s] = "none" => guesses'[s] = 0 /\ s \notin pending'
    BY <1>3, <2>1, <2>2 DEF OnOpened
  <2>4. \A d \in Coders : coder'[d].at \in Asked => session'[coder'[d].on] # "none"
    BY <1>2, <1>3, <2>1 DEF OnOpened
  <2>5. \A d \in Coders : coder'[d].at \in OfEnrolment => coder'[d].on \notin pending'
    BY <2>1 DEF OnOpened
  <2>6. QED
    BY <2>3, <2>4, <2>5 DEF OnOpened, Asked, OfEnrolment
<1>6. CASE UNCHANGED <<coder, pending, guesses>>
  BY <1>2, <1>3, <1>6 DEF OnOpened, Asked, OfEnrolment
<1>7. QED
  BY <1>4, <1>5, <1>6
  DEF Next, vars, sessions, history, LoginNext, LookUp, Charge, LoginDies, Logout, LogoutAll, Disable, Reenable, Tick

Paid(s) == IsFiniteSet(Guessing(s)) /\ guesses[s] + Cardinality(Guessing(s)) <= spent[s]

\* Fewer about to be validated, and as many validated and charged, are no worse.
LEMMA PaidStays ==
    ASSUME SessionsOK, HistoryOK, NEW s \in Logins, Paid(s), Guessing(s)' \subseteq Guessing(s),
           guesses' = guesses, spent'[s] \in Nat, spent[s] <= spent'[s]
    PROVE  Paid(s)'
<1>1. /\ IsFiniteSet(Guessing(s)') /\ Cardinality(Guessing(s)') <= Cardinality(Guessing(s))
      /\ Cardinality(Guessing(s)) \in Nat
  BY FS_Subset, FS_CardinalityType DEF Paid
<1>2. Cardinality(Guessing(s)') \in Nat /\ guesses[s] \in Nat /\ spent[s] \in Nat
  BY <1>1, FS_CardinalityType, SignInAssumption DEF HistoryOK, SessionsOK
<1>3. QED
  BY <1>1, <1>2 DEF Paid

\* A code is charged before it is validated.
LEMMA ChargePaid ==
    ASSUME IInv, NEW c \in Coders, ChargeVerify(c), NEW s \in Logins, Paid(s)
    PROVE  Paid(s)'
<1> DEFINE on == coder[c].on
<1> USE DEF IInv
<1>1. /\ coder[c].on \in Logins /\ Spent(on) \in 0..MaxCodes /\ spent \in [Logins -> 0..MaxCodes]
      /\ coder \in [Coders -> CoderSteps \cup {Enrolling, Fresh, Answered}]
      /\ guesses[s] \in Nat
  BY CoderForms, SpentBound DEF ChargeVerify, SessionsOK, CodersOK, HistoryOK
<1>2. guesses' = guesses /\ spent' = [spent EXCEPT ![on] = Spent(on)]
  BY DEF ChargeVerify, ChargeCode, history
<1>3. spent[s] <= spent'[s] /\ spent'[s] \in Nat
  BY <1>1, <1>2, SignInAssumption DEF Spent
<1>4. \A d \in Coders \ {c} : coder'[d] = coder[d]
  BY <1>1 DEF ChargeVerify, Step
<1>5. CASE WithinBudget(on) /\ s = on
  <2>1. Guessing(s)' \subseteq Guessing(s) \cup {c}
    BY <1>4 DEF Guessing
  <2>2. /\ IsFiniteSet(Guessing(s)') /\ Cardinality(Guessing(s)') \in Nat
        /\ Cardinality(Guessing(s)') <= Cardinality(Guessing(s)) + 1
    BY <2>1, GrowsByOne DEF Paid
  <2>3. spent'[s] = spent[s] + 1 /\ spent[s] \in Nat /\ Cardinality(Guessing(s)) \in Nat
    BY <1>1, <1>2, <1>5, FS_CardinalityType, SignInAssumption DEF WithinBudget, Spent, Paid
  <2>4. QED
    BY <1>1, <1>2, <2>2, <2>3 DEF Paid
<1>6. CASE ~(WithinBudget(on) /\ s = on)
  <2>1. coder'[c].at = "validate" => coder'[c].on # s
    BY <1>1, <1>6 DEF ChargeVerify, Step
  <2>2. Guessing(s)' \subseteq Guessing(s)
    BY <1>4, <2>1 DEF Guessing
  <2>3. QED
    BY <1>2, <1>3, <2>2, PaidStays
<1>7. QED
  BY <1>5, <1>6

\* A code that is validated is no longer about to be.
LEMMA ValidatePaid ==
    ASSUME IInv, NEW c \in Coders, Validate(c), NEW s \in Logins, Paid(s)
    PROVE  Paid(s)'
<1> DEFINE on == coder[c].on
<1> USE DEF IInv
<1>1. /\ on \in Logins /\ guesses \in [Logins -> Nat] /\ spent[s] \in Nat
      /\ coder \in [Coders -> CoderSteps \cup {Enrolling, Fresh, Answered}]
  <2>1. coder[c].at = "validate"
    BY DEF Validate
  <2>2. on \in Logins
    BY <2>1, CoderForms
  <2>3. spent[s] \in 0..MaxCodes
    BY DEF SessionsOK
  <2>4. QED
    BY <2>2, <2>3, SignInAssumption DEF CodersOK, HistoryOK
<1>2. spent' = spent /\ guesses' = [guesses EXCEPT ![on] = @ + 1] /\ coder[c].at = "validate"
  BY DEF Validate, sessions
<1>3. coder'[c].at # "validate" /\ \A d \in Coders \ {c} : coder'[d] = coder[d]
  BY <1>1 DEF Validate, Step, Done, Answered
<1>4. Guessing(s)' \subseteq Guessing(s) \ {c}
  BY <1>3 DEF Guessing
<1>5. IsFiniteSet(Guessing(s)) /\ Cardinality(Guessing(s)) \in Nat
  BY FS_CardinalityType DEF Paid
<1>6. CASE s = on
  <2>1. c \in Guessing(s)
    BY <1>2, <1>6 DEF Guessing
  <2>2. /\ IsFiniteSet(Guessing(s) \ {c})
        /\ Cardinality(Guessing(s) \ {c}) = Cardinality(Guessing(s)) - 1
    BY <1>5, <2>1, FS_RemoveElement
  <2>3. IsFiniteSet(Guessing(s)') /\ Cardinality(Guessing(s)') <= Cardinality(Guessing(s) \ {c})
    BY <1>4, <2>2, FS_Subset
  <2>4. Cardinality(Guessing(s)') \in Nat
    BY <2>3, FS_CardinalityType
  <2>5. QED
    BY <1>1, <1>2, <1>5, <1>6, <2>2, <2>3, <2>4 DEF Paid
<1>7. CASE s # on
  <2>1. guesses'[s] = guesses[s] /\ guesses[s] \in Nat
    BY <1>1, <1>2, <1>7
  <2>2. IsFiniteSet(Guessing(s)') /\ Cardinality(Guessing(s)') <= Cardinality(Guessing(s))
    BY <1>4, <1>5, FS_Subset
  <2>3. Cardinality(Guessing(s)') \in Nat
    BY <2>2, FS_CardinalityType
  <2>4. QED
    BY <1>1, <1>2, <1>5, <2>1, <2>2, <2>3 DEF Paid
<1>8. QED
  BY <1>6, <1>7

\* Whatever a session's requests do, what they validate was charged.
LEMMA CoderPaid ==
    ASSUME IInv, OnOpened, NEW c \in Coders, VerifyNext(c) \/ EnrolNext(c) \/ CoderDies(c),
           NEW s \in pending', s \in pending, Paid(s)
    PROVE  Paid(s)'
<1> USE DEF IInv
<1>0. /\ s \in Logins /\ spent \in [Logins -> 0..MaxCodes] /\ spent[s] \in Nat
      /\ coder \in [Coders -> CoderSteps \cup {Enrolling, Fresh, Answered}]
      /\ Enrolling.at = "enroll" /\ Answered.at = "done"
  BY SignInAssumption DEF SessionsOK, CodersOK, Enrolling, Answered
<1>1. CASE ChargeVerify(c)
  BY <1>0, <1>1, ChargePaid
<1>2. CASE Validate(c)
  BY <1>0, <1>2, ValidatePaid
<1>3. ASSUME ~ChargeVerify(c), ~Validate(c)
      PROVE  guesses' = guesses /\ Guessing(s)' \subseteq Guessing(s)
  <2>1. guesses' = guesses
    BY <1>3
    DEF VerifyNext, EnrolNext, CoderDies, history, Verify, ChargeVerifyFails, NotEnrolled,
        CompleteMFA, DestroyPendingSession, Enroll, WriteEnrolment, Enable, ChargeEnable, ChargeEnableFails,
        ConfirmEnrolment, DestroyEnrollment
  <2>2. \A d \in Coders \ {c} : coder'[d] = coder[d]
    BY CoderAbout
  <2>3. coder'[c].at # "validate"
    <3>1. CASE Done(c) \/ Enroll(c)
      BY <1>0, <3>1 DEF Done, Enroll
    <3>2. CASE \E at \in {"destroy", "enable", "discard"} : Step(c, at)
      BY <1>0, <3>2 DEF Step
    <3>3. CASE \E k \in Logins : Verify(c, k)
      BY <1>0, <3>3 DEF Verify
    <3>4. CASE \E k \in Logins : Enable(c, k)
      <4> PICK k \in Logins : Enable(c, k)
        BY <3>4
      <4> DEFINE new == [at |-> "charge enrolment", on |-> k, spent |-> 0, secret |-> totp.secret]
      <4>1. coder' = [coder EXCEPT ![c] = new] /\ new.at = "charge enrolment"
        BY DEF Enable
      <4> HIDE DEF new
      <4>2. QED
        BY <1>0, <4>1
    <3>5. QED
      BY <1>3, <3>1, <3>2, <3>3, <3>4
      DEF VerifyNext, EnrolNext, CoderDies, ChargeVerifyFails, NotEnrolled, CompleteMFA, DestroyPendingSession,
          WriteEnrolment, ChargeEnable, ChargeEnableFails, ConfirmEnrolment, DestroyEnrollment
  <2>4. QED
    BY <2>1, <2>2, <2>3 DEF Guessing
<1>4. CASE ChargeEnable(c)
  <2>1. coder[c].on \in Logins /\ spent' = [spent EXCEPT ![coder[c].on] = Spent(coder[c].on)]
    BY <1>4, CoderForms DEF ChargeEnable, ChargeCode
  <2>2. Spent(coder[c].on) \in 0..MaxCodes /\ spent[coder[c].on] <= Spent(coder[c].on)
    BY <1>0, <2>1, SpentBound, SignInAssumption DEF Spent
  <2>3. spent'[s] \in Nat /\ spent[s] <= spent'[s]
    BY <1>0, <2>1, <2>2, SignInAssumption
  <2>4. ~ChargeVerify(c) /\ ~Validate(c)
    BY <1>4 DEF ChargeEnable, ChargeVerify, Validate
  <2>5. QED
    BY <1>0, <1>3, <2>3, <2>4, PaidStays
<1>5. CASE CompleteMFA(c) \/ ConfirmEnrolment(c) \/ DestroyEnrollment(c)
  <2>1. coder[c].on \in Logins /\ spent' = [spent EXCEPT ![coder[c].on] = 0]
    BY <1>5, CoderForms DEF CompleteMFA, ConfirmEnrolment, DestroyEnrollment, ClearMFAAttempts
  <2>2. s # coder[c].on
    <3>1. CASE CompleteMFA(c)
      BY <3>1 DEF CompleteMFA
    <3>2. CASE ConfirmEnrolment(c) \/ DestroyEnrollment(c)
      BY <3>2 DEF ConfirmEnrolment, DestroyEnrollment, OnOpened, OfEnrolment
    <3>3. QED
      BY <1>5, <3>1, <3>2
  <2>3. spent'[s] = spent[s] /\ spent[s] <= spent'[s]
    BY <1>0, <2>1, <2>2
  <2>4. ~ChargeVerify(c) /\ ~Validate(c)
    BY <1>5 DEF CompleteMFA, ConfirmEnrolment, DestroyEnrollment, ChargeVerify, Validate
  <2>5. QED
    BY <1>0, <1>3, <2>3, <2>4, PaidStays
<1>6. CASE spent' = spent /\ ~ChargeVerify(c) /\ ~Validate(c)
  BY <1>0, <1>3, <1>6, PaidStays
<1>7. QED
  BY <1>1, <1>2, <1>4, <1>5, <1>6
  DEF VerifyNext, EnrolNext, CoderDies, sessions, Verify, ChargeVerifyFails, NotEnrolled,
      DestroyPendingSession, Enroll, WriteEnrolment, Enable, ChargeEnableFails

LEMMA NextGuessesPaid ==
    ASSUME IInv, OnOpened, GuessesPaid, [Next]_vars
    PROVE  GuessesPaid'
<1> SUFFICES ASSUME NEW s \in pending' PROVE Paid(s)'
  BY DEF GuessesPaid, Paid
<1>1. ASSUME NEW l \in Logins, Open(l) PROVE Paid(s)'
  <2>1. /\ pending' \subseteq pending \cup {l} /\ guesses' = guesses /\ spent' = spent /\ coder' = coder
        /\ guesses[l] = 0 /\ Guessing(l) = {}
    BY <1>1, OpenAbout
  <2>2. Paid(l)
    <3>1. IsFiniteSet({}) /\ Cardinality({}) = 0 /\ spent[l] \in 0..MaxCodes
      BY FS_EmptySet DEF IInv, SessionsOK
    <3>2. QED
      BY <2>1, <3>1, SignInAssumption DEF Paid
  <2>3. Paid(s)
    BY <2>1, <2>2 DEF GuessesPaid, Paid
  <2>4. QED
    BY <2>1, <2>3 DEF Paid, Guessing
<1>2. ASSUME NEW c \in Coders, VerifyNext(c) \/ EnrolNext(c) \/ CoderDies(c) PROVE Paid(s)'
  <2>1. s \in pending
    BY <1>2, CoderAbout
  <2>2. Paid(s)
    BY <2>1 DEF GuessesPaid, Paid
  <2>3. QED
    BY <1>2, <2>1, <2>2, CoderPaid
<1>3. CASE UNCHANGED <<coder, pending, guesses, spent>>
  BY <1>3 DEF GuessesPaid, Paid, Guessing
<1>4. QED
  BY <1>1, <1>2, <1>3
  DEF Next, vars, sessions, history, LoginNext, LookUp, Charge, LoginDies, Logout, LogoutAll, Disable, Reenable, Tick

CodesInv == OnOpened /\ GuessesPaid
PasswordsInv == Timely /\ Budgeted

LEMMA InitBudgets == Init => PasswordsInv /\ CodesInv
<1> SUFFICES ASSUME Init PROVE PasswordsInv /\ CodesInv
  OBVIOUS
<1> USE SignInAssumption DEF Init, Fresh
<1>1. Timely
  BY DEF Timely
<1>2. Budgeted
  <2>1. Spenders = {} /\ Recent = {}
    BY DEF Spenders, Recent
  <2>2. QED
    BY <2>1, FS_EmptySet DEF Budgeted
<1>3. OnOpened /\ GuessesPaid
  BY DEF OnOpened, GuessesPaid, Asked, OfEnrolment
<1>4. QED
  BY <1>1, <1>2, <1>3 DEF PasswordsInv, CodesInv

LEMMA NextBudgets ==
    ASSUME IInv, PasswordsInv, CodesInv, [Next]_vars
    PROVE  PasswordsInv' /\ CodesInv' /\ LockEarned
<1>1. Budgeted' /\ LockEarned
  <2>1. CASE \E l \in Logins : Charge(l)
    BY <2>1, ChargeBudget DEF PasswordsInv
  <2>2. CASE \A l \in Logins : ~Charge(l)
    BY <2>2, BudgetKept DEF PasswordsInv
  <2>3. QED
    BY <2>1, <2>2
<1>2. Timely' /\ OnOpened' /\ GuessesPaid'
  BY NextTimely, NextOnOpened, NextGuessesPaid DEF PasswordsInv, CodesInv
<1>3. QED
  BY <1>1, <1>2 DEF PasswordsInv, CodesInv

\* The two budgets are within their limits whenever the charges are what was used.
LEMMA BudgetsBound ==
    ASSUME IInv, PasswordsInv, CodesInv
    PROVE  GuessesBounded
<1> USE SignInAssumption DEF IInv
<1>1. Cardinality(Recent) <= Threshold
  <2>1. Recent \subseteq Spenders /\ IsFiniteSet(Spenders)
    BY DEF Recent, Spenders, PasswordsInv, Budgeted
  <2>2. Cardinality(Recent) \in Nat
    BY <2>1, FS_Subset, FS_CardinalityType
  <2>3. budget.attempts \in 0..Threshold
    BY DEF AccountOK, Budgets
  <2>4. QED
    BY <2>2, <2>3 DEF PasswordsInv, Budgeted
<1>2. ASSUME NEW s \in pending PROVE guesses[s] <= MaxCodes
  <2>1. guesses[s] \in Nat /\ spent[s] \in 0..MaxCodes
    BY DEF SessionsOK, HistoryOK
  <2>2. IsFiniteSet(Guessing(s)) /\ guesses[s] + Cardinality(Guessing(s)) <= spent[s]
    BY DEF CodesInv, GuessesPaid
  <2>3. Cardinality(Guessing(s)) \in Nat
    BY <2>2, FS_CardinalityType
  <2>4. QED
    BY <2>1, <2>2, <2>3
<1>3. QED
  BY <1>1, <1>2 DEF GuessesBounded, Recent

\* However many logins and codes are sent at once, requests die, sessions end and
\* enrolments come and go, no more than Threshold passwords are verified against
\* the stored hash in any Lockout and no more than MaxCodes codes against a session
\* (login.go:19, mfa.go:19), and no account is locked for fewer than Threshold
\* attempts verified since its last lock or success (login.go:36).
THEOREM BudgetsAlwaysHold == Spec => BudgetsHold
<1>1. IInv /\ PasswordsInv /\ CodesInv /\ [Next]_vars => PasswordsInv' /\ CodesInv'
  BY NextBudgets
<1>2. IInv /\ PasswordsInv /\ CodesInv /\ [Next]_vars => [LockEarned]_vars
  BY NextBudgets
<1>3. IInv /\ PasswordsInv /\ CodesInv => GuessesBounded
  BY BudgetsBound
<1>4. Spec => [][LockEarned]_vars /\ []GuessesBounded
  BY <1>1, <1>2, <1>3, InitBudgets, Invariance, PTL DEF Spec
<1>5. QED
  BY <1>4, PTL DEF BudgetsHold

=============================================================================
