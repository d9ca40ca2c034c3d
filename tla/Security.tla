------------------------------ MODULE Security ------------------------------
(***************************************************************************)
(* Account security in Auth: registration, login with an emailed code,     *)
(* email verification, password reset, change of password, of email and of *)
(* the login code, revocation of sessions, and the outbox that mails the   *)
(* codes and links.                                                        *)
(*                                                                         *)
(* Every operation is one transaction that holds the account's row         *)
(* (Store.WithAccount), so an operation is a function from the database to *)
(* the database; a transaction that fails changes nothing. One account is  *)
(* modelled. The secret a challenge mailed last is the number of that mail,  *)
(* so an earlier number is a code that was replaced and 0 is a guess.      *)
(* Notices carry no secret and are left out, and so is the deletion of an  *)
(* account, which no operation requests yet. `gen' counts the changes of   *)
(* credentials, `cancels' the cancelled changes of email, `uses' and       *)
(* `late' record how a challenge was accepted, and `tied' the purposes of  *)
(* which two challenges were ever mailed in one second, the unit of the    *)
(* service's clock: LatestChallenge then takes either.                     *)
(***************************************************************************)
EXTENDS Naturals, Sequences, Functions

CONSTANTS Emails, Passwords,
          FirstEmail,                \* the address the account is registered with
          CodeTTL, LinkTTL, VerifyTTL,   \* lives of a code, of a link, of a verification
          ResendDelay, Window,       \* resendDelay, window of the password limits
          Cooldown,                  \* age at which a session may close others
          AttemptLimit,              \* password attempts (5)
          MailBudget, CheckBudget,   \* mails (5) and checks (15) per window and purpose
          TriesPerCode, SendsPerCode,    \* wrong tries of one code (3), mails of a challenge (5)
          MaxTime, MaxMails, MaxSessions   \* bounds

ASSUME SecurityAssumption ==
    /\ FirstEmail \in Emails
    /\ "none" \notin Emails       \* stands for an account that does not exist
    /\ {CodeTTL, LinkTTL, VerifyTTL, Window, Cooldown, AttemptLimit, MailBudget, CheckBudget,
        MaxTime, MaxMails, MaxSessions} \subseteq Nat
    /\ {ResendDelay, TriesPerCode, SendsPerCode} \subseteq Nat \ {0}

VARIABLES clock, db

vars == <<clock, db>>

Links == {"verify", "reset", "change_email", "cancel_email"}
CodePurposes == {"login", "enable_code", "disable_code"}
Purposes == Links \cup CodePurposes
Reauth == <<"reauth", "account">>

NoAccount == [email |-> "none", password |-> "none", verified |-> FALSE, code |-> FALSE, rev |-> 0]

Init ==
    /\ clock = 0
    /\ db = [account |-> NoAccount, chal |-> <<>>, sessions |-> <<>>,
             limits |-> <<>>,
             gen |-> 0, cancels |-> 0, tied |-> {}]

Exists(d) == d.account # NoAccount

Limit(d, b) == IF b \in DOMAIN d.limits THEN d.limits[b] ELSE [n |-> 0, exp |-> clock]

SaveLimit(d, b, l) ==
    [d EXCEPT !.limits = [x \in DOMAIN d.limits \cup {b} |-> IF x = b THEN l ELSE d.limits[x]]]

\* Mutant: one reservation more than the limit.
ReserveOneMore(d, b, limit, window) ==
    LET n == Limit(d, b).n IN
    IF n > limit THEN [n |-> limit + 1, db |-> d]
    ELSE [n |-> n + 1, db |-> SaveLimit(d, b, [n |-> n + 1, exp |-> clock + window])]

\* unit.ReserveBudget: the counter of a window, one more than the limit when it is used up.
Reserve(d, b, limit, window) ==
    LET l == Limit(d, b)
        over == clock >= l.exp
        n == IF over THEN 0 ELSE l.n
        exp == IF over THEN clock + window ELSE l.exp
    IN  IF n >= limit THEN [n |-> limit + 1, db |-> d]
        ELSE [n |-> n + 1, db |-> SaveLimit(d, b, [n |-> n + 1, exp |-> exp])]

ResetAttempts(d, b) == [d EXCEPT !.limits = Restrict(@, DOMAIN @ \ {b})]

\* Challenge.Check
CheckChallenge(d, c, purpose) ==
    /\ d.chal[c].purpose = purpose
    /\ d.chal[c].rev = d.account.rev
    /\ ~d.chal[c].used
    /\ clock < d.chal[c].exp

\* unit.LatestChallenge: the last one sent, any of them on a tie (ids are random); 0 for none.
Latest(d, purpose) ==
    LET mine == {c \in DOMAIN d.chal : d.chal[c].purpose = purpose}
        last == {c \in mine : \A e \in mine : d.chal[e].sent <= d.chal[c].sent}
    IN  IF mine = {} THEN {0} ELSE last

RecentlySent(d, c) == c # 0 /\ clock - d.chal[c].sent < ResendDelay

NewChallenge(d, purpose, email, ttl, browser) ==
    [purpose |-> purpose, email |-> email, browser |-> browser,
     rev |-> d.account.rev, exp |-> clock + ttl, sent |-> clock, tries |-> 0, sends |-> 0,
     used |-> FALSE, gen |-> d.gen + d.cancels, uses |-> 0, late |-> FALSE]

\* tokenChallenge, SaveChallenge and Queue of its mail.
SendLink(d, c) ==
    [d EXCEPT !.chal = Append(@, [c EXCEPT !.sends = 1])]

\* UsedAt is set and saved.
Spend(d, c) ==
    [d EXCEPT !.chal[c].used = TRUE, !.chal[c].uses = @ + 1,
              !.chal[c].late = @ \/ d.chal[c].gen # d.gen + d.cancels]

\* Mutant: a changed credential does not outdate the challenges.
IncrementForgotten(d) == d

\* increment: outstanding challenges are invalidated.
Increment(d) == [d EXCEPT !.account.rev = @ + 1]

\* A change that must end what came before it.
NextGen(d) == [d EXCEPT !.gen = @ + 1]

Closed == [live |-> FALSE, created |-> 0, gen |-> 0]

\* unit.RevokeSessions
RevokeSessions(d) ==
    [d EXCEPT !.sessions = [s \in DOMAIN @ |-> Closed]]

\* Service.issue: unit.CreateSession; a notice is queued.
Issue(d) == [d EXCEPT !.sessions = Append(@, [live |-> TRUE, created |-> clock, gen |-> d.gen])]

-----------------------------------------------------------------------------
(* Codes *)

\* replaceCode: a new code for challenge c, unless it was sent too often or the mail
\* budget of its purpose is used up.
ReplaceCode(d, c) ==
    LET p == d.chal[c].purpose
        r == Reserve(d, <<"mail", p>>, MailBudget, CodeTTL)
    IN  CASE d.chal[c].sends >= SendsPerCode -> [ok |-> FALSE, db |-> d]
          [] r.n > MailBudget /\ d.chal[c].sends < SendsPerCode -> [ok |-> FALSE, db |-> r.db]
          [] OTHER ->
             [ok |-> TRUE,
              db |-> [r.db EXCEPT !.chal[c].tries = 0, !.chal[c].sends = @ + 1,
                                  !.chal[c].sent = clock]]

\* createCode
CreateCode(d, purpose) ==
    LET r == ReplaceCode([d EXCEPT !.chal = Append(@,
                             NewChallenge(d, purpose, d.account.email, CodeTTL, FALSE))],
                         Len(d.chal) + 1)
    IN  IF r.ok THEN r ELSE [ok |-> FALSE, db |-> [r.db EXCEPT !.chal = d.chal]]

\* checkCode: counts the check, compares, and after the last try of a code either ends
\* the challenge or sends another code.
CheckCode(d, c, purpose, code) ==
    LET r == Reserve(d, <<"check", purpose>>, CheckBudget, CodeTTL)
        tries == d.chal[c].tries + 1
        wrong == [r.db EXCEPT !.chal[c].tries = tries]
        again == ReplaceCode(wrong, c)
    IN  CASE ~CheckChallenge(d, c, purpose) -> [ok |-> FALSE, db |-> d]
          [] CheckChallenge(d, c, purpose) /\ r.n > CheckBudget -> [ok |-> FALSE, db |-> r.db]
          [] CheckChallenge(d, c, purpose) /\ r.n <= CheckBudget ->
             IF code = d.chal[c].sends THEN [ok |-> TRUE, db |-> r.db]
             ELSE [ok |-> FALSE,
                   db |-> IF tries < TriesPerCode THEN wrong
                          ELSE IF d.chal[c].sends >= SendsPerCode
                               THEN [wrong EXCEPT !.chal[c].used = TRUE]
                          ELSE IF again.ok THEN again.db
                          ELSE [again.db EXCEPT !.chal[c].tries = d.chal[c].tries]]

-----------------------------------------------------------------------------
(* Registration and login *)

\* Service.RegisterBrowser and Store.Register; an address that is taken changes nothing.
Register(d, p) ==
    IF Exists(d) THEN d
    ELSE LET a == [email |-> FirstEmail, password |-> p, verified |-> FALSE,
                   code |-> TRUE, rev |-> 1]
             e == [d EXCEPT !.account = a]
         IN  SendLink(e, NewChallenge(e, "verify", FirstEmail, VerifyTTL, TRUE))

\* Service.Login; l is the latest login challenge. A new code that may not be mailed
\* rolls the transaction back, a replaced one does not.
Login(d, e, p, allowChallenge, l) ==
    LET bucket == <<"password", e>>
        r == Reserve(d, bucket, AttemptLimit, Window)
        in == ResetAttempts(r.db, bucket)
        valid == e = d.account.email /\ p = d.account.password
        fresh == CreateCode(in, "login")
    IN  CASE r.n > AttemptLimit -> r.db
          [] r.n <= AttemptLimit /\ ~valid -> r.db
          [] r.n <= AttemptLimit /\ valid ->
             IF ~d.account.verified \/ (d.account.code /\ ~allowChallenge) THEN in
             ELSE IF ~d.account.code THEN Issue(in)
             ELSE IF l # 0 /\ CheckChallenge(in, l, "login")
                  THEN IF RecentlySent(in, l) THEN in ELSE ReplaceCode(in, l).db
             ELSE IF fresh.ok THEN fresh.db ELSE d

\* Service.CompleteLogin
CompleteLogin(d, c, code) ==
    LET r == CheckCode(d, c, "login", code) IN
    IF r.ok /\ d.account.verified /\ d.account.code THEN Issue(Spend(r.db, c)) ELSE r.db

\* Service.ResendCode
ResendCode(d, c) ==
    IF CheckChallenge(d, c, "login") /\ ~RecentlySent(d, c) THEN ReplaceCode(d, c).db ELSE d

-----------------------------------------------------------------------------
(* Links *)

\* Mutant: the link asked for before stays good.
RequestTokenKeepsOld(d, purpose, l) ==
    LET ttl == IF purpose = "reset" THEN LinkTTL ELSE VerifyTTL IN
    IF ~Exists(d) \/ (purpose = "verify" /\ d.account.verified) \/ RecentlySent(d, l) THEN d
    ELSE SendLink(d, NewChallenge(d, purpose, d.account.email, ttl, FALSE))

\* Service.RequestToken; l is the latest challenge of the purpose. A verification asked
\* for again keeps the browser and the deadline of the one it replaces.
RequestToken(d, purpose, l) ==
    LET ttl == IF purpose = "reset" THEN LinkTTL ELSE VerifyTTL
        bound == l # 0 /\ purpose = "verify" /\ CheckChallenge(d, l, purpose) /\ d.chal[l].browser
        e == IF l = 0 THEN d ELSE [d EXCEPT !.chal[l].used = TRUE]
        c == NewChallenge(d, purpose, d.account.email, ttl, bound)
    IN  IF ~Exists(d) \/ (purpose = "verify" /\ d.account.verified) \/ RecentlySent(d, l) THEN d
        ELSE SendLink(e, IF bound THEN [c EXCEPT !.exp = d.chal[l].exp] ELSE c)

\* confirmToken, before what the purpose does.
Confirms(d, c, purpose, secret) == CheckChallenge(d, c, purpose) /\ secret = d.chal[c].sends

\* Service.ConfirmRegistration: the link verifies, the link and the browser also log in.
ConfirmRegistration(d, c, secret, browser) ==
    IF Confirms(d, c, "verify", secret) /\ d.account.email = d.chal[c].email /\ ~d.account.verified
    THEN LET e == Spend([d EXCEPT !.account.verified = TRUE], c)
         IN  IF browser /\ d.chal[c].browser THEN Issue(e) ELSE e
    ELSE d

\* Mutant: the sessions opened with the forgotten password stay open.
ResetPasswordOnly(d, c, secret, p) ==
    IF Confirms(d, c, "reset", secret) /\ d.account.email = d.chal[c].email
    THEN [NextGen(Increment(Spend(d, c))) EXCEPT !.account.password = p, !.account.verified = TRUE]
    ELSE d

\* Service.ResetPassword
ResetPassword(d, c, secret, p) ==
    IF Confirms(d, c, "reset", secret) /\ d.account.email = d.chal[c].email
    THEN RevokeSessions([NextGen(Increment(Spend(d, c))) EXCEPT !.account.password = p,
                                                                 !.account.verified = TRUE])
    ELSE d

\* Service.ConfirmEmailChange
ConfirmEmailChange(d, c, secret) ==
    IF Confirms(d, c, "change_email", secret)
    THEN RevokeSessions([NextGen(Increment(Spend(d, c))) EXCEPT !.account.email = d.chal[c].email,
                                                                 !.account.verified = TRUE])
    ELSE d

\* Service.CancelEmailChange
CancelEmailChange(d, c, secret) ==
    IF Confirms(d, c, "cancel_email", secret) 
    THEN [Increment(Spend(d, c)) EXCEPT !.cancels = @ + 1]
    ELSE d

-----------------------------------------------------------------------------
(* Operations of a session's owner *)

\* withOwner and unit.CheckSession: the actor was authenticated before the transaction
\* began; the session is looked at again inside it. Its expiry and its version are left out:
\* they only refuse an owner more often, with nothing changed.
Owns(d, s) == d.sessions[s].live

\* verifyPassword
VerifyPassword(d, p) ==
    LET r == Reserve(d, Reauth, AttemptLimit, Window) IN
    IF r.n > AttemptLimit \/ p # d.account.password THEN [ok |-> FALSE, db |-> r.db]
    ELSE [ok |-> TRUE, db |-> ResetAttempts(r.db, Reauth)]

\* Service.ChangePassword
ChangePassword(d, s, old, new) ==
    LET r == VerifyPassword(d, old) IN
    IF ~Owns(d, s) THEN d
    ELSE IF ~r.ok THEN r.db
    ELSE RevokeSessions([NextGen(Increment(r.db)) EXCEPT !.account.password = new])

\* Service.StartEmailChange; l is the latest change: one link confirms at the new
\* address, one cancels at the old.
StartEmailChange(d, s, e, p, l) ==
    LET r == VerifyPassword(d, p)
        i == Increment(r.db)
        confirm == NewChallenge(i, "change_email", e, LinkTTL, FALSE)
        cancel == NewChallenge(i, "cancel_email", d.account.email, LinkTTL, FALSE)
    IN  IF ~Owns(d, s) THEN d
        ELSE IF ~r.ok \/ e = d.account.email \/ ~d.account.verified \/ RecentlySent(d, l) THEN r.db
        ELSE SendLink(SendLink(i, confirm), cancel)

TogglePurpose(enabled) == IF enabled THEN "enable_code" ELSE "disable_code"

\* Service.StartCodeChange; l is the latest challenge of the purpose.
StartCodeChange(d, s, p, enabled, l) ==
    LET r == VerifyPassword(d, p)
        purpose == TogglePurpose(enabled)
    IN  IF ~Owns(d, s) THEN d
        ELSE IF ~r.ok \/ ~d.account.verified \/ d.account.code = enabled THEN r.db
        ELSE IF l # 0 /\ CheckChallenge(d, l, purpose)
             THEN IF RecentlySent(d, l) THEN r.db ELSE ReplaceCode(r.db, l).db
        ELSE CreateCode(r.db, purpose).db

\* Service.CompleteCodeChange
CompleteCodeChange(d, s, c, code, enabled) ==
    LET r == CheckCode(d, c, TogglePurpose(enabled), code) IN
    IF ~Owns(d, s) THEN d
    ELSE IF ~r.ok THEN r.db
    ELSE RevokeSessions([NextGen(Increment(Spend(r.db, c))) EXCEPT !.account.code = enabled])

\* Service.RevokeSession: one's own at once, another one only from an older session.
RevokeSession(d, s, other) ==
    IF ~Owns(d, s) \/ (s # other /\ clock < d.sessions[s].created + Cooldown) THEN d
    ELSE [d EXCEPT !.sessions[other] = Closed]

\* Service.LogoutAll
LogoutAll(d, s) ==
    IF ~Owns(d, s) \/ clock < d.sessions[s].created + Cooldown THEN d ELSE RevokeSessions(d)

-----------------------------------------------------------------------------
Mails(d) == FoldFunction(LAMBDA c, n : c.sends + n, 0, d.chal)

\* The purposes with challenges between which the time of their last mail cannot choose.
Tied(d) ==
    {p \in Purposes : \E c, e \in DOMAIN d.chal :
        /\ c # e
        /\ d.chal[c].purpose = p /\ d.chal[e].purpose = p
        /\ d.chal[c].sent = d.chal[e].sent}

Tx(d) ==
    /\ d # db      \* a refusal that leaves the database alone is a stuttering step
    /\ Mails(d) <= MaxMails
    /\ Len(d.sessions) <= MaxSessions
    /\ db' = [d EXCEPT !.tied = @ \cup Tied(d)]
    /\ UNCHANGED clock

Challenges == DOMAIN db.chal
\* The challenge that is answered: one of another purpose is refused without effect.
Of(p) == {c \in Challenges : db.chal[c].purpose = p}
Sessions == DOMAIN db.sessions
\* What is entered for challenge c: the secret mailed last, or one it replaced (or a guess).
Sent(c) == {db.chal[c].sends - 1, db.chal[c].sends}
Entered == Passwords \cup {"wrong"}

\* Time passes, counted from the registration; the mail worker, which runs every second,
\* deletes counters whose window is over (ClaimMail).
Tick ==
    /\ Exists(db)
    /\ clock < MaxTime
    /\ clock' = clock + 1
    /\ db' = [db EXCEPT !.limits = Restrict(@, {b \in DOMAIN @ : @[b].exp > clock'})]

RegisterTx == \E p \in Passwords : Tx(Register(db, p))
\* Attempts at an address that is not the account's only touch that address's counter.
LoginTx ==
    \E p \in Entered, a \in BOOLEAN, l \in Latest(db, "login") :
        Tx(Login(db, IF Exists(db) THEN db.account.email ELSE FirstEmail, p, a, l))
CompleteLoginTx == \E c \in Of("login") : \E k \in Sent(c) : Tx(CompleteLogin(db, c, k))
ResendCodeTx == \E c \in Of("login") : Tx(ResendCode(db, c))
RequestTokenTx == \E p \in {"verify", "reset"} : \E l \in Latest(db, p) : Tx(RequestToken(db, p, l))
ConfirmRegistrationTx ==
    \E c \in Of("verify"), b \in BOOLEAN : \E k \in Sent(c) : Tx(ConfirmRegistration(db, c, k, b))
ResetPasswordTx ==
    \E c \in Of("reset"), p \in Passwords : \E k \in Sent(c) : Tx(ResetPassword(db, c, k, p))
ConfirmEmailChangeTx == \E c \in Of("change_email") : \E k \in Sent(c) : Tx(ConfirmEmailChange(db, c, k))
CancelEmailChangeTx == \E c \in Of("cancel_email") : \E k \in Sent(c) : Tx(CancelEmailChange(db, c, k))
ChangePasswordTx ==
    \E s \in Sessions, p \in Entered, q \in Passwords : Tx(ChangePassword(db, s, p, q))
StartEmailChangeTx ==
    \E s \in Sessions, e \in Emails, p \in Entered, l \in Latest(db, "change_email") :
        Tx(StartEmailChange(db, s, e, p, l))
StartCodeChangeTx ==
    \E s \in Sessions, p \in Entered, on \in BOOLEAN :
        \E l \in Latest(db, TogglePurpose(on)) : Tx(StartCodeChange(db, s, p, on, l))
CompleteCodeChangeTx ==
    \E s \in Sessions, on \in BOOLEAN : \E c \in Of(TogglePurpose(on)) : \E k \in Sent(c) :
        Tx(CompleteCodeChange(db, s, c, k, on))
RevokeSessionTx == \E s, o \in Sessions : Tx(RevokeSession(db, s, o))
LogoutAllTx == \E s \in Sessions : Tx(LogoutAll(db, s))

Next ==
    \/ Tick \/ RegisterTx \/ LoginTx \/ CompleteLoginTx \/ ResendCodeTx \/ RequestTokenTx
    \/ ConfirmRegistrationTx \/ ResetPasswordTx \/ ConfirmEmailChangeTx \/ CancelEmailChangeTx
    \/ ChangePasswordTx \/ StartEmailChangeTx \/ StartCodeChangeTx \/ CompleteCodeChangeTx
    \/ RevokeSessionTx \/ LogoutAllTx

Spec == Init /\ [][Next]_vars

-----------------------------------------------------------------------------
\* The limit of a counter (the arguments of ReserveBudget and ReserveAttempt).
BudgetOf(b) ==
    CASE b[1] = "mail" -> MailBudget [] b[1] = "check" -> CheckBudget [] OTHER -> AttemptLimit

\* The shape of the database, with the limits that hold in every state: a challenge is
\* mailed at most SendsPerCode times, no more wrong tries of a code are on record than a
\* code allows, and no counter passes its limit (replaceCode, checkCode, ReserveBudget).
TypeOK ==
    /\ clock \in 0..MaxTime
    /\ db.account = NoAccount \/ (db.account.email \in Emails /\ db.account.password \in Passwords)
    /\ \A c \in Challenges :
           /\ db.chal[c].purpose \in Purposes
           /\ db.chal[c].sends \in 1..SendsPerCode
           /\ db.chal[c].tries \in 0..(IF db.chal[c].used THEN TriesPerCode ELSE TriesPerCode - 1)
           /\ db.chal[c].rev <= db.account.rev
    /\ \A b \in DOMAIN db.limits : db.limits[b].n <= BudgetOf(b)

\* A changed password, a confirmed new email and a switched login code close every
\* session (ResetPassword, ChangePassword, ConfirmEmailChange, CompleteCodeChange with
\* RevokeSessions): whatever logins run beside the change, no open session was opened
\* under credentials that no longer hold.
CredentialChangeEndsSessions ==
    \A s \in Sessions : db.sessions[s].live => db.sessions[s].gen = db.gen

\* A code or a link is accepted at most once, and never after the credentials changed or
\* the change of email was cancelled since it was mailed (Challenge.Check, increment and
\* UsedAt under the account's lock): two confirmations give one session, and cancelling
\* a change of email kills the link that would confirm it.
SpentOnceInTime ==
    \A c \in Challenges : db.chal[c].uses <= 1 /\ ~db.chal[c].late

\* Of the challenges of one purpose at most one can still be accepted, however logins,
\* resends, requests and changes interleave (Login, RequestToken, StartEmailChange and
\* StartCodeChange replace, spend or outdate the latest one), unless LatestChallenge once
\* had to choose between two of the same second; that never happens to links, which are
\* not mailed twice within resendDelay.
OneLiveChallenge ==
    /\ db.tied \cap Links = {}
    /\ \A p \in Purposes \ db.tied : \A c, e \in Challenges :
           CheckChallenge(db, c, p) /\ CheckChallenge(db, e, p) => c = e
=============================================================================
