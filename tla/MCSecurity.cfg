SPECIFICATION Spec
CONSTANTS
    Emails = {"e1", "e2"}
    FirstEmail = "e1"
    Passwords = {"p"}
    CodeTTL = 2
    LinkTTL = 2
    VerifyTTL = 2
    ResendDelay = 1
    Window = 1
    Cooldown = 1
    AttemptLimit = 1
    MailBudget = 3
    CheckBudget = 2
    TriesPerCode = 2
    SendsPerCode = 2
    MaxTime = 2
    MaxMails = 4
    MaxSessions = 2
INVARIANTS TypeOK CredentialChangeEndsSessions SpentOnceInTime OneLiveChallenge
CHECK_DEADLOCK FALSE
