------------------------------- MODULE Relay -------------------------------
(***************************************************************************)
(* What the layers between a browser and a service do to a call and to its *)
(* outcome: the Connect bridge of gateway-in, the route registry and the   *)
(* browser clients of gateway-out, and the internal adapters of the User,  *)
(* Files and Auth services with the status sanitizer of their servers.     *)
(*                                                                         *)
(* A status is a code and the reason of its ErrorInfo detail. A refusal by *)
(* a service becomes an in-band failure of the browser message where the   *)
(* gateway knows it, and travels as an OK result of the tunnel; anything   *)
(* else becomes the result code of the tunnel.                             *)
(***************************************************************************)
EXTENDS TLC

Status(code, reason) == [code |-> code, reason |-> reason]
Bare(code) == Status(code, "")
OK == Bare("OK")

----------------------------------------------------------------------------
(* gateway-in: the public procedures, with the route each is sent over and *)
(* the failures of the browser message its handler lets through.           *)

Failures ==
    {"PROFILE_NOT_READY", "ADDRESS_NOT_FOUND", "ADDRESS_LIMIT_REACHED", "AVATAR_UNAVAILABLE", "VERSION_CONFLICT",
     "NOT_FOUND", "CONFLICT", "NOT_READY", "INVALID_INPUT", "CODE_MISMATCH", "INVALID_CREDENTIALS", "LOGIN_LOCKED",
     "CODE_REISSUED", "CODE_EXPIRED", "TOKEN_EXPIRED", "TOKEN_USED", "EMAIL_UNVERIFIED", "CODE_REQUIRED",
     "NEW_DEVICE_COOLDOWN", "RATE_LIMITED"}

Only(route, lets) == [route |-> route, lets |-> lets]
Over(route) == Only(route, Failures)

NewAccountAvatarHandler ==
    [GetMe |-> Over("USER_BROWSER_GET_ME"),
     UpdateMe |-> Over("USER_BROWSER_UPDATE_ME")]

mountAddresses ==
    [ListAddresses |-> Over("USER_BROWSER_LIST_ADDRESSES"),
     CreateAddress |-> Over("USER_BROWSER_CREATE_ADDRESS"),
     UpdateAddress |-> Over("USER_BROWSER_UPDATE_ADDRESS"),
     DeleteAddress |-> Over("USER_BROWSER_DELETE_ADDRESS"),
     SetDefaultAddress |-> Over("USER_BROWSER_SET_DEFAULT_ADDRESS")]

mountAvatar ==
    LET changes == {"PROFILE_NOT_READY", "VERSION_CONFLICT", "AVATAR_UNAVAILABLE"}
    IN [GetAvatar |-> Only("USER_BROWSER_GET_AVATAR", {"PROFILE_NOT_READY"}),
        SetAvatar |-> Only("USER_BROWSER_SET_AVATAR", changes),
        ClearAvatar |-> Only("USER_BROWSER_CLEAR_AVATAR", changes)]

mountSettings ==
    [GetSettings |-> Only("USER_BROWSER_GET_SETTINGS", {"PROFILE_NOT_READY"}),
     UpdateSettings |-> Only("USER_BROWSER_UPDATE_SETTINGS", {"PROFILE_NOT_READY", "VERSION_CONFLICT"})]

NewFileHandler ==
    [CreateUpload |-> Over("FILE_CREATE_UPLOAD"),
     CompleteUpload |-> Over("FILE_COMPLETE_UPLOAD"),
     GetStatus |-> Over("FILE_GET_STATUS"),
     CreateDownload |-> Over("FILE_CREATE_DOWNLOAD"),
     Delete |-> Over("FILE_DELETE")]

\* Logout keeps the route that revoked the caller's own session.
NewAuthHandler ==
    [RegisterCredentials |-> Over("AUTH_REGISTER_CREDENTIALS"),
     Login |-> Over("AUTH_LOGIN"),
     RefreshSession |-> Over("AUTH_REFRESH_SESSION"),
     Logout |-> Over("AUTH_REVOKE_SESSION"),
     LogoutAll |-> Over("AUTH_LOGOUT_ALL"),
     StartLoginCodeChange |-> Over("AUTH_START_LOGIN_CODE_CHANGE"),
     CompleteLoginCodeChange |-> Over("AUTH_COMPLETE_LOGIN_CODE_CHANGE"),
     ChangePassword |-> Over("AUTH_CHANGE_PASSWORD"),
     StartLogin |-> Over("AUTH_START_LOGIN"),
     CompleteLogin |-> Over("AUTH_COMPLETE_LOGIN"),
     ResendLoginCode |-> Over("AUTH_RESEND_LOGIN_CODE"),
     RequestEmailVerification |-> Over("AUTH_REQUEST_EMAIL_VERIFICATION"),
     ConfirmEmail |-> Over("AUTH_CONFIRM_EMAIL"),
     RequestPasswordReset |-> Over("AUTH_REQUEST_PASSWORD_RESET"),
     ConfirmPasswordReset |-> Over("AUTH_CONFIRM_PASSWORD_RESET"),
     GetCredentials |-> Over("AUTH_GET_CREDENTIALS"),
     StartEmailChange |-> Over("AUTH_START_EMAIL_CHANGE"),
     ConfirmEmailChange |-> Over("AUTH_CONFIRM_EMAIL_CHANGE"),
     CancelEmailChange |-> Over("AUTH_CANCEL_EMAIL_CHANGE"),
     ListSessions |-> Over("AUTH_LIST_SESSIONS"),
     RevokeSession |-> Over("AUTH_REVOKE_OWNED_SESSION"),
     RequestAccountDeletion |-> Over("AUTH_REQUEST_ACCOUNT_DELETION"),
     CancelAccountDeletion |-> Over("AUTH_CANCEL_ACCOUNT_DELETION")]

Handlers ==
    NewAccountAvatarHandler @@ mountAddresses @@ mountAvatar @@ mountSettings @@ NewFileHandler @@ NewAuthHandler

----------------------------------------------------------------------------
(* gateway-out: the method a route invokes, and whether it is marked as    *)
(* mutating: a call of such a route is never replayed.                     *)

Reads(method) == [method |-> method, mutating |-> FALSE]
Writes(method) == [method |-> method, mutating |-> TRUE]

userRoutes == [USER_BROWSER_GET_ME |-> Reads("GetMe"), USER_BROWSER_UPDATE_ME |-> Writes("UpdateMe")]

addressRoutes ==
    [USER_BROWSER_LIST_ADDRESSES |-> Reads("ListAddresses"),
     USER_BROWSER_CREATE_ADDRESS |-> Writes("CreateAddress"),
     USER_BROWSER_UPDATE_ADDRESS |-> Writes("UpdateAddress"),
     USER_BROWSER_DELETE_ADDRESS |-> Writes("DeleteAddress"),
     USER_BROWSER_SET_DEFAULT_ADDRESS |-> Writes("SetDefaultAddress")]

avatarRoutes ==
    [USER_BROWSER_GET_AVATAR |-> Reads("GetAvatar"),
     USER_BROWSER_SET_AVATAR |-> Writes("SetAvatar"),
     USER_BROWSER_CLEAR_AVATAR |-> Writes("ClearAvatar")]

settingsRoutes ==
    [USER_BROWSER_GET_SETTINGS |-> Reads("GetSettings"), USER_BROWSER_UPDATE_SETTINGS |-> Writes("UpdateSettings")]

fileRoutes ==
    [FILE_CREATE_UPLOAD |-> Writes("CreateUpload"),
     FILE_COMPLETE_UPLOAD |-> Writes("CompleteUpload"),
     FILE_GET_STATUS |-> Reads("GetStatus"),
     FILE_CREATE_DOWNLOAD |-> Reads("CreateDownload"),
     FILE_DELETE |-> Writes("Delete")]

authRoutes ==
    [AUTH_REGISTER_CREDENTIALS |-> Writes("RegisterCredentials"),
     AUTH_LOGIN |-> Writes("Login"),
     AUTH_REFRESH_SESSION |-> Writes("RefreshSession"),
     AUTH_REVOKE_SESSION |-> Writes("Logout"),
     AUTH_LOGOUT_ALL |-> Writes("LogoutAll"),
     AUTH_START_LOGIN_CODE_CHANGE |-> Writes("StartLoginCodeChange"),
     AUTH_COMPLETE_LOGIN_CODE_CHANGE |-> Writes("CompleteLoginCodeChange"),
     AUTH_CHANGE_PASSWORD |-> Writes("ChangePassword"),
     AUTH_START_LOGIN |-> Writes("StartLogin"),
     AUTH_COMPLETE_LOGIN |-> Writes("CompleteLogin"),
     AUTH_RESEND_LOGIN_CODE |-> Writes("ResendLoginCode"),
     AUTH_REQUEST_EMAIL_VERIFICATION |-> Writes("RequestEmailVerification"),
     AUTH_CONFIRM_EMAIL |-> Writes("ConfirmEmail"),
     AUTH_REQUEST_PASSWORD_RESET |-> Writes("RequestPasswordReset"),
     AUTH_CONFIRM_PASSWORD_RESET |-> Writes("ConfirmPasswordReset"),
     AUTH_GET_CREDENTIALS |-> Writes("GetCredentials"),
     AUTH_START_EMAIL_CHANGE |-> Writes("StartEmailChange"),
     AUTH_CONFIRM_EMAIL_CHANGE |-> Writes("ConfirmEmailChange"),
     AUTH_CANCEL_EMAIL_CHANGE |-> Writes("CancelEmailChange"),
     AUTH_LIST_SESSIONS |-> Writes("ListSessions"),
     AUTH_REVOKE_OWNED_SESSION |-> Writes("RevokeSession"),
     AUTH_REQUEST_ACCOUNT_DELETION |-> Writes("RequestAccountDeletion"),
     AUTH_CANCEL_ACCOUNT_DELETION |-> Writes("CancelAccountDeletion")]

Routes == userRoutes @@ addressRoutes @@ avatarRoutes @@ settingsRoutes @@ fileRoutes @@ authRoutes

MethodsOf(routes) == {routes[r].method : r \in DOMAIN routes}
ProfileMethods == MethodsOf(userRoutes)
AddressMethods == MethodsOf(addressRoutes)
AvatarMethods == MethodsOf(avatarRoutes)
SettingsMethods == MethodsOf(settingsRoutes)
UserMethods == ProfileMethods \cup AddressMethods \cup AvatarMethods \cup SettingsMethods
FileMethods == MethodsOf(fileRoutes)
AuthMethods == MethodsOf(authRoutes)
MutatingMethods == {Routes[r].method : r \in {r \in DOMAIN Routes : Routes[r].mutating}}

\* The method that serves a public procedure.
MethodOf(p) == Routes[Handlers[p].route].method

----------------------------------------------------------------------------
(* The services: an application error becomes a status.                    *)

mapError(e) ==
    CASE e = "ErrUnauthenticated" -> Bare("Unauthenticated")
      [] e = "ErrForbidden" -> Bare("PermissionDenied")
      [] e = "ErrInvalid" -> Bare("InvalidArgument")
      [] e = "ErrNotReady" -> Status("NotFound", "PROFILE_NOT_READY")
      [] e = "ErrConflict" -> Bare("Aborted")
      [] e \in {"Canceled", "DeadlineExceeded"} -> Bare(e)
      [] OTHER -> Bare("Unavailable")

addressError(e) ==
    CASE e = "ErrNotFound" -> Status("NotFound", "ADDRESS_NOT_FOUND")
      [] e = "ErrLimit" -> Status("ResourceExhausted", "ADDRESS_LIMIT_REACHED")
      [] OTHER -> mapError(e)

settingsError(e) == mapError(e)

avatarError(e) ==
    IF e = "ErrUnavailable" THEN Bare("FailedPrecondition") ELSE mapError(e)

filesError(e) ==
    CASE e = "ErrLimit" -> Bare("ResourceExhausted")
      [] e = "ErrNotFound" -> Bare("NotFound")
      [] e \in {"ErrNotReady", "ErrRejected"} -> Bare("FailedPrecondition")
      [] OTHER -> mapError(e)

\* Auth: the closed list of refusals a browser is told by name.
AuthFailureCode(reason) ==
    CASE reason \in {"INVALID_INPUT", "CODE_MISMATCH"} -> "InvalidArgument"
      [] reason = "INVALID_CREDENTIALS" -> "Unauthenticated"
      [] reason \in {"LOGIN_LOCKED", "CODE_REISSUED", "CODE_EXPIRED", "TOKEN_EXPIRED", "TOKEN_USED",
                     "EMAIL_UNVERIFIED", "CODE_REQUIRED", "NEW_DEVICE_COOLDOWN"} -> "FailedPrecondition"
      [] reason = "RATE_LIMITED" -> "ResourceExhausted"
      [] reason = "NOT_FOUND" -> "NotFound"
      [] OTHER -> "Internal"

securityFailure(e) ==
    CASE e \in {"Canceled", "DeadlineExceeded"} -> Bare(e)
      [] AuthFailureCode(e) # "Internal" -> Status(AuthFailureCode(e), e)
      [] OTHER -> Bare("Unavailable")

\* Auth's private adapter: a named refusal is answered in band.
browserAuthFailure(s) ==
    IF s.reason # "" /\ AuthFailureCode(s.reason) = s.code THEN s.reason ELSE ""

browserFailure(s) ==
    Bare(IF s.code \in {"InvalidArgument", "Unauthenticated", "Unimplemented", "Unavailable",
                        "Canceled", "DeadlineExceeded"}
         THEN s.code ELSE "Internal")

\* Each handler of the adapter checks the workload and the envelope, and calls
\* the public handler with the browser's headers.
BrowserHandler(e) ==
    CASE e = "denied" -> Bare("Unauthenticated")
      [] e = "malformed" -> Bare("InvalidArgument")
      [] OTHER ->
           LET s == securityFailure(e)
           IN IF browserAuthFailure(s) # "" THEN Status("OK", browserAuthFailure(s)) ELSE browserFailure(s)

\* The status interceptor of a server keeps the code, and of the details only
\* the reasons declared for that method.
publicErrors(m) ==
    CASE m \in AddressMethods ->
           {Status("NotFound", "PROFILE_NOT_READY"), Status("NotFound", "ADDRESS_NOT_FOUND"),
            Status("ResourceExhausted", "ADDRESS_LIMIT_REACHED")}
      [] m \in UserMethods \ AddressMethods -> {Status("NotFound", "PROFILE_NOT_READY")}
      [] OTHER -> {}

sanitizeCode(code) == IF code = "Unknown" THEN "Internal" ELSE code

sanitizedMethodStatusError(m, s) ==
    IF s.code = "OK" \/ s \in publicErrors(m) THEN s ELSE Bare(sanitizeCode(s.code))

\* What a service answers to gateway-out for the error of its use case; the
\* named refusals of Auth are answered in band, as an OK status with a reason.
Answered(m, e) ==
    CASE e = "" -> OK
      [] e # "" /\ m \in AuthMethods -> sanitizedMethodStatusError(m, BrowserHandler(e))
      [] e # "" /\ m \in AddressMethods -> sanitizedMethodStatusError(m, addressError(e))
      [] e # "" /\ m \in AvatarMethods -> sanitizedMethodStatusError(m, avatarError(e))
      [] e # "" /\ m \in SettingsMethods -> sanitizedMethodStatusError(m, settingsError(e))
      [] e # "" /\ m \in ProfileMethods -> sanitizedMethodStatusError(m, mapError(e))
      [] e # "" /\ m \in FileMethods -> sanitizedMethodStatusError(m, filesError(e))

----------------------------------------------------------------------------
(* gateway-out: the status of a call becomes a failure of the browser      *)
(* message, or the error of the invocation.                                *)

userFailure(s, update) ==
    CASE update /\ s.code = "Aborted" -> "VERSION_CONFLICT"
      [] s = Status("NotFound", "PROFILE_NOT_READY") -> "PROFILE_NOT_READY"
      [] OTHER -> ""

addressBrowserFailure(s, mutating) ==
    IF userFailure(s, mutating) # "" THEN userFailure(s, mutating)
    ELSE IF s \in {Status("NotFound", "ADDRESS_NOT_FOUND"), Status("ResourceExhausted", "ADDRESS_LIMIT_REACHED")}
         THEN s.reason ELSE ""

invokeAvatar(s, mutating) ==
    IF mutating /\ s.code = "FailedPrecondition" THEN "AVATAR_UNAVAILABLE" ELSE userFailure(s, mutating)

fileFailure(s) ==
    CASE s.code = "NotFound" -> "NOT_FOUND"
      [] s.code = "Aborted" -> "CONFLICT"
      [] s.code = "FailedPrecondition" -> "NOT_READY"
      [] OTHER -> ""

userBrowserClient(m, s) ==
    LET mutating == m \in MutatingMethods
    IN CASE m \in AddressMethods -> addressBrowserFailure(s, mutating)
         [] m \in AvatarMethods -> invokeAvatar(s, mutating)
         [] m \in ProfileMethods \cup SettingsMethods -> userFailure(s, mutating)
         [] OTHER -> ""

\* The routes of Files, and behind them those of User. The adapter of Auth has
\* put its failures in band itself.
fileBrowserClient(m, s) == IF m \in FileMethods THEN fileFailure(s) ELSE userBrowserClient(m, s)

safeResultCode(code) ==
    IF code \in {"Canceled", "InvalidArgument", "DeadlineExceeded", "NotFound", "AlreadyExists", "PermissionDenied",
                 "ResourceExhausted", "Aborted", "Unavailable", "Unauthenticated"}
    THEN code ELSE "Internal"

resultCode(code) == IF code \in {"AlreadyExists", "Aborted"} THEN "CONFLICT" ELSE code

\* What comes back over the tunnel: a failure in band, or a result code.
Result(m, s) ==
    IF s.code = "OK" THEN [code |-> "OK", failure |-> s.reason]
    ELSE IF fileBrowserClient(m, s) # "" THEN [code |-> "OK", failure |-> fileBrowserClient(m, s)]
    ELSE [code |-> resultCode(safeResultCode(s.code)), failure |-> ""]

----------------------------------------------------------------------------
(* gateway-in: what the browser is told.                                   *)

connectCode(code) == IF code = "CONFLICT" THEN "AlreadyExists" ELSE code

mapTunnelError(e) ==
    CASE e \in {"Canceled", "DeadlineExceeded"} -> Bare(e)
      [] e = "ErrQueueFull" -> Bare("ResourceExhausted")
      [] e = "ErrRouteNotAllowed" -> Bare("PermissionDenied")
      [] e \in {"ErrNoTunnel", "ErrTunnelClosed", "ErrDraining"} -> Bare("Unavailable")
      [] OTHER -> Bare("Internal")

userAnswer(failure) ==
    CASE failure = "PROFILE_NOT_READY" -> Status("NotFound", failure)
      [] failure = "ADDRESS_NOT_FOUND" -> Status("NotFound", failure)
      [] failure = "ADDRESS_LIMIT_REACHED" -> Status("ResourceExhausted", failure)
      [] failure = "AVATAR_UNAVAILABLE" -> Bare("FailedPrecondition")
      [] failure = "VERSION_CONFLICT" -> Bare("Aborted")
      [] OTHER -> Bare("Internal")

fileAnswer(failure) ==
    CASE failure = "NOT_FOUND" -> Bare("NotFound")
      [] failure = "CONFLICT" -> Bare("Aborted")
      [] failure = "NOT_READY" -> Bare("FailedPrecondition")
      [] OTHER -> Bare("Internal")

authFailure(failure) ==
    IF AuthFailureCode(failure) = "Internal" THEN Bare("Internal") ELSE Status(AuthFailureCode(failure), failure)

\* A failure the handler does not expect is an internal error.
mountUser(p, result) ==
    CASE result.code # "OK" -> Bare(connectCode(result.code))
      [] result.code = "OK" /\ result.failure = "" -> OK
      [] OTHER -> IF result.failure \in Handlers[p].lets THEN userAnswer(result.failure) ELSE Bare("Internal")

mountFile(result) ==
    CASE result.code # "OK" -> Bare(connectCode(result.code))
      [] result.code = "OK" /\ result.failure = "" -> OK
      [] OTHER -> fileAnswer(result.failure)

mountAuth(result) ==
    CASE result.code # "OK" -> Bare(connectCode(result.code))
      [] result.code = "OK" /\ result.failure = "" -> OK
      [] OTHER -> authFailure(result.failure)

Answer(p, result) ==
    CASE p \in DOMAIN NewFileHandler -> mountFile(result)
      [] p \in DOMAIN NewAuthHandler -> mountAuth(result)
      [] OTHER -> mountUser(p, result)
============================================================================
