------------------------------ MODULE Account ------------------------------
(***************************************************************************)
(* A browser's calls to the account routes, from the Connect bridge of     *)
(* gateway-in through the tunnel and gateway-out to the service and back.  *)
(*                                                                         *)
(* The User service is modelled by what it stores: the versions of the     *)
(* profile, of the settings, of the avatar and of the address book, and    *)
(* the book itself. Of the Files and Auth routes only the relay is here;   *)
(* what those services store is in modules Files, AuthSession, Security.   *)
(*                                                                         *)
(* A call has two ends that fail apart. The browser's end may be answered  *)
(* by gateway-in because the tunnel broke, the deadline passed or a queue  *)
(* filled up, while the service's end is still on its way; and a service   *)
(* may commit without its caller learning of it.                           *)
(***************************************************************************)
EXTENDS Naturals, FiniteSets, Relay

CONSTANTS Calls,           \* calls of the browsers of one account
          Asked,           \* public procedures that are called
          AddressIds,
          MaxAddresses,    \* address.MaxAddresses
          MaxVersion,      \* bound: a request names a version up to it
          None

ASSUME IdsSuffice == Cardinality(AddressIds) > MaxAddresses

VARIABLES account, call

vars == <<account, call>>

Counters == {"profile", "settings", "avatar", "book"}

\* The version a method compares and increments.
Counter(m) ==
    CASE m = "UpdateMe" -> "profile"
      [] m = "UpdateSettings" -> "settings"
      [] m \in {"SetAvatar", "ClearAvatar"} -> "avatar"
      [] m \in AddressMethods \ {"ListAddresses"} -> "book"
      [] OTHER -> None

NewCall == [at |-> "browser", procedure |-> None, expected |-> 0, address |-> None,
            status |-> OK, applied |-> None, told |-> None]

\* Versions are counted from the first one the calls can name.
Init ==
    /\ \E ready \in BOOLEAN, book, primary \in SUBSET AddressIds :
         /\ primary \subseteq book /\ Cardinality(primary) <= 1
         /\ Cardinality(book) <= MaxAddresses
         /\ ready \/ book = {}
         /\ account = [ready |-> ready, version |-> [k \in Counters |-> 1], book |-> book, primary |-> primary]
    /\ call = [c \in Calls |-> NewCall]

\* The profile, with the versions' defaults, appears when the registration fact
\* arrives (module Registration).
Provision ==
    /\ ~account.ready
    /\ account' = [account EXCEPT !.ready = TRUE]
    /\ UNCHANGED call

----------------------------------------------------------------------------
(* gateway-in: the bridge and its end of the tunnel.                       *)

\* The storefront: the codes that the caller of a procedure takes for an outcome.
\* After any other error it reads the account again. It tells a conflict apart, of
\* an address also a reason, and of an avatar or a file nothing.
Definite(p) ==
    CASE p \in {"UpdateMe", "UpdateSettings"} -> {"InvalidArgument", "PermissionDenied", "ResourceExhausted", "Aborted"}
      [] p \in DOMAIN mountAddresses -> {"InvalidArgument", "PermissionDenied", "Aborted"}
      [] p \in DOMAIN NewAuthHandler -> {"Unauthenticated", "InvalidArgument", "PermissionDenied", "FailedPrecondition",
                                        "ResourceExhausted", "Unimplemented", "NotFound"}
      [] OTHER -> {}

\* What the storefront concludes from an answer: the call was done, it was refused,
\* or its outcome is unknown. A refusal read from a ResourceExhausted without a
\* reason is "exhausted": see AnswersAreTrue.
Told(p, s) ==
    CASE s = OK -> "done"
      [] s = Bare("ResourceExhausted") /\ s.code \in Definite(p) -> "exhausted"
      [] s.reason \in {"ADDRESS_NOT_FOUND", "ADDRESS_LIMIT_REACHED"} -> "refused"
      [] OTHER -> IF s # Bare("ResourceExhausted") /\ s.code \in Definite(p) THEN "refused" ELSE "unknown"

\* The handler checks the idempotency header, the browser context and the size; no
\* frame leaves when the registry refuses the call; and the request stays incomplete,
\* so that gateway-out calls nobody, when its lane is full before the last frame.
BridgeRefuses(c) ==
    /\ call[c].at = "browser"
    /\ \E p \in Asked, s \in {Bare("InvalidArgument"), Bare("ResourceExhausted")}
                 \cup {mapTunnelError(e) : e \in {"ErrNoTunnel", "ErrQueueFull", "ErrDraining", "ErrRouteNotAllowed"}} :
         call' = [call EXCEPT ![c] = [@ EXCEPT !.at = "done", !.told = Told(p, s)]]
    /\ UNCHANGED account

\* The call is opened on a tunnel.
Open(c, p, v, a) ==
    /\ call[c].at = "browser"
    /\ call' = [call EXCEPT ![c] =
                  [@ EXCEPT !.at = "gateway", !.procedure = p, !.expected = v, !.address = a]]
    /\ UNCHANGED account

\* gateway-in gives up on an open call: the tunnel closed, the browser left, the
\* deadline passed, or, for a part of the answer that has come, the lane was full
\* when it was to grant credit. gateway-out goes on with the call.
GiveUp(c) ==
    /\ call[c].at \in {"gateway", "service", "committed", "answered"} /\ call[c].told = None
    /\ \E e \in {"ErrTunnelClosed", "Canceled", "DeadlineExceeded", "ErrProtocolViolation"}
                 \cup (IF call[c].at = "answered" THEN {"ErrQueueFull"} ELSE {}) :
         call' = [call EXCEPT ![c] =
                    [@ EXCEPT !.told = Told(call[c].procedure, mapTunnelError(e)), !.status = OK]]
    /\ UNCHANGED account

----------------------------------------------------------------------------
(* gateway-out: the method of the route, the exchange of the browser's     *)
(* session for an assertion, and the call of the service.                  *)

Method(c) == MethodOf(call[c].procedure)

\* gateway-out has the status of its call. Nobody reads it once gateway-in has
\* given up.
Decide(c, s, m) ==
    call' = [call EXCEPT ![c] =
               [@ EXCEPT !.at = "answered", !.status = IF call[c].told = None THEN s ELSE OK,
                         !.applied = IF m = None THEN @ ELSE m]]

authenticate(c) ==
    /\ call[c].at = "gateway"
    /\ call' = [call EXCEPT ![c].at = "service"]
    /\ UNCHANGED account

\* A malformed envelope, a refused or failed exchange, an assertion that has
\* expired. The routes of Auth have no exchange.
authenticateFails(c) ==
    /\ call[c].at = "gateway"
    /\ \E code \in {"InvalidArgument", "Internal"}
                    \cup (IF Method(c) \in AuthMethods THEN {}
                          ELSE {"Unauthenticated", "Unavailable", "DeadlineExceeded", "Canceled"}) :
         Decide(c, Bare(code), None)
    /\ UNCHANGED account

----------------------------------------------------------------------------
(* The services.                                                           *)

\* The checks before anything is read: the workload, the assertion and its
\* session, the scopes, and the request. The end of the tunnel may also reach
\* gateway-out, and cancel the call, before the service has acted.
Refusals(m) ==
    {"Canceled", "DeadlineExceeded", "other"} \cup
    (IF m \in AuthMethods
     THEN {"denied", "malformed", "INVALID_INPUT", "INVALID_CREDENTIALS", "TOKEN_USED", "RATE_LIMITED", "NOT_FOUND"}
     ELSE {"ErrUnauthenticated", "ErrForbidden", "ErrInvalid"})

Refuse(c) ==
    /\ call[c].at = "service"
    /\ \E e \in Refusals(Method(c)) : Decide(c, Answered(Method(c), e), None)
    /\ UNCHANGED account

\* Mutant of Mutate: the version is read but not compared.
MutateUnversioned(m, v, a) ==
    CASE m # "CreateAddress" /\ a \notin account.book -> "ErrNotFound"
      [] m = "CreateAddress" /\ Cardinality(account.book) >= MaxAddresses -> "ErrLimit"
      [] OTHER -> ""

\* The address book: the transaction of one command under the profile's row lock.
Mutate(m, v, a) ==
    CASE v # account.version["book"] -> "ErrConflict"
      [] v = account.version["book"] /\ m # "CreateAddress" /\ a \notin account.book -> "ErrNotFound"
      [] v = account.version["book"] /\ m = "CreateAddress" ->
           IF Cardinality(account.book) >= MaxAddresses THEN "ErrLimit" ELSE ""
      [] OTHER -> ""

Book(m, a) ==
    CASE m = "CreateAddress" ->
           [account EXCEPT !.book = @ \cup {a}, !.primary = IF account.book = {} THEN {a} ELSE @]
      [] m = "DeleteAddress" -> [account EXCEPT !.book = @ \ {a}, !.primary = @ \ {a}]
      [] m = "SetDefaultAddress" -> [account EXCEPT !.primary = {a}]
      [] OTHER -> account

\* The single compare-and-set of the profile, of the settings and of the avatar.
Update(k, v) == IF v # account.version[k] THEN "ErrConflict" ELSE ""

\* The error of the use case, "" if it wrote.
Outcome(m, v, a) ==
    IF ~account.ready THEN "ErrNotReady"
    ELSE IF Counter(m) = "book" THEN Mutate(m, v, a) ELSE Update(Counter(m), v)

Written(m, a) ==
    [(IF Counter(m) = "book" THEN Book(m, a) ELSE account) EXCEPT !.version[Counter(m)] = @ + 1]

\* What the caller is told when a committed write is not acknowledged: an error
\* of the commit or of the connection.
Unacknowledged(m) ==
    {Answered(m, e) : e \in {"Canceled", "DeadlineExceeded", "other"}} \cup {Bare("Internal"), Bare("ResourceExhausted")}

\* The whole transaction of a versioned write of the User service. The identifier
\* of a new address is drawn at random.
Serve(c) ==
    LET m == Method(c)
        e == Outcome(m, call[c].expected, call[c].address)
    IN /\ call[c].at = "service" /\ Counter(m) # None
       /\ IF e = ""
          THEN /\ \E a \in IF m = "CreateAddress" THEN AddressIds \ account.book ELSE {call[c].address} :
                    account' = Written(m, a)
               /\ \E s \in {OK} \cup Unacknowledged(m) : Decide(c, s, m)
          ELSE Decide(c, Answered(m, e), None) /\ UNCHANGED account

\* The avatar's file is not there, not the owner's or not ready (module Avatars).
AvatarUnavailable(c) ==
    /\ call[c].at = "service" /\ Method(c) = "SetAvatar"
    /\ Decide(c, Answered("SetAvatar", "ErrUnavailable"), None)
    /\ UNCHANGED account

\* A read.
Read(c) ==
    /\ call[c].at = "service" /\ Method(c) \in UserMethods /\ Method(c) \notin MutatingMethods
    /\ Decide(c, Answered(Method(c), IF account.ready THEN "" ELSE "ErrNotReady"), None)
    /\ UNCHANGED account

\* Files and Auth: the operation is committed, or refused for a reason of its own.
\* Only the commit that the procedure is for counts as applying it: a refused
\* attempt may have been counted too (modules Files, AuthSession and Security).
CommitElsewhere(c) ==
    /\ call[c].at = "service" /\ Method(c) \in FileMethods \cup AuthMethods
    /\ call' = [call EXCEPT ![c].at = "committed", ![c].applied = Method(c)]
    /\ UNCHANGED account

RefuseElsewhere(c) ==
    /\ call[c].at = "service" /\ Method(c) \in FileMethods \cup AuthMethods
    /\ \E e \in IF Method(c) \in FileMethods
               THEN {"ErrLimit", "ErrNotFound", "ErrConflict", "ErrNotReady", "ErrRejected"}
               ELSE {"CODE_MISMATCH", "INVALID_CREDENTIALS", "CODE_EXPIRED", "NOT_FOUND"} :
         Decide(c, Answered(Method(c), e), None)
    /\ UNCHANGED account

\* The rest of the operation: it may fail after its commit. The intent of an upload
\* is committed before its storage upload is bound to it.
AnswerElsewhere(c) ==
    LET m == Method(c)
    IN /\ call[c].at = "committed"
       /\ \E s \in {OK} \cup Unacknowledged(m)
                    \cup {Answered(m, e) : e \in IF m = "CreateUpload" THEN {"ErrConflict"} ELSE {}} :
            Decide(c, s, None)
       /\ UNCHANGED account

----------------------------------------------------------------------------
(* The answer travels back.                                                *)

\* Mutant of Reply: the client of the service repeats a call that was unavailable.
ReplyRetries(c) ==
    LET old == call[c]
        heard == Told(old.procedure, Answer(old.procedure, Result(Method(c), old.status)))
    IN /\ old.at = "answered"
       /\ call' = [call EXCEPT ![c] =
                     IF old.status = Bare("Unavailable") THEN [old EXCEPT !.at = "service", !.status = OK]
                     ELSE [NewCall EXCEPT !.at = "done", !.applied = old.applied,
                                          !.procedure = IF heard = "done" THEN old.procedure ELSE None,
                                          !.expected = IF old.applied = None THEN 0 ELSE old.expected,
                                          !.told = IF old.told = None THEN heard ELSE old.told]]
       /\ UNCHANGED account

\* What the browser learns. Of a finished call only its write matters further.
Reply(c) ==
    LET old == call[c]
        heard == Told(old.procedure, Answer(old.procedure, Result(Method(c), old.status)))
    IN /\ old.at = "answered"
       /\ call' = [call EXCEPT ![c] =
                     [NewCall EXCEPT !.at = "done", !.applied = old.applied,
                                     !.procedure = IF heard = "done" THEN old.procedure ELSE None,
                                     !.expected = IF old.applied = None THEN 0 ELSE old.expected,
                                     !.told = IF old.told = None THEN heard ELSE old.told]]
       /\ UNCHANGED account

Next ==
    \/ Provision
    \/ \E c \in Calls : BridgeRefuses(c)
    \/ \E c \in Calls, p \in Asked :
         \E v \in IF Counter(p) = None THEN {0} ELSE 1..MaxVersion,
            a \in IF p \in {"UpdateAddress", "DeleteAddress", "SetDefaultAddress"} THEN AddressIds ELSE {None} :
              Open(c, p, v, a)
    \/ \E c \in Calls : GiveUp(c)
    \/ \E c \in Calls : authenticate(c)
    \/ \E c \in Calls : authenticateFails(c)
    \/ \E c \in Calls : Refuse(c)
    \/ \E c \in Calls : Serve(c)
    \/ \E c \in Calls : AvatarUnavailable(c)
    \/ \E c \in Calls : Read(c)
    \/ \E c \in Calls : CommitElsewhere(c)
    \/ \E c \in Calls : RefuseElsewhere(c)
    \/ \E c \in Calls : AnswerElsewhere(c)
    \/ \E c \in Calls : Reply(c)

Spec == Init /\ [][Next]_vars

----------------------------------------------------------------------------

\* AnswersAreTrue: a mutating call whose answer the storefront reads as success has
\* been applied, and it was the procedure the browser called; a call whose answer
\* it reads as a refusal has not been applied and never will be, whatever the ends
\* of the call did after the answer. Every layer of the relay maps the outcome
\* once, and gateway-out never repeats a call. A bare ResourceExhausted is read as
\* a refusal too, but gateway-in gives it also when it cannot grant the credit for
\* an answer it has begun to receive, and gateway-out for a result over the limit:
\* the service may have acted, and all that holds is that it will not act later.
AnswersAreTrue ==
    \A c \in Calls :
      /\ call[c].told = "done" /\ call[c].procedure \in MutatingMethods => call[c].applied = call[c].procedure
      /\ call[c].told = "refused" => call[c].applied = None
      /\ call[c].told = "exhausted" => call[c].at \in {"answered", "done"}

Writers(k) == {c \in Calls : call[c].applied # None /\ Counter(call[c].applied) = k}

\* NoLostUpdate: every write of a versioned part of the account was made by a
\* request that named the version it replaced, one request per version, so a
\* browser that repeats a call with the version it has seen cannot apply it
\* twice or overwrite what another tab wrote; and the stored address book stays
\* one that Book.Validate accepts, without which no later read would succeed.
NoLostUpdate ==
    /\ \A k \in Counters :
         /\ account.version[k] = 1 + Cardinality(Writers(k))
         /\ {call[c].expected : c \in Writers(k)} = 1..Cardinality(Writers(k))
    /\ account.primary \subseteq account.book
    /\ Cardinality(account.book) <= MaxAddresses
    /\ Cardinality(account.primary) <= 1
============================================================================
