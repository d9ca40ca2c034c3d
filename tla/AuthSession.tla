----------------------------- MODULE AuthSession -----------------------------
(***************************************************************************)
(* A browser session: the canonical record and its chain of refresh        *)
(* digests in PostgreSQL, the digest of the current access token in Redis, *)
(* the short assertion that gateway-out exchanges an access token for, and *)
(* the double check (signature, then canonical state) that User and Files  *)
(* make before they serve a request.                                       *)
(*                                                                         *)
(* A token pair is the number of its minting; the access and the refresh   *)
(* token of a pair are told apart by where they are presented. A call is   *)
(* one request, with one step for each statement, Redis command or remote  *)
(* call of it, so that the steps of several calls, the clock, the operator *)
(* of the key file and failures of the stores interleave. `current',       *)
(* `late' and `uses' only record what happened.                            *)
(***************************************************************************)
EXTENDS Naturals, Sequences, FiniteSets

CONSTANTS Calls,          \* requests in progress at one time
          Sessions,       \* session ids
          AccessTTL, IdleTTL, AbsoluteTTL,   \* session.Config
          AssertionTTL,   \* Config.AssertionTTL, MaxTTL of the key manager
          KeyFiles,       \* contents of the key file, in the order they are deployed
          MaxTime,        \* bound: the last second
          MaxMints,       \* bound: token pairs minted
          MaxFaults       \* bound: failures of a store, a response or a process

\* An entry of the key file, in whole seconds.
KeyRecords == [kid : Nat, from : Nat, until : Nat, verify : Nat, private : BOOLEAN]

ASSUME SessionAssumption ==
    /\ AccessTTL \in Nat \ {0} /\ IdleTTL \in Nat \ {0} /\ AbsoluteTTL \in Nat \ {0}
    /\ AssertionTTL \in Nat \ {0}
    /\ KeyFiles \in Seq(SUBSET KeyRecords) /\ KeyFiles # <<>>
    /\ MaxTime \in Nat \ {0} /\ MaxMints \in Nat /\ MaxFaults \in Nat

VARIABLES clock,
          minted,         \* session of each minted pair
          delivered,      \* pairs whose response reached the browser
          pg,             \* auth.sessions with its consumed digests
          redis,          \* auth:session:access:<id>
          file,           \* which content the key file has
          seen,           \* what the key manager remembers
          call,
          uses,           \* of each refresh token: times accepted, and refused after that
          faults

vars == <<clock, minted, delivered, pg, redis, file, seen, call, uses, faults>>

Keys == INSTANCE SessionKeys WITH MaxTTL <- AssertionTTL

Pairs == 1..MaxMints
None  == [version |-> 0]

\* minTime
Least(a, b) == IF a < b THEN a ELSE b

Free == {c \in Calls : call[c].phase = "done"}

Begin(op, n, s, phase) ==
    [phase |-> phase, op |-> op, pair |-> n, sid |-> s, next |-> 0, now |-> 0,
     rec |-> None, keys |-> {}, assertion |-> None, current |-> FALSE, late |-> FALSE,
     at |-> 0, ok |-> FALSE]

Idle == Begin("none", 0, 0, "done")

Becomes(c, state) == call' = [call EXCEPT ![c] = state]

\* The call is over; what it worked with is forgotten.
Done(c, result) == Becomes(c, [Idle EXCEPT !.ok = (result = "ok")])

Go(c, phase) == Becomes(c, [call[c] EXCEPT !.phase = phase])

Fault == faults < MaxFaults /\ faults' = faults + 1

NoFault == UNCHANGED faults

\* Record.Active
ActiveRecord(r, now) == r.version > 0 /\ ~r.revoked /\ r.created <= now /\ now < r.exp

Init ==
    /\ clock = 1
    /\ minted = <<>>
    /\ delivered = {}
    /\ pg = [s \in Sessions |-> None]
    /\ redis = [s \in Sessions |-> None]
    /\ file = 1
    /\ seen = Keys!Remember(KeyFiles[1], {})      \* NewManager loads the file
    /\ call = [c \in Calls |-> Idle]
    /\ uses = [n \in Pairs |-> <<0, 0>>]
    /\ faults = 0

-----------------------------------------------------------------------------
(* Environment *)

Tick ==
    /\ clock < MaxTime
    /\ clock' = clock + 1
    /\ UNCHANGED <<minted, delivered, pg, redis, file, seen, call, uses, faults>>

\* The operator deploys the next content of the key file, at any time.
DeployKeys ==
    /\ file < Len(KeyFiles)
    /\ file' = file + 1
    /\ UNCHANGED <<clock, minted, delivered, pg, redis, seen, call, uses, faults>>

\* The Auth process restarts: NewManager loads the file with nothing remembered.
\* The requests it was serving are failed by RequestDropped.
Restart ==
    /\ Fault
    /\ Keys!Load(KeyFiles[file], {}, clock)
    /\ seen' = Keys!Remember(KeyFiles[file], {})
    /\ UNCHANGED <<clock, minted, delivered, pg, redis, file, call, uses>>

\* Redis loses a key (eviction, failover without the last write).
RedisLoses(s) ==
    /\ Fault
    /\ redis[s] # None
    /\ redis' = [redis EXCEPT ![s] = None]
    /\ UNCHANGED <<clock, minted, delivered, pg, file, seen, call, uses>>

\* A store or a remote call does not answer in time and nothing happened; the
\* caller is told that the service is unavailable.
RequestDropped(c) ==
    /\ Fault
    /\ call[c].phase \notin {"done", "cleanup"}
    /\ IF call[c].phase = "put" /\ call[c].op = "login" THEN Go(c, "cleanup")
       ELSE Done(c, "unavailable")
    /\ UNCHANGED <<clock, minted, delivered, pg, redis, file, seen, uses>>

-----------------------------------------------------------------------------
(* Start: Prepare, Create, Activate *)

\* Service.Prepare and mint, called by the Login handler once the password is right.
Prepare(c) ==
    /\ c \in Free
    /\ Len(minted) < MaxMints
    /\ \E s \in Sessions \ {minted[n] : n \in 1..Len(minted)} :
           /\ minted' = Append(minted, s)
           /\ Becomes(c, [Begin("login", Len(minted) + 1, s, "create") EXCEPT !.now = clock])
    /\ UNCHANGED <<clock, delivered, pg, redis, file, seen, uses, faults>>

NewRecord(n, now) ==
    [version |-> 1, refresh |-> n, consumed |-> {}, created |-> now,
     access |-> now + AccessTTL, idle |-> now + IdleTTL, exp |-> now + AbsoluteTTL,
     revoked |-> FALSE]

\* Repository.Create; the second case is an insert whose answer is lost.
Create(c) ==
    /\ call[c].phase = "create"
    /\ pg' = [pg EXCEPT ![call[c].sid] = NewRecord(call[c].pair, call[c].now)]
    /\ \/ Go(c, "activate") /\ NoFault
       \/ Done(c, "unavailable") /\ Fault
    /\ UNCHANGED <<clock, minted, delivered, redis, file, seen, uses>>

\* Service.Activate up to the Redis write: what was inserted is still there and active.
Activate(c) ==
    LET r == pg[call[c].sid] IN
    /\ call[c].phase = "activate"
    /\ IF ActiveRecord(r, clock) /\ r = NewRecord(call[c].pair, call[c].now)
       THEN Becomes(c, [call[c] EXCEPT !.phase = "put", !.rec = r, !.now = clock,
                                       !.next = call[c].pair])
       ELSE Done(c, "invalid")
    /\ UNCHANGED <<clock, minted, delivered, pg, redis, file, seen, uses, faults>>

\* What Redis holds under a session's key: PEXPIREAT drops it at the access expiry.
Held(s) == IF redis[s] # None /\ clock < redis[s].exp THEN redis[s] ELSE None

\* putScript: a newer version replaces, an equal one must be the same write.
PutAllowed(s, new) ==
    LET old == Held(s) IN old.version < new.version \/ old = new

\* setCookies: the response carries the pair to the browser, or is lost on the way.
Answer(c) ==
    /\ Done(c, "ok")
    /\ \/ delivered' = delivered \cup {call[c].next} /\ NoFault
       \/ UNCHANGED delivered /\ Fault

\* Mutant: a refresh answers with the new pair whether or not Redis took it.
PutIgnored(c) ==
    LET r == call[c].rec
        s == call[c].sid
        new == [version |-> r.version, digest |-> call[c].next, exp |-> r.access]
    IN  /\ call[c].phase = "put"
        /\ Done(c, "ok")
        /\ delivered' = delivered \cup {call[c].next}
        /\ \/ redis' = [redis EXCEPT ![s] = new] /\ NoFault
           \/ redis' = redis /\ Fault
        /\ UNCHANGED <<clock, minted, pg, file, seen, uses>>

\* Store.Put of the pair's digest: accepted and answered, accepted with the answer
\* lost, or refused. A login whose write failed revokes what it created.
Put(c) ==
    LET r == call[c].rec
        s == call[c].sid
        new == [version |-> r.version, digest |-> call[c].next, exp |-> r.access]
        ok == ActiveRecord(r, call[c].now) /\ call[c].now < r.access /\ PutAllowed(s, new)
        failed == IF call[c].op = "login" THEN Go(c, "cleanup") ELSE Done(c, "unavailable")
    IN  /\ call[c].phase = "put"
        /\ redis' = IF ok THEN [redis EXCEPT ![s] = IF clock < new.exp THEN new ELSE None]
                    ELSE redis
        /\ \/ ok /\ Answer(c)
           \/ ok /\ failed /\ UNCHANGED delivered /\ Fault
           \/ ~ok /\ failed /\ UNCHANGED delivered /\ NoFault
        /\ UNCHANGED <<clock, minted, pg, file, seen, uses>>

RevokeIn(t, ss) == [s \in Sessions |-> IF s \in ss /\ t[s] # None THEN [t[s] EXCEPT !.revoked = TRUE] ELSE t[s]]

\* Activate's clean-up; its own failure is ignored.
Cleanup(c) ==
    /\ call[c].phase = "cleanup"
    /\ Done(c, "unavailable")
    /\ \/ pg' = RevokeIn(pg, {call[c].sid}) /\ NoFault
       \/ pg' = pg /\ Fault
    /\ UNCHANGED <<clock, minted, delivered, redis, file, seen, uses>>

-----------------------------------------------------------------------------
(* Refresh *)

\* RefreshSession with any pair the browser ever received.
RefreshSession(c) ==
    /\ c \in Free
    /\ Len(minted) < MaxMints
    /\ \E n \in delivered :
           /\ minted' = Append(minted, minted[n])
           /\ Becomes(c, [Begin("refresh", n, minted[n], "rotate")
                             EXCEPT !.next = Len(minted) + 1, !.now = clock])
    /\ UNCHANGED <<clock, delivered, pg, redis, file, seen, uses, faults>>

\* The row after a successful rotation.
Rotated(r, n, next, now) ==
    [r EXCEPT !.consumed = @ \cup {n}, !.version = @ + 1, !.refresh = next,
              !.access = Least(now + AccessTTL, r.exp), !.idle = Least(now + IdleTTL, r.exp)]

\* Mutant: a second use of a refresh token is refused, and nothing else.
RotateRowForgives(r, n, next, now) ==
    IF ~ActiveRecord(r, now) \/ r.refresh # n \/ now >= r.idle THEN <<"invalid", r>>
    ELSE <<"ok", Rotated(r, n, next, now)>>

\* The transaction of Repository.Rotate on row r: verdict and new row. (A version that has
\* reached the largest int64 is refused too, after more rotations than a session can live.)
RotateRow(r, n, next, now) ==
    IF ~ActiveRecord(r, now) THEN <<"invalid", r>>
    ELSE IF r.refresh # n
         THEN IF n \in r.consumed THEN <<"reuse", [r EXCEPT !.revoked = TRUE]>>
              ELSE <<"invalid", r>>
    ELSE IF now >= r.idle \/ next \in r.consumed THEN <<"invalid", r>>
    ELSE <<"ok", Rotated(r, n, next, now)>>

\* Service.Refresh up to the Redis write; the second case is a commit whose answer
\* is lost.
Rotate(c) ==
    LET s == call[c].sid
        n == call[c].pair
        now == call[c].now
        out == RotateRow(pg[s], n, call[c].next, now)
    IN  /\ call[c].phase = "rotate"
        /\ pg' = [pg EXCEPT ![s] = out[2]]
        /\ \/ /\ IF out[1] = "ok" /\ now < out[2].access
                 THEN Becomes(c, [call[c] EXCEPT !.phase = "put", !.rec = out[2]])
                 ELSE Done(c, IF out[1] = "ok" THEN "invalid" ELSE out[1])
              /\ uses' = [uses EXCEPT ![n] = IF out[1] = "ok" THEN <<@[1] + 1, @[2]>>
                                              ELSE <<@[1], @[1]>>]
              /\ NoFault
           \/ /\ Done(c, "unavailable")
              /\ UNCHANGED uses
              /\ Fault
        /\ UNCHANGED <<clock, minted, delivered, redis, file, seen>>

-----------------------------------------------------------------------------
(* Authenticate, Revoke, RevokeAll, Exchange *)

\* Logout, LogoutAll or ExchangeBrowserSession with any pair the browser received.
Present(c) ==
    /\ c \in Free
    /\ \E n \in delivered, op \in {"logout", "logoutAll", "access"} :
           Becomes(c, Begin(op, n, minted[n], "find"))
    /\ UNCHANGED <<clock, minted, delivered, pg, redis, file, seen, uses, faults>>

\* active, first half: the canonical record.
Find(c) ==
    LET r == pg[call[c].sid] IN
    /\ call[c].phase = "find"
    /\ Becomes(c, [call[c] EXCEPT !.phase = "get", !.rec = r,
                      !.current = ActiveRecord(r, clock) /\ r.refresh = call[c].pair])
    /\ UNCHANGED <<clock, minted, delivered, pg, redis, file, seen, uses, faults>>

\* Mutant: the versions are not compared.
AgreeAnyVersion(r, a) ==
    ActiveRecord(r, clock) /\ clock < r.access /\ a # None

\* active, second half, on the record read before and on what Redis says now.
Agree(r, a) ==
    /\ ActiveRecord(r, clock)
    /\ clock < r.access
    /\ a # None
    /\ a.version = r.version
    /\ a.exp = r.access

\* Service.Exchange: the life of the assertion is cut to that of the access token.
Exchange(c) ==
    LET r == call[c].rec
        exp == Least(clock + AssertionTTL, Least(r.access, r.exp))
    IN  IF exp <= clock THEN Done(c, "invalid")
        ELSE Becomes(c, [call[c] EXCEPT !.phase = "load", !.at = exp])

\* Service.Authenticate: the digest is the one Redis holds.
Get(c) ==
    LET a == Held(call[c].sid) IN
    /\ call[c].phase = "get"
    /\ IF Agree(call[c].rec, a) /\ a.digest = call[c].pair
       THEN IF call[c].op = "access" THEN Exchange(c) ELSE Go(c, "revoke")
       ELSE Done(c, "invalid")
    /\ UNCHANGED <<clock, minted, delivered, pg, redis, file, seen, uses, faults>>

\* Every session of this module belongs to one subject.
RevokedBy(c) == IF call[c].op = "logout" THEN {call[c].sid} ELSE Sessions

\* Service.Revoke and RevokeAll; the second case is a commit whose answer is lost.
Revoke(c) ==
    /\ call[c].phase = "revoke"
    /\ pg' = RevokeIn(pg, RevokedBy(c))
    /\ \/ Done(c, "ok") /\ NoFault
       \/ Done(c, "unavailable") /\ Fault
    /\ UNCHANGED <<clock, minted, delivered, redis, file, seen, uses>>

\* One reading of the key file by the manager; `phase' is where the call goes on.
LoadKeys(c, phase) ==
    IF Keys!Load(KeyFiles[file], seen, clock)
    THEN /\ seen' = Keys!Remember(KeyFiles[file], seen)
         /\ Becomes(c, [call[c] EXCEPT !.phase = phase, !.keys = KeyFiles[file]])
    ELSE /\ Done(c, "unavailable")
         /\ UNCHANGED seen

IssueLoads(c) ==
    /\ call[c].phase = "load"
    /\ LoadKeys(c, "sign")
    /\ UNCHANGED <<clock, minted, delivered, pg, redis, file, uses, faults>>

\* Manager.Issue after the file is read: every bound is checked again on the signing
\* clock. (Its last look at the clock, finishedAt, could only refuse more.)
Issue(c) ==
    LET r == call[c].rec
        exp == call[c].at
        signing == {k \in Keys!Active(call[c].keys, clock) : k.private}
        fits == /\ ActiveRecord(r, clock) /\ clock < r.access /\ clock < exp
                /\ exp <= r.access /\ exp <= r.exp /\ exp - clock <= AssertionTTL
    IN  /\ call[c].phase = "sign"
        /\ IF fits /\ signing # {}
           THEN \E k \in signing :
                   Becomes(c, [call[c] EXCEPT !.phase = "keys", !.keys = {},
                       !.rec = None, !.at = 0, !.pair = 0,
                       !.assertion = [version |-> 1, kid |-> k.kid, iat |-> clock,
                                      exp |-> exp, created |-> r.created]])
           ELSE Done(c, IF fits THEN "unavailable" ELSE "invalid")
        /\ UNCHANGED <<clock, minted, delivered, pg, redis, file, seen, uses, faults>>

-----------------------------------------------------------------------------
(* Verification by User or Files, and VerifyAssertion back at Auth *)

\* Verifier.Verify of User begins: GetSigningKeys, answered by PublicKeys.
GetSigningKeys(c) ==
    /\ call[c].phase = "keys"
    /\ IF Keys!Load(KeyFiles[file], seen, clock)
       THEN /\ seen' = Keys!Remember(KeyFiles[file], seen)
            /\ Becomes(c, [call[c] EXCEPT !.phase = "local",
                              !.keys = Keys!Trusted(KeyFiles[file], clock),
                              !.late = pg[call[c].sid].revoked])
       ELSE Done(c, "unavailable") /\ UNCHANGED seen
    /\ UNCHANGED <<clock, minted, delivered, pg, redis, file, uses, faults>>

\* VerifyContext on a set of keys: signature by a trusted key, times.
Signed(a, keys) ==
    /\ \E k \in keys : k.kid = a.kid /\ clock < k.verify
    /\ a.iat <= clock
    /\ clock < a.exp
    /\ a.exp - a.iat <= AssertionTTL

\* The local check; parseKeys refuses the whole set when one key has run out.
VerifyContext(c) ==
    /\ call[c].phase = "local"
    /\ IF Signed(call[c].assertion, call[c].keys) /\ \A k \in call[c].keys : clock < k.verify
       THEN Becomes(c, [call[c] EXCEPT !.phase = "verify", !.keys = {}])
       ELSE Done(c, "invalid")
    /\ UNCHANGED <<clock, minted, delivered, pg, redis, file, seen, uses, faults>>

\* VerifyAssertion at Auth: the same checks with Auth's keys, then Check.
VerifyAssertion(c) ==
    /\ call[c].phase = "verify"
    /\ IF Keys!Load(KeyFiles[file], seen, clock)
       THEN /\ seen' = Keys!Remember(KeyFiles[file], seen)
            /\ IF Signed(call[c].assertion, KeyFiles[file])
               THEN Go(c, "check") ELSE Done(c, "invalid")
       ELSE Done(c, "invalid") /\ UNCHANGED seen
    /\ UNCHANGED <<clock, minted, delivered, pg, redis, file, uses, faults>>

\* Mutant: the session checker is not configured.
CheckSkipped(c) ==
    /\ call[c].phase = "check"
    /\ Go(c, "verified")
    /\ UNCHANGED <<clock, minted, delivered, pg, redis, file, seen, uses, faults>>

\* Service.Check, first half.
Check(c) ==
    /\ call[c].phase = "check"
    /\ Becomes(c, [call[c] EXCEPT !.phase = "checkGet", !.rec = pg[call[c].sid]])
    /\ UNCHANGED <<clock, minted, delivered, pg, redis, file, seen, uses, faults>>

\* Service.Check, second half: active, and the session the assertion was issued for.
CheckGet(c) ==
    /\ call[c].phase = "checkGet"
    /\ IF /\ Agree(call[c].rec, Held(call[c].sid))
          /\ call[c].rec.created = call[c].assertion.created
       THEN Becomes(c, [call[c] EXCEPT !.phase = "verified", !.rec = None])
       ELSE Done(c, "invalid")
    /\ UNCHANGED <<clock, minted, delivered, pg, redis, file, seen, uses, faults>>

\* Mutant: the clock is not looked at again.
VerifiedLate(c) ==
    /\ call[c].phase = "verified"
    /\ Done(c, "ok")
    /\ UNCHANGED <<clock, minted, delivered, pg, redis, file, seen, uses, faults>>

\* The answer of Auth is back at User, which looks at its clock once more.
Verified(c) ==
    /\ call[c].phase = "verified"
    /\ IF clock < call[c].assertion.exp THEN Done(c, "ok") ELSE Done(c, "invalid")
    /\ UNCHANGED <<clock, minted, delivered, pg, redis, file, seen, uses, faults>>

-----------------------------------------------------------------------------

CallNext(c) ==
    \/ Prepare(c) \/ Create(c) \/ Activate(c) \/ Put(c) \/ Cleanup(c)
    \/ RefreshSession(c) \/ Rotate(c)
    \/ Present(c) \/ Find(c) \/ Get(c) \/ Revoke(c)
    \/ IssueLoads(c) \/ Issue(c)
    \/ GetSigningKeys(c) \/ VerifyContext(c) \/ VerifyAssertion(c)
    \/ Check(c) \/ CheckGet(c) \/ Verified(c)
    \/ RequestDropped(c)

Next ==
    \/ Tick \/ DeployKeys \/ Restart
    \/ \E s \in Sessions : RedisLoses(s)
    \/ \E c \in Calls : CallNext(c)

Spec == Init /\ [][Next]_vars

-----------------------------------------------------------------------------
(* Properties *)

\* A refresh token is accepted at most once however many requests race with it, and
\* once two verdicts were given on it the session is over: the honest holder and
\* whoever copied the token both have to log in again (Repository.Rotate).
ReuseEndsSession ==
    \A n \in 1..Len(minted) :
        /\ uses[n][1] <= 1
        /\ uses[n][2] = 1
             => pg[minted[n]].revoked \/ clock >= pg[minted[n]].exp

\* An access token that authenticates a request belonged to the current pair of an
\* unrevoked session while the request was in progress: a logout or a refresh that
\* completed before the request began shuts the old token out, although PostgreSQL
\* and Redis are read one after the other (Service.active).
AccessIsCurrent ==
    \A c \in Calls :
        call[c].op \in {"logout", "logoutAll", "access"} /\ call[c].phase \notin {"find", "get"}
        => call[c].current

\* User or Files serves the request.
Serves(c) == call[c].op = "access" /\ call'[c].phase = "done" /\ call'[c].ok

\* User or Files accepts no assertion whose verification began after the session was
\* revoked, although the assertion itself has time left (Service.Check).
RevocationReachesAssertions == [][\A c \in Calls : Serves(c) => ~call[c].late]_vars

\* An accepted assertion is accepted before it expires, and it expires before its key
\* stops being trusted, whatever time the steps of the check took (Verifier.Verify).
AcceptedInTime ==
    [][\A c \in Calls : Serves(c) =>
          LET a == call[c].assertion IN
          /\ clock < a.exp
          /\ \E f \in 1..file : \E k \in KeyFiles[f] : k.kid = a.kid /\ a.exp <= k.verify]_vars

\* Rotating the key file strands nobody: while a manager that knows the signing key
\* accepts the file, that key is still in it for every assertion that has not expired
\* (Manager.load).
RotationKeepsTrust ==
    \A c \in Calls :
        LET a == call[c].assertion IN
        call[c].phase # "done" /\ a # None /\ clock < a.exp
            /\ (\E old \in seen : old.kid = a.kid)
            /\ Keys!Load(KeyFiles[file], seen, clock)
        => \E k \in Keys!Trusted(KeyFiles[file], clock) : k.kid = a.kid

\* A pair that reached the browser works: until it expires, is rotated or its session
\* ends, Redis holds exactly its digest under the version PostgreSQL has. Only a key
\* that Redis lost breaks this, never an answer that was lost (Service.Activate,
\* Refresh).
DeliveredPairWorks ==
    \A n \in delivered :
        LET s == minted[n] IN
        pg[s].refresh = n /\ ActiveRecord(pg[s], clock) /\ clock < pg[s].access
            /\ redis[s] # None
        => Agree(pg[s], Held(s)) /\ Held(s).digest = n

=============================================================================
