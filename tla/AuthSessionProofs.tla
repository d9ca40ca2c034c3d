-------------------------- MODULE AuthSessionProofs --------------------------
(***************************************************************************)
(* Proofs about AuthSession: reuse of a refresh token ends the session, an *)
(* access token that authenticates was current, a delivered pair works, a  *)
(* revocation reaches the assertions issued before it, and what key        *)
(* rotation gives to assertions that are still in use.                     *)
(*                                                                         *)
(* The properties are not inductive. What makes them true is that Redis    *)
(* never runs ahead of PostgreSQL and agrees with it when the versions are *)
(* equal, that the digests of a session form a chain of pairs minted for   *)
(* it, and that a pair in the hands of a call that is still minting        *)
(* belongs to no other call and was not delivered. CallOK says of a call,  *)
(* phase by phase, what its local copies of the record are worth while     *)
(* other calls go on.                                                      *)
(*                                                                         *)
(* For key rotation the invariant also says that the key of a signed       *)
(* assertion stood in a deployed file with a verification time no earlier  *)
(* than the assertion's end, and that what the manager remembers of that   *)
(* key is not shorter. The last part needs an assumption on the operator:  *)
(* a restart of Auth forgets what the manager saw, and only successive     *)
(* files that do not shorten a key keep it true from then on.              *)
(***************************************************************************)
EXTENDS AuthSession, TLAPS

\* The fields of a call.
Fields == {"phase", "op", "pair", "sid", "next", "now", "rec", "keys", "assertion",
           "current", "late", "at", "ok"}

\* A session record.
Records == [version : Nat \ {0}, refresh : Nat, consumed : SUBSET Nat, created : Nat,
            access : Nat, idle : Nat, exp : Nat, revoked : BOOLEAN]

\* What Redis holds under a session's key.
Entries == [version : Nat \ {0}, digest : Nat, exp : Nat]

\* Pair n was minted for session s.
Owns(n, s) == n \in 1..Len(minted) /\ minted[n] = s

\* Every refresh digest that the record of s ever had.
Chain(s) == pg[s].consumed \cup {pg[s].refresh}

\* The stores: digests were minted for their session, the current one was never
\* consumed, and Redis is not ahead of PostgreSQL and agrees with it at equal
\* versions.
SessionsOK ==
    /\ clock \in Nat
    /\ minted \in Seq(Sessions)
    /\ Len(minted) <= MaxMints
    /\ pg \in [Sessions -> Records \cup {None}]
    /\ redis \in [Sessions -> Entries \cup {None}]
    /\ \A s \in Sessions : pg[s] # None =>
          /\ pg[s].created <= clock
          /\ \A n \in Chain(s) : Owns(n, s)
          /\ pg[s].refresh \notin pg[s].consumed
    /\ \A s \in Sessions : redis[s] # None =>
          /\ pg[s] # None
          /\ redis[s].version <= pg[s].version
          /\ redis[s].version = pg[s].version =>
                redis[s].digest = pg[s].refresh /\ redis[s].exp = pg[s].access

\* The browser only has pairs of the chain; when the newest is among them, Redis
\* has the version of PostgreSQL or nothing.
DeliveredOK ==
    \A n \in delivered :
       /\ n \in 1..Len(minted)
       /\ pg[minted[n]] # None
       /\ n \in Chain(minted[n])
       /\ pg[minted[n]].refresh = n /\ redis[minted[n]] # None
             => redis[minted[n]].version = pg[minted[n]].version

\* What was recorded of the uses of a refresh token: accepted means consumed,
\* refused after that means that the session is over.
UsesOK ==
    /\ uses \in [Pairs -> (0..1) \X (0..1)]
    /\ \A n \in Pairs :
          /\ uses[n][1] = 1 => /\ n \in 1..Len(minted)
                               /\ pg[minted[n]] # None
                               /\ n \in pg[minted[n]].consumed
          /\ uses[n][2] = 1 => /\ n \in 1..Len(minted)
                               /\ pg[minted[n]] # None
                               /\ pg[minted[n]].revoked \/ clock >= pg[minted[n]].exp

\* The phases of a call that presents a pair.
Presenting == {"find", "get", "revoke", "load", "sign", "keys", "local", "verify", "check",
               "checkGet", "verified"}

\* The phases of a call that makes a new pair.
Minting == {"create", "activate", "put", "rotate"}

\* The pair that a minting call is making.
Target(st) == IF st.phase \in {"create", "activate"} THEN st.pair ELSE st.next

\* The types of a call's fields.
CallShape(st) ==
    /\ DOMAIN st = Fields
    /\ st.pair \in Nat /\ st.next \in Nat /\ st.now \in Nat /\ st.at \in Nat
    /\ st.phase \in {"done", "cleanup"} \cup Minting \cup Presenting
    /\ st.phase = "done" => st.op = "none"
    /\ st.phase = "cleanup" => st.sid \in Sessions /\ st.op = "login"

\* What a minting call may rely on: its new pair is its own and undelivered; before
\* Create the session has no record; at Put the copy of the record is still the
\* current version.
MintingOK(st) ==
    LET s == st.sid IN
    /\ st.phase \in Minting =>
          /\ s \in Sessions
          /\ st.op \in {"login", "refresh"}
          /\ st.now <= clock
          /\ Owns(Target(st), s)
          /\ Target(st) \notin delivered
    /\ st.phase = "create" =>
          /\ st.op = "login"
          /\ pg[s] = None
          /\ \A n \in 1..Len(minted) : minted[n] = s => n = st.pair
    /\ st.phase = "activate" => st.op = "login" /\ pg[s] # None
    /\ st.phase = "put" =>
          /\ pg[s] # None
          /\ st.rec \in Records
          /\ st.rec.version = pg[s].version /\ st.rec.access = pg[s].access
          /\ pg[s].refresh = st.next
    /\ st.phase = "rotate" =>
          /\ st.op = "refresh"
          /\ st.pair \in delivered /\ minted[st.pair] = s
          /\ pg[s] # None
          /\ st.next \notin Chain(s)
          /\ pg[s].created <= st.now

\* What a presenting call may rely on: its copy of the record is a version
\* PostgreSQL had, a token that gets past Get was current when the record was read,
\* and after a revocation that came before the check the copy says so too.
PresentingOK(st) ==
    LET s == st.sid IN
    /\ st.phase \in Presenting =>
          /\ s \in Sessions
          /\ st.op \in {"logout", "logoutAll", "access"}
          /\ pg[s] # None
    /\ st.phase = "get" =>
          /\ st.rec \in Records
          /\ st.rec.created <= clock
          /\ st.rec.version <= pg[s].version
          /\ st.rec.version = pg[s].version => st.rec.refresh = pg[s].refresh
          /\ redis[s] # None /\ redis[s].version = st.rec.version
                => redis[s].digest = st.rec.refresh
          /\ st.current \/ ~ActiveRecord(st.rec, clock) \/ st.rec.refresh # st.pair
    /\ st.phase \in Presenting \ {"find", "get"} => st.current
    /\ st.phase = "revoke" => st.op \in {"logout", "logoutAll"}
    /\ st.phase \in Presenting \ {"find", "get", "revoke"} => st.op = "access"
    /\ st.phase \in {"local", "verify", "check", "checkGet"} => (st.late => pg[s].revoked)
    /\ st.phase = "checkGet" => (st.late => st.rec.revoked)
    /\ st.phase = "verified" => ~st.late

\* What holds of one call.
CallOK(st) == CallShape(st) /\ MintingOK(st) /\ PresentingOK(st)

\* It holds of every call.
CallsOK ==
    /\ DOMAIN call = Calls
    /\ \A c \in Calls : \A st \in {call[c]} : CallOK(st)

\* Two calls never make the same pair.
TargetsOK ==
    \A c, d \in Calls :
       c # d /\ call[c].phase \in Minting /\ call[d].phase \in Minting
          => Target(call[c]) # Target(call[d])

\* The inductive invariant.
Inv == SessionsOK /\ DeliveredOK /\ UsesOK /\ CallsOK /\ TargetsOK

-----------------------------------------------------------------------------

\* A record and an entry are told apart from None.
LEMMA RecordFacts ==
    /\ None.version = 0
    /\ \A r \in Records : r # None
    /\ \A r \in Entries : r # None
PROOF BY DEF None, Records, Entries

\* A revoked record is the record with one field changed.
LEMMA Revoked ==
    ASSUME NEW r \in Records
    PROVE  LET q == [r EXCEPT !.revoked = TRUE] IN
           /\ q \in Records /\ q # None /\ q.revoked
           /\ q.version = r.version /\ q.refresh = r.refresh /\ q.consumed = r.consumed
           /\ q.created = r.created /\ q.access = r.access /\ q.exp = r.exp
PROOF BY RecordFacts, Zenon DEF Records

\* PostgreSQL changes only by revocations.
Ends ==
    /\ pg' \in [Sessions -> Records \cup {None}]
    /\ \A s \in Sessions :
          /\ pg'[s] = None <=> pg[s] = None
          /\ pg[s] # None =>
                /\ pg'[s].version = pg[s].version /\ pg'[s].refresh = pg[s].refresh
                /\ pg'[s].consumed = pg[s].consumed /\ pg'[s].created = pg[s].created
                /\ pg'[s].access = pg[s].access /\ pg'[s].exp = pg[s].exp
                /\ pg[s].revoked => pg'[s].revoked

\* Redis only loses keys.
Shrinks ==
    /\ redis' \in [Sessions -> Entries \cup {None}]
    /\ \A s \in Sessions : redis'[s] = redis[s] \/ redis'[s] = None

\* The steps that leave a store alone, or drop a key of Redis, are such steps.
LEMMA UnchangedEnds ==
    ASSUME SessionsOK
    PROVE  /\ pg' = pg => Ends
           /\ redis' = redis => Shrinks
           /\ \A s \in Sessions : redis' = [redis EXCEPT ![s] = None] => Shrinks
PROOF BY DEF SessionsOK, Ends, Shrinks

\* The UPDATE of a logout, of RevokeAll or of the clean-up is such a step.
LEMMA RevokeInEnds ==
    ASSUME SessionsOK, NEW ss, pg' = RevokeIn(pg, ss)
    PROVE  Ends
<1>1. \A s \in Sessions : pg[s] \in Records \/ pg[s] = None
  BY DEF SessionsOK
<1>2. \A s \in Sessions : pg'[s] = IF s \in ss /\ pg[s] # None
                                   THEN [pg[s] EXCEPT !.revoked = TRUE] ELSE pg[s]
  BY DEF RevokeIn
<1>3. DOMAIN pg' = Sessions /\ pg' = [s \in Sessions |-> pg'[s]]
  BY DEF RevokeIn
<1>4. ASSUME NEW s \in Sessions
      PROVE  /\ pg'[s] \in Records \cup {None}
             /\ pg'[s] = None <=> pg[s] = None
             /\ pg[s] # None =>
                /\ pg'[s].version = pg[s].version /\ pg'[s].refresh = pg[s].refresh
                /\ pg'[s].consumed = pg[s].consumed /\ pg'[s].created = pg[s].created
                /\ pg'[s].access = pg[s].access /\ pg'[s].exp = pg[s].exp
                /\ pg[s].revoked => pg'[s].revoked
  <2>1. CASE s \in ss /\ pg[s] # None
    <3> DEFINE q == [pg[s] EXCEPT !.revoked = TRUE]
    <3>1. pg'[s] = q
      BY <2>1, <1>2
    <3>2. pg[s] \in Records
      BY <2>1, <1>1
    <3>3. /\ q \in Records /\ q # None /\ q.revoked
          /\ q.version = pg[s].version /\ q.refresh = pg[s].refresh
          /\ q.consumed = pg[s].consumed /\ q.created = pg[s].created
          /\ q.access = pg[s].access /\ q.exp = pg[s].exp
      BY <3>2, Revoked
    <3> HIDE DEF q
    <3>4. QED BY <2>1, <3>1, <3>3
  <2>2. CASE ~(s \in ss /\ pg[s] # None)
    BY <2>2, <1>1, <1>2, Zenon
  <2>3. QED BY <2>1, <2>2
<1>5. QED BY <1>3, <1>4 DEF Ends

\* So is the revocation that reuse of a refresh token causes.
LEMMA OneEnds ==
    ASSUME SessionsOK, NEW s \in Sessions, pg[s] # None,
           pg' = [pg EXCEPT ![s] = [pg[s] EXCEPT !.revoked = TRUE]]
    PROVE  Ends /\ pg'[s].revoked
<1> DEFINE q == [pg[s] EXCEPT !.revoked = TRUE]
<1>1. pg[s] \in Records
  BY DEF SessionsOK
<1>2. /\ q \in Records /\ q # None /\ q.revoked
      /\ q.version = pg[s].version /\ q.refresh = pg[s].refresh /\ q.consumed = pg[s].consumed
      /\ q.created = pg[s].created /\ q.access = pg[s].access /\ q.exp = pg[s].exp
  BY <1>1, Revoked
<1>3. pg' = [pg EXCEPT ![s] = q]
  OBVIOUS
<1> HIDE DEF q
<1>4. QED BY <1>2, <1>3, Zenon DEF SessionsOK, Ends

\* Revocations, lost keys and the clock keep what is said of the stores.
LEMMA StillSessions ==
    ASSUME SessionsOK, DeliveredOK, UsesOK, Ends, Shrinks,
           minted' = minted, delivered' = delivered, clock' \in Nat, clock <= clock'
    PROVE  SessionsOK' /\ DeliveredOK' /\ (uses' = uses => UsesOK')
<1>1. SessionsOK'
  <2>1. ASSUME NEW s \in Sessions, pg'[s] # None
        PROVE  /\ pg'[s].created <= clock'
               /\ \A n \in Chain(s)' : Owns(n, s)'
               /\ pg'[s].refresh \notin pg'[s].consumed
    <3>1. pg[s] # None /\ pg[s] \in Records
      BY <2>1 DEF Ends, SessionsOK
    <3>2. pg'[s].created = pg[s].created /\ pg[s].created \in Nat /\ pg[s].created <= clock
      BY <3>1 DEF Ends, SessionsOK, Records
    <3>3. pg'[s].refresh = pg[s].refresh /\ pg'[s].consumed = pg[s].consumed
      BY <3>1 DEF Ends
    <3>4. pg'[s].created <= clock'
      BY <3>2 DEF SessionsOK
    <3>5. QED BY <3>1, <3>3, <3>4 DEF SessionsOK, Owns, Chain
  <2>2. ASSUME NEW s \in Sessions, redis'[s] # None
        PROVE  /\ pg'[s] # None
               /\ redis'[s].version <= pg'[s].version
               /\ redis'[s].version = pg'[s].version =>
                     redis'[s].digest = pg'[s].refresh /\ redis'[s].exp = pg'[s].access
    <3>1. redis'[s] = redis[s] /\ redis[s] # None
      BY <2>2 DEF Shrinks
    <3>2. pg[s] # None
      BY <3>1 DEF SessionsOK
    <3>3. /\ pg'[s] # None /\ pg'[s].version = pg[s].version
          /\ pg'[s].refresh = pg[s].refresh /\ pg'[s].access = pg[s].access
      BY <3>2 DEF Ends
    <3>4. QED BY <3>1, <3>3 DEF SessionsOK
  <2>3. QED BY <2>1, <2>2 DEF SessionsOK, Ends, Shrinks
<1>2. \A n \in 1..Len(minted) : minted[n] \in Sessions
  BY DEF SessionsOK
<1>3. DeliveredOK'
  BY <1>2 DEF SessionsOK, DeliveredOK, Ends, Shrinks, Chain
<1>4. ASSUME uses' = uses PROVE UsesOK'
  BY <1>2, <1>4 DEF SessionsOK, UsesOK, Ends, Records
<1>5. QED BY <1>1, <1>3, <1>4

\* They keep what a call relies on.
LEMMA StillCalls ==
    ASSUME SessionsOK, Ends, Shrinks,
           minted' = minted, delivered' = delivered, clock' \in Nat, clock <= clock',
           NEW st, CallOK(st)
    PROVE  CallOK(st)'
<1>1. CallShape(st)'
  BY DEF CallOK, CallShape
<1>2. MintingOK(st)'
  BY DEF CallOK, CallShape, MintingOK, Owns, Target, Chain, SessionsOK, Ends, Minting
<1>3. st.phase = "get" =>
        (st.current \/ ~ActiveRecord(st.rec, clock') \/ st.rec.refresh # st.pair)
  BY DEF CallOK, PresentingOK, ActiveRecord, SessionsOK, Records
<1>4. PresentingOK(st)'
  <2>1. st.phase \in Presenting => st.sid \in Sessions /\ pg[st.sid] # None /\ pg'[st.sid] # None
    BY DEF CallOK, PresentingOK, Ends
  <2>2. st.phase = "get" =>
          /\ st.rec.created <= clock'
          /\ st.rec.version <= pg'[st.sid].version
          /\ st.rec.version = pg'[st.sid].version => st.rec.refresh = pg'[st.sid].refresh
          /\ redis'[st.sid] # None /\ redis'[st.sid].version = st.rec.version
                => redis'[st.sid].digest = st.rec.refresh
    <3> SUFFICES ASSUME st.phase = "get"
                 PROVE  /\ st.rec.created <= clock'
                        /\ st.rec.version <= pg'[st.sid].version
                        /\ st.rec.version = pg'[st.sid].version => st.rec.refresh = pg'[st.sid].refresh
                        /\ redis'[st.sid] # None /\ redis'[st.sid].version = st.rec.version
                              => redis'[st.sid].digest = st.rec.refresh
      OBVIOUS
    <3>1. st.sid \in Sessions /\ pg[st.sid] # None
      BY <2>1 DEF Presenting
    <3>2. /\ pg'[st.sid].version = pg[st.sid].version /\ pg'[st.sid].refresh = pg[st.sid].refresh
          /\ redis'[st.sid] = redis[st.sid] \/ redis'[st.sid] = None
      BY <3>1 DEF Ends, Shrinks
    <3>3. /\ st.rec \in Records
          /\ st.rec.created <= clock
          /\ st.rec.version <= pg[st.sid].version
          /\ st.rec.version = pg[st.sid].version => st.rec.refresh = pg[st.sid].refresh
          /\ redis[st.sid] # None /\ redis[st.sid].version = st.rec.version
                => redis[st.sid].digest = st.rec.refresh
      BY DEF CallOK, PresentingOK
    <3>4. st.rec.created <= clock'
      BY <3>3 DEF SessionsOK, Records
    <3>5. QED BY <3>2, <3>3, <3>4
  <2>3. st.phase \in {"local", "verify", "check", "checkGet"} =>
          (st.late => pg'[st.sid].revoked)
    <3>1. st.phase \in {"local", "verify", "check", "checkGet"} => (st.late => pg[st.sid].revoked)
      BY Zenon DEF CallOK, PresentingOK
    <3>2. st.phase \in Presenting => (pg[st.sid].revoked => pg'[st.sid].revoked)
      BY <2>1 DEF Ends
    <3>3. QED BY <3>1, <3>2, Zenon DEF Presenting
  <2>4. QED BY <1>3, <2>1, <2>2, <2>3 DEF CallOK, PresentingOK, ActiveRecord
<1>5. QED BY <1>1, <1>2, <1>4 DEF CallOK

\* One call moves to a sound state, to a pair that no other call makes.
LEMMA Moves ==
    ASSUME CallsOK, TargetsOK, NEW c \in Calls, NEW st, Becomes(c, st),
           \A d \in Calls \ {c} : \A x \in {call[d]} : CallOK(x)',
           CallOK(st)',
           \/ st.phase \notin Minting
           \/ call[c].phase \in Minting /\ Target(st) = Target(call[c])
           \/ \A d \in Calls \ {c} : call[d].phase \in Minting => Target(st) # Target(call[d])
    PROVE  CallsOK' /\ TargetsOK'
<1>1. DOMAIN call' = Calls /\ call'[c] = st /\ \A d \in Calls \ {c} : call'[d] = call[d]
  BY DEF CallsOK, Becomes
<1>2. CallsOK'
  BY <1>1 DEF CallsOK
<1>3. \A d \in Calls \ {c} :
        st.phase \in Minting /\ call[d].phase \in Minting => Target(st) # Target(call[d])
  BY DEF TargetsOK
<1>4. TargetsOK'
  BY <1>1, <1>3 DEF TargetsOK, Target
<1>5. QED BY <1>2, <1>4

\* A call that is over is sound.
LEMMA DoneOK ==
    ASSUME NEW b, NEW st, st = [Idle EXCEPT !.ok = b]
    PROVE  /\ st.phase = "done" /\ st.phase \notin Minting /\ CallOK(st)'
           /\ CallOK(st)
PROOF BY DEF Idle, Begin, CallOK, CallShape, MintingOK, PresentingOK, Fields, Minting, Presenting

\* Minting a pair keeps the stores sound, and every call but one that is about to
\* create the same session.
LEMMA MintSteps ==
    ASSUME SessionsOK, DeliveredOK, UsesOK, NEW s \in Sessions,
           minted' = Append(minted, s), Len(minted) < MaxMints,
           UNCHANGED <<clock, delivered, pg, redis, uses>>
    PROVE  /\ SessionsOK' /\ DeliveredOK' /\ UsesOK'
           /\ \A st : CallOK(st) /\ ~(st.phase = "create" /\ st.sid = s) => CallOK(st)'
<1>1. minted \in Seq(Sessions) /\ Len(minted) \in Nat
  BY DEF SessionsOK
<1>2. /\ minted' \in Seq(Sessions) /\ Len(minted') = Len(minted) + 1
      /\ \A n \in 1..Len(minted) : n \in 1..Len(minted') /\ minted'[n] = minted[n]
      /\ \A n \in 1..Len(minted') : n \in 1..Len(minted) \/ minted'[n] = s
  BY <1>1
<1>3. Len(minted') <= MaxMints
  BY <1>1, <1>2, SessionAssumption
<1>4. \A n, t : Owns(n, t) => Owns(n, t)'
  BY <1>2 DEF Owns
<1>5. SessionsOK'
  BY <1>2, <1>3, <1>4 DEF SessionsOK, Chain
<1>6. DeliveredOK' /\ UsesOK'
  BY <1>2 DEF DeliveredOK, UsesOK, Chain
<1>7. ASSUME NEW st, CallOK(st), ~(st.phase = "create" /\ st.sid = s)
      PROVE  CallOK(st)'
  <2>1. CallShape(st)'
    BY <1>7 DEF CallOK, CallShape
  <2>2. st.phase \in Minting => Owns(Target(st), st.sid)'
    BY <1>7, <1>4 DEF CallOK, MintingOK, Owns, Target
  <2>3. st.phase = "create" => \A n \in 1..Len(minted') : minted'[n] = st.sid => n = st.pair
    BY <1>7, <1>2 DEF CallOK, MintingOK
  <2>4. st.phase = "rotate" => minted'[st.pair] = st.sid
    BY <1>7, <1>2 DEF CallOK, MintingOK, DeliveredOK
  <2>5. MintingOK(st)'
    BY <1>7, <2>2, <2>3, <2>4, Zenon DEF CallOK, MintingOK, Chain, Target
  <2>6. PresentingOK(st)'
    BY <1>7 DEF CallOK, PresentingOK, ActiveRecord
  <2>7. QED BY <2>1, <2>5, <2>6 DEF CallOK
<1>8. QED BY <1>5, <1>6, <1>7

\* The record of a login.
StartsAs(n, now, r) ==
    /\ r \in Records /\ r # None
    /\ r.refresh = n /\ r.consumed = {} /\ r.created = now

\* NewRecord makes such a record.
LEMMA NewRecordFacts ==
    ASSUME NEW n \in Nat, NEW now \in Nat
    PROVE  StartsAs(n, now, NewRecord(n, now))
PROOF BY SessionAssumption, RecordFacts DEF StartsAs, NewRecord, Records

\* The insert of a session keeps the stores and every other call sound.
LEMMA CreateSteps ==
    ASSUME SessionsOK, DeliveredOK, UsesOK, NEW s \in Sessions, NEW r \in Records, pg[s] = None,
           Owns(r.refresh, s), r.consumed = {}, r.created <= clock,
           pg' = [pg EXCEPT ![s] = r],
           UNCHANGED <<clock, minted, delivered, redis, uses>>
    PROVE  /\ SessionsOK' /\ DeliveredOK' /\ UsesOK'
           /\ \A st : CallOK(st) /\ ~(st.phase = "create" /\ st.sid = s) => CallOK(st)'
<1>1. /\ pg' \in [Sessions -> Records \cup {None}] /\ pg'[s] = r /\ r # None
      /\ \A t \in Sessions : t # s => pg'[t] = pg[t]
      /\ redis[s] = None
  BY RecordFacts DEF SessionsOK
<1>2. \A n \in 1..Len(minted) : minted[n] \in Sessions
  BY DEF SessionsOK
<1>3. SessionsOK'
  BY <1>1 DEF SessionsOK, Chain, Owns
<1>4. DeliveredOK'
  BY <1>1, <1>2 DEF DeliveredOK, Chain
<1>5. UsesOK'
  BY <1>1, <1>2 DEF UsesOK
<1>6. ASSUME NEW st, CallOK(st), ~(st.phase = "create" /\ st.sid = s)
      PROVE  CallOK(st)'
  <2>1. CallShape(st)'
    BY <1>6 DEF CallOK, CallShape
  <2>2. /\ st.phase \in Minting /\ st.phase # "create" => st.sid # s
        /\ st.phase \in Presenting => st.sid # s
    BY <1>6 DEF CallOK, MintingOK, PresentingOK, Minting
  <2>3. st.phase \in Minting \cup Presenting => pg'[st.sid] = pg[st.sid]
    BY <1>6, <1>1, <2>2 DEF CallOK, MintingOK, PresentingOK
  <2>4. MintingOK(st)'
    BY <1>6, <2>3 DEF CallOK, MintingOK, Chain, Owns, Target, Minting
  <2>5. PresentingOK(st)'
    BY <1>6, <2>3 DEF CallOK, PresentingOK, ActiveRecord, Presenting
  <2>6. QED BY <2>1, <2>4, <2>5 DEF CallOK
<1>7. QED BY <1>3, <1>4, <1>5, <1>6

\* A write of the current version to Redis, answered or not, keeps the stores
\* sound, and every call that does not make the same pair.
LEMMA PutSteps ==
    ASSUME SessionsOK, DeliveredOK, UsesOK, NEW s \in Sessions, pg[s] # None,
           NEW e \in Entries \cup {None},
           e # None => e.version = pg[s].version /\ e.digest = pg[s].refresh
                       /\ e.exp = pg[s].access,
           redis' = [redis EXCEPT ![s] = e],
           delivered' = delivered \/ delivered' = delivered \cup {pg[s].refresh},
           UNCHANGED <<clock, minted, pg, uses>>
    PROVE  /\ SessionsOK' /\ DeliveredOK' /\ UsesOK'
           /\ \A st : CallOK(st) /\ (st.phase \in Minting => Target(st) # pg[s].refresh)
                         => CallOK(st)'
<1>1. /\ redis' \in [Sessions -> Entries \cup {None}] /\ redis'[s] = e
      /\ \A t \in Sessions : t # s => redis'[t] = redis[t]
      /\ pg[s] \in Records
  BY DEF SessionsOK
<1>2. /\ \A n \in 1..Len(minted) : minted[n] \in Sessions
      /\ Owns(pg[s].refresh, s)
  BY DEF SessionsOK, Chain
<1>3. SessionsOK'
  BY <1>1 DEF SessionsOK, Chain, Owns, Records
<1>4. DeliveredOK'
  BY <1>1, <1>2 DEF DeliveredOK, Chain, Owns
<1>5. UsesOK'
  BY DEF UsesOK
<1>6. ASSUME NEW st, CallOK(st), st.phase \in Minting => Target(st) # pg[s].refresh
      PROVE  CallOK(st)'
  <2>1. CallShape(st)'
    BY <1>6 DEF CallOK, CallShape
  <2>2. MintingOK(st)'
    BY <1>6 DEF CallOK, MintingOK, Chain, Owns, Target
  <2>3. st.phase = "get" => (redis'[st.sid] # None /\ redis'[st.sid].version = st.rec.version
                                => redis'[st.sid].digest = st.rec.refresh)
    BY <1>1, <1>6 DEF CallOK, PresentingOK, Presenting
  <2>4. PresentingOK(st)'
    BY <1>6, <2>3 DEF CallOK, PresentingOK, ActiveRecord
  <2>5. QED BY <2>1, <2>2, <2>4 DEF CallOK
<1>7. QED BY <1>3, <1>4, <1>5, <1>6

\* The update of Rotate keeps the stores sound, and every call that does not make
\* the same pair: the copies of the record that other calls hold become old
\* versions.
LEMMA RotateSteps ==
    ASSUME SessionsOK, DeliveredOK, NEW s \in Sessions, pg[s] # None,
           NEW r \in Records, r.version = pg[s].version + 1,
           r.consumed = pg[s].consumed \cup {pg[s].refresh},
           r.created = pg[s].created, r.exp = pg[s].exp, r.revoked = pg[s].revoked,
           r.refresh \notin Chain(s), Owns(r.refresh, s), r.refresh \notin delivered,
           pg[s].refresh \in delivered,
           pg' = [pg EXCEPT ![s] = r],
           UNCHANGED <<clock, minted, delivered, redis>>
    PROVE  /\ SessionsOK' /\ DeliveredOK'
           /\ \A st : CallOK(st) /\ (st.phase \in Minting => Target(st) # r.refresh)
                         => CallOK(st)'
<1>1. /\ pg' \in [Sessions -> Records \cup {None}] /\ pg'[s] = r /\ r # None
      /\ \A t \in Sessions : t # s => pg'[t] = pg[t]
      /\ pg[s] \in Records
  BY RecordFacts DEF SessionsOK
<1>2. \A n \in 1..Len(minted) : minted[n] \in Sessions
  BY DEF SessionsOK
<1>3. redis[s] # None => redis[s].version \in Nat /\ redis[s].version < r.version
  <2>1. ASSUME redis[s] # None
        PROVE  redis[s] \in Entries /\ redis[s].version <= pg[s].version
    BY <2>1, Zenon DEF SessionsOK
  <2>2. pg[s].version \in Nat
    BY <1>1 DEF Records
  <2>3. ASSUME redis[s] # None
        PROVE  redis[s].version \in Nat
    BY <2>1, <2>3 DEF Entries
  <2>4. QED BY <2>1, <2>2, <2>3
<1>4. Chain(s)' = Chain(s) \cup {r.refresh}
  BY <1>1 DEF Chain
<1>5. SessionsOK'
  <2>1. ASSUME NEW t \in Sessions, pg'[t] # None
        PROVE  /\ pg'[t].created <= clock
               /\ \A n \in Chain(t)' : Owns(n, t)'
               /\ pg'[t].refresh \notin pg'[t].consumed
    BY <1>1, <1>4, <2>1 DEF SessionsOK, Chain, Owns
  <2>2. ASSUME NEW t \in Sessions, redis[t] # None
        PROVE  /\ pg'[t] # None
               /\ redis[t].version <= pg'[t].version
               /\ redis[t].version = pg'[t].version =>
                     redis[t].digest = pg'[t].refresh /\ redis[t].exp = pg'[t].access
    <3>1. CASE t = s
      <4>1. redis[t].version \in Nat /\ redis[t].version < r.version /\ r.version \in Nat
        BY <1>3, <2>2, <3>1 DEF Records
      <4>2. redis[t].version <= r.version /\ redis[t].version # r.version
        BY <4>1
      <4>3. QED BY <1>1, <3>1, <4>2
    <3>2. CASE t # s
      BY <1>1, <2>2, <3>2 DEF SessionsOK
    <3>3. QED BY <3>1, <3>2
  <2>3. QED BY <1>1, <2>1, <2>2 DEF SessionsOK
<1>6. DeliveredOK'
  BY <1>1, <1>2, <1>4 DEF DeliveredOK, Chain
<1>7. ASSUME NEW st, CallOK(st), st.phase \in Minting => Target(st) # r.refresh
      PROVE  CallOK(st)'
  <2>1. CallShape(st)'
    BY <1>7 DEF CallOK, CallShape
  <2>2. st.phase = "put" => st.sid # s
    BY <1>7 DEF CallOK, MintingOK, Minting, Target
  <2>3. st.phase = "rotate" => st.next \notin Chain(st.sid)'
    BY <1>1, <1>4, <1>7 DEF CallOK, MintingOK, Minting, Target, Chain
  <2>4. st.phase = "create" => st.sid # s
    BY <1>7 DEF CallOK, MintingOK
  <2>5. MintingOK(st)'
    BY <1>1, <1>7, <2>2, <2>3, <2>4 DEF CallOK, MintingOK, Owns, Target, Minting
  <2>6. st.phase = "get" =>
          /\ st.rec.version <= pg'[st.sid].version
          /\ st.rec.version = pg'[st.sid].version => st.rec.refresh = pg'[st.sid].refresh
    BY <1>1, <1>7 DEF CallOK, PresentingOK, Presenting, Records
  <2>7. st.phase \in Presenting =>
          /\ pg'[st.sid] # None
          /\ pg'[st.sid].revoked = pg[st.sid].revoked
    BY <1>1, <1>7, Zenon DEF CallOK, PresentingOK
  <2>8. PresentingOK(st)'
    BY <1>7, <2>6, <2>7, Zenon DEF CallOK, PresentingOK, ActiveRecord, Presenting
  <2>9. QED BY <2>1, <2>5, <2>8 DEF CallOK
<1>8. QED BY <1>5, <1>6, <1>7

-----------------------------------------------------------------------------

\* The state st is sound for call c and makes no pair that c did not already make.
Allowed(c, st) ==
    /\ CallOK(st)
    /\ st.phase \notin Minting \/ (call[c].phase \in Minting /\ Target(st) = Target(call[c]))

\* Call c moves to such a state.
StillMoves(c) == \E st : Becomes(c, st) /\ Allowed(c, st)

\* A step that only ends sessions, loses keys of Redis, lets time pass and moves
\* one call keeps the invariant.
LEMMA StillInv ==
    ASSUME Inv, Ends, Shrinks, clock' \in Nat, clock <= clock',
           UNCHANGED <<minted, delivered, uses>>,
           call' = call \/ \E c \in Calls : StillMoves(c)
    PROVE  Inv'
<1>1. SessionsOK' /\ DeliveredOK' /\ UsesOK'
  BY StillSessions DEF Inv
<1>2. \A st : CallOK(st) => CallOK(st)'
  BY StillCalls DEF Inv
<1>3. CASE call' = call
  BY <1>1, <1>2, <1>3 DEF Inv, CallsOK, TargetsOK, Target
<1>4. CASE \E c \in Calls : StillMoves(c)
  <2>0. PICK c \in Calls : StillMoves(c)
    BY <1>4
  <2>1. PICK st : Becomes(c, st) /\ Allowed(c, st)
    BY <2>0 DEF StillMoves
  <2>2. CallOK(st)' /\ \A d \in Calls \ {c} : \A x \in {call[d]} : CallOK(x)'
    BY <1>2, <2>1 DEF Inv, CallsOK, Allowed
  <2>3. CallsOK' /\ TargetsOK'
    BY <2>1, <2>2, Moves DEF Inv, Allowed
  <2>4. QED BY <1>1, <2>3 DEF Inv
<1>5. QED BY <1>3, <1>4

\* So does a step of one call that changes no store.
LEMMA QuietInv ==
    ASSUME Inv, NEW c \in Calls, StillMoves(c),
           UNCHANGED <<clock, minted, delivered, pg, redis, uses>>
    PROVE  Inv'
<1>1. clock \in Nat /\ Ends /\ Shrinks
  BY UnchangedEnds DEF Inv, SessionsOK
<1>2. QED BY <1>1, StillInv

\* A call that moves to a sound state.
LEMMA MoveTo ==
    ASSUME NEW c, NEW st, Becomes(c, st), CallOK(st),
           st.phase \notin Minting \/ (call[c].phase \in Minting /\ Target(st) = Target(call[c]))
    PROVE  StillMoves(c)
<1>1. Allowed(c, st)
  BY DEF Allowed
<1>2. QED BY <1>1, Zenon DEF StillMoves

\* A call that ends.
LEMMA DoneMoves ==
    ASSUME NEW c, NEW r, Done(c, r)
    PROVE  StillMoves(c)
<1>1. PICK st : st = [Idle EXCEPT !.ok = (r = "ok")]
  BY Zenon
<1>2. Becomes(c, st)
  BY <1>1 DEF Done
<1>3. CallOK(st) /\ st.phase \notin Minting
  BY <1>1, DoneOK, Zenon
<1>4. QED BY <1>2, <1>3, MoveTo

\* The invariant, for one call.
LEMMA CallFacts ==
    ASSUME CallsOK, NEW c \in Calls
    PROVE  CallOK(call[c]) /\ CallShape(call[c]) /\ MintingOK(call[c]) /\ PresentingOK(call[c])
PROOF BY DEF CallsOK, CallOK

\* The clock, a deployed key file, a restart of Auth and a key that Redis loses
\* keep the invariant.
LEMMA EnvironmentInv ==
    ASSUME Inv, Tick \/ DeployKeys \/ Restart \/ \E s \in Sessions : RedisLoses(s)
    PROVE  Inv'
<1>1. clock \in Nat
  BY DEF Inv, SessionsOK
<1>2. CASE Tick
  BY <1>1, <1>2, StillInv, UnchangedEnds DEF Tick, Inv
<1>3. CASE DeployKeys
  BY <1>1, <1>3, StillInv, UnchangedEnds DEF DeployKeys, Inv
<1>4. CASE Restart
  BY <1>1, <1>4, StillInv, UnchangedEnds DEF Restart, Inv
<1>5. CASE \E s \in Sessions : RedisLoses(s)
  <2>1. PICK s \in Sessions : RedisLoses(s)
    BY <1>5
  <2>2. Ends /\ Shrinks
    BY <2>1, UnchangedEnds, Zenon DEF RedisLoses, Inv
  <2>3. QED BY <1>1, <2>1, <2>2, StillInv DEF RedisLoses
<1>6. QED BY <1>2, <1>3, <1>4, <1>5

\* A request that is dropped keeps the invariant.
LEMMA DroppedInv ==
    ASSUME Inv, NEW c \in Calls, RequestDropped(c)
    PROVE  Inv'
<1>1. StillMoves(c)
  <2>1. CASE call[c].phase = "put" /\ call[c].op = "login"
    <3>1. PICK st : st = [call[c] EXCEPT !.phase = "cleanup"]
      BY Zenon
    <3>2. Becomes(c, st)
      BY <2>1, <3>1 DEF RequestDropped, Go
    <3>3. CallOK(st) /\ st.phase \notin Minting
      BY <2>1, <3>1, CallFacts, Zenon DEF Inv, CallOK, CallShape, MintingOK, PresentingOK, Fields, Minting, Presenting
    <3>4. QED BY <3>2, <3>3, MoveTo
  <2>2. CASE ~(call[c].phase = "put" /\ call[c].op = "login")
    BY <2>2, DoneMoves DEF RequestDropped
  <2>3. QED BY <2>1, <2>2
<1>2. QED BY <1>1, QuietInv DEF RequestDropped

\* Service.Prepare keeps the invariant.
LEMMA PrepareInv ==
    ASSUME Inv, NEW c \in Calls, Prepare(c)
    PROVE  Inv'
<1>1. PICK s \in Sessions \ {minted[n] : n \in 1..Len(minted)} :
        /\ minted' = Append(minted, s)
        /\ Becomes(c, [Begin("login", Len(minted) + 1, s, "create") EXCEPT !.now = clock])
  BY DEF Prepare
<1>2. PICK st : st = [Begin("login", Len(minted) + 1, s, "create") EXCEPT !.now = clock]
  BY Zenon
<1>3. /\ SessionsOK' /\ DeliveredOK' /\ UsesOK'
      /\ \A x : CallOK(x) /\ ~(x.phase = "create" /\ x.sid = s) => CallOK(x)'
  BY <1>1, MintSteps DEF Prepare, Inv
<1>4. minted \in Seq(Sessions) /\ Len(minted) \in Nat /\ clock \in Nat
  BY DEF Inv, SessionsOK
<1>5. /\ Len(minted') = Len(minted) + 1 /\ minted'[Len(minted) + 1] = s
      /\ \A n \in 1..Len(minted) : minted'[n] = minted[n]
  BY <1>1, <1>4
<1>6. pg[s] = None
  BY <1>1 DEF Inv, SessionsOK, Chain, Owns
<1>7. /\ DOMAIN st = Fields /\ st.phase = "create" /\ st.op = "login" /\ st.sid = s
      /\ st.pair = Len(minted) + 1 /\ st.next = 0 /\ st.now = clock /\ st.at = 0
  BY <1>2 DEF Begin, Fields
<1>8. Len(minted) + 1 \notin delivered
  BY <1>4 DEF Inv, DeliveredOK
<1>9. CallOK(st)'
  <2>1. CallShape(st)' /\ PresentingOK(st)'
    BY <1>4, <1>7 DEF CallShape, PresentingOK, Minting, Presenting
  <2>2. MintingOK(st)'
    BY <1>1, <1>4, <1>5, <1>6, <1>7, <1>8 DEF MintingOK, Owns, Target, Minting, Prepare
  <2>3. QED BY <2>1, <2>2 DEF CallOK
<1>10. ASSUME NEW d \in Calls
       PROVE  ~(call[d].phase = "create" /\ call[d].sid = s)
  BY <1>1, CallFacts DEF Inv, MintingOK, Owns, Target, Minting
<1>11. \A d \in Calls \ {c} : \A x \in {call[d]} : CallOK(x)'
  BY <1>3, <1>10, CallFacts, Zenon DEF Inv
<1>12. \A d \in Calls \ {c} : call[d].phase \in Minting => Target(st) # Target(call[d])
  <2>1. Target(st) = Len(minted) + 1
    BY <1>7 DEF Target
  <2>2. \A d \in Calls : call[d].phase \in Minting => Target(call[d]) \in 1..Len(minted)
    BY CallFacts, Zenon DEF Inv, MintingOK, Owns
  <2>3. QED BY <1>4, <2>1, <2>2
<1>13. Becomes(c, st)
  BY <1>1, <1>2
<1>14. CallsOK' /\ TargetsOK'
  BY <1>9, <1>11, <1>12, <1>13, Moves, Zenon DEF Inv
<1>15. QED BY <1>3, <1>14 DEF Inv

\* Repository.Create keeps the invariant, its lost answer included.
LEMMA CreateInv ==
    ASSUME Inv, NEW c \in Calls, Create(c)
    PROVE  Inv'
<1> DEFINE s == call[c].sid
           r == NewRecord(call[c].pair, call[c].now)
<1>1. /\ call[c].phase = "create" /\ CallShape(call[c]) /\ s \in Sessions /\ pg[s] = None
      /\ call[c].pair \in Nat /\ call[c].now \in Nat /\ call[c].now <= clock
      /\ call[c].op = "login"
      /\ Owns(call[c].pair, s) /\ call[c].pair \notin delivered
      /\ \A n \in 1..Len(minted) : minted[n] = s => n = call[c].pair
  BY CallFacts, Zenon DEF Create, Inv, CallShape, MintingOK, Minting, Target
<1>2. StartsAs(call[c].pair, call[c].now, r)
  BY <1>1, NewRecordFacts, Zenon
<1>3. pg' = [pg EXCEPT ![s] = r] /\ UNCHANGED <<clock, minted, delivered, redis, uses>>
  BY Zenon DEF Create
<1>4. \/ Becomes(c, [call[c] EXCEPT !.phase = "activate"])
      \/ \E st : st = [Idle EXCEPT !.ok = FALSE] /\ Becomes(c, st)
  BY Zenon DEF Create, Go, Done
<1> HIDE DEF r
<1>5. /\ SessionsOK' /\ DeliveredOK' /\ UsesOK'
      /\ \A x : CallOK(x) /\ ~(x.phase = "create" /\ x.sid = s) => CallOK(x)'
  <2>1. /\ r \in Records /\ Owns(r.refresh, s) /\ r.consumed = {} /\ r.created <= clock
    BY <1>1, <1>2, Zenon DEF StartsAs
  <2>2. QED BY <1>1, <1>3, <2>1, CreateSteps, Zenon DEF Inv
<1>6. ASSUME NEW d \in Calls \ {c}
      PROVE  ~(call[d].phase = "create" /\ call[d].sid = s)
  <2>1. call[d].phase = "create" /\ call[d].sid = s => call[d].pair = call[c].pair
    BY <1>1, CallFacts, Zenon DEF Inv, MintingOK, Owns, Target, Minting
  <2>2. QED BY <1>1, <2>1, Zenon DEF Inv, TargetsOK, Target, Minting
<1>7. \A d \in Calls \ {c} : \A x \in {call[d]} : CallOK(x)'
  BY <1>5, <1>6, CallFacts, Zenon DEF Inv
<1>8. CASE Becomes(c, [call[c] EXCEPT !.phase = "activate"])
  <2>1. PICK st : st = [call[c] EXCEPT !.phase = "activate"]
    BY Zenon
  <2>2. /\ DOMAIN st = Fields /\ st.phase = "activate" /\ st.op = "login" /\ st.sid = s
        /\ st.pair = call[c].pair /\ st.next = call[c].next /\ st.now = call[c].now
        /\ st.at = call[c].at
    BY <1>1, <2>1 DEF CallShape, Fields
  <2>3. CallShape(st)' /\ PresentingOK(st)'
    BY <1>1, <2>2, Zenon DEF CallShape, PresentingOK, Minting, Presenting
  <2>4. pg'[s] = r
    BY <1>1, <1>3, Zenon DEF Inv, SessionsOK
  <2>5. MintingOK(st)'
    BY <1>1, <1>2, <1>3, <2>2, <2>4, Zenon DEF MintingOK, Owns, Target, Minting, StartsAs
  <2>6. CallOK(st)' /\ Target(st) = Target(call[c]) /\ call[c].phase \in Minting
    BY <1>1, <2>2, <2>3, <2>5, Zenon DEF CallOK, Target, Minting
  <2>7. CallsOK' /\ TargetsOK'
    BY <1>7, <1>8, <2>1, <2>6, Moves DEF Inv
  <2>8. QED BY <1>5, <2>7 DEF Inv
<1>9. CASE \E st : st = [Idle EXCEPT !.ok = FALSE] /\ Becomes(c, st)
  <2>1. PICK st : st = [Idle EXCEPT !.ok = FALSE] /\ Becomes(c, st)
    BY <1>9
  <2>2. CallsOK' /\ TargetsOK'
    BY <1>7, <2>1, DoneOK, Moves DEF Inv
  <2>3. QED BY <1>5, <2>2 DEF Inv
<1>10. QED BY <1>4, <1>8, <1>9

\* Service.Activate keeps the invariant.
LEMMA ActivateInv ==
    ASSUME Inv, NEW c \in Calls, Activate(c)
    PROVE  Inv'
<1> DEFINE r == pg[call[c].sid]
<1>1. /\ call[c].phase = "activate" /\ CallShape(call[c]) /\ call[c].sid \in Sessions
      /\ pg[call[c].sid] \in Records
      /\ call[c].op = "login" /\ call[c].pair \in Nat /\ call[c].now \in Nat /\ clock \in Nat
      /\ Owns(call[c].pair, call[c].sid) /\ call[c].pair \notin delivered
  BY CallFacts DEF Activate, Inv, SessionsOK, CallShape, MintingOK, Minting, Target
<1>2. StillMoves(c)
  <2>1. CASE ActiveRecord(r, clock) /\ r = NewRecord(call[c].pair, call[c].now)
    <3>1. PICK st : st = [call[c] EXCEPT !.phase = "put", !.rec = r, !.now = clock,
                                          !.next = call[c].pair]
      OBVIOUS
    <3>2. Becomes(c, st)
      BY <2>1, <3>1 DEF Activate
    <3>3. /\ DOMAIN st = Fields /\ st.phase = "put" /\ st.op = "login" /\ st.sid = call[c].sid
          /\ st.pair = call[c].pair /\ st.next = call[c].pair /\ st.now = clock
          /\ st.at = call[c].at /\ st.rec = r
      BY <1>1, <3>1 DEF CallShape, Fields
    <3>4. r.refresh = call[c].pair
      <4>1. StartsAs(call[c].pair, call[c].now, NewRecord(call[c].pair, call[c].now))
        BY <1>1, NewRecordFacts
      <4>2. QED BY <2>1, <4>1 DEF StartsAs
    <3>5. CallShape(st) /\ PresentingOK(st)
      BY <1>1, <3>3 DEF CallShape, PresentingOK, Minting, Presenting
    <3>6. MintingOK(st)
      <4>1. Target(st) = call[c].pair
        BY <3>3, Zenon DEF Target
      <4>2. st.now <= clock
        BY <1>1, <3>3
      <4>3. pg[st.sid] = r /\ r # None
        BY <1>1, <3>3, RecordFacts
      <4>4. QED BY <1>1, <3>3, <3>4, <4>1, <4>2, <4>3, Zenon DEF MintingOK, Minting
    <3>7. call[c].phase \in Minting /\ Target(st) = Target(call[c])
      BY <1>1, <3>3 DEF Target, Minting
    <3>8. QED BY <3>2, <3>5, <3>6, <3>7, MoveTo DEF CallOK
  <2>2. CASE ~(ActiveRecord(r, clock) /\ r = NewRecord(call[c].pair, call[c].now))
    BY <2>2, DoneMoves DEF Activate
  <2>3. QED BY <2>1, <2>2, Zenon
<1>3. QED BY <1>2, QuietInv DEF Activate

\* A minting call that ends or goes to clean up.
LEMMA Leaves ==
    ASSUME CallsOK, NEW c \in Calls,
           \/ \E r : Done(c, r)
           \/ Go(c, "cleanup") /\ call[c].sid \in Sessions /\ call[c].op = "login"
    PROVE  \E st : Becomes(c, st) /\ st.phase \notin Minting /\ CallOK(st) /\ CallOK(st)'
<1>1. CASE \E r : Done(c, r)
  <2>1. PICK r : Done(c, r)
    BY <1>1
  <2>2. PICK st : st = [Idle EXCEPT !.ok = (r = "ok")]
    BY Zenon
  <2>3. Becomes(c, st)
    BY <2>1, <2>2 DEF Done
  <2>4. CallOK(st) /\ st.phase \notin Minting /\ CallOK(st)'
    BY <2>2, DoneOK, Zenon
  <2>5. QED BY <2>3, <2>4
<1>2. CASE Go(c, "cleanup") /\ call[c].sid \in Sessions /\ call[c].op = "login"
  <2>1. PICK st : st = [call[c] EXCEPT !.phase = "cleanup"]
    BY Zenon
  <2>2. Becomes(c, st)
    BY <1>2, <2>1 DEF Go
  <2>3. /\ DOMAIN st = Fields /\ st.phase = "cleanup" /\ st.sid \in Sessions /\ st.op = "login"
        /\ st.pair \in Nat /\ st.next \in Nat /\ st.now \in Nat /\ st.at \in Nat
    BY <1>2, <2>1, CallFacts DEF CallShape, Fields
  <2>4. CallOK(st) /\ CallOK(st)' /\ st.phase \notin Minting
    BY <2>3, Zenon DEF CallOK, CallShape, MintingOK, PresentingOK, Minting, Presenting
  <2>5. QED BY <2>2, <2>4
<1>3. QED BY <1>1, <1>2

\* Store.Put and the answer to the browser keep the invariant.
LEMMA PutInv ==
    ASSUME Inv, NEW c \in Calls, Put(c)
    PROVE  Inv'
<1> DEFINE s == call[c].sid
           r == call[c].rec
           new == [version |-> r.version, digest |-> call[c].next, exp |-> r.access]
           ok == ActiveRecord(r, call[c].now) /\ call[c].now < r.access /\ PutAllowed(s, new)
           failed == IF call[c].op = "login" THEN Go(c, "cleanup") ELSE Done(c, "unavailable")
           e == IF clock < new.exp THEN new ELSE None
<1>1. /\ call[c].phase = "put" /\ s \in Sessions /\ pg[s] # None /\ r \in Records
      /\ r.version = pg[s].version /\ r.access = pg[s].access /\ pg[s].refresh = call[c].next
      /\ call[c].next \in Nat
  BY CallFacts, Zenon DEF Put, Inv, CallShape, MintingOK, Minting
<1>2. /\ UNCHANGED <<clock, minted, pg, uses>>
      /\ redis' = IF ok THEN [redis EXCEPT ![s] = e] ELSE redis
      /\ \/ ok /\ Answer(c)
         \/ ok /\ failed /\ UNCHANGED delivered
         \/ ~ok /\ failed /\ UNCHANGED delivered
  BY Zenon DEF Put
<1>3. /\ new \in Entries /\ new.version = pg[s].version /\ new.digest = pg[s].refresh
      /\ new.exp = pg[s].access
  BY <1>1, Zenon DEF Entries, Records
<1>4. e \in Entries \cup {None} /\ (e # None => e = new)
  BY <1>3
<1>5. /\ Answer(c) => Done(c, "ok")
      /\ Answer(c) => delivered' = delivered \/ delivered' = delivered \cup {pg[s].refresh}
  BY <1>1 DEF Answer
<1> HIDE DEF ok, new, e
<1>6. \/ \E x : Done(c, x)
      \/ Go(c, "cleanup") /\ call[c].sid \in Sessions /\ call[c].op = "login"
  BY <1>1, <1>2, <1>5, Zenon
<1>7. PICK st : Becomes(c, st) /\ st.phase \notin Minting /\ CallOK(st) /\ CallOK(st)'
  BY <1>6, Leaves, Zenon DEF Inv
<1>8. CASE ok
  <2>1. delivered' = delivered \/ delivered' = delivered \cup {pg[s].refresh}
    BY <1>2, <1>5, <1>8
  <2>2. /\ SessionsOK' /\ DeliveredOK' /\ UsesOK'
        /\ \A x : CallOK(x) /\ (x.phase \in Minting => Target(x) # pg[s].refresh) => CallOK(x)'
    BY <1>1, <1>2, <1>3, <1>4, <1>8, <2>1, PutSteps, Zenon DEF Inv
  <2>3. \A d \in Calls \ {c} : call[d].phase \in Minting => Target(call[d]) # pg[s].refresh
    BY <1>1, Zenon DEF Inv, TargetsOK, Target, Minting
  <2>4. \A d \in Calls \ {c} : \A x \in {call[d]} : CallOK(x)'
    BY <2>2, <2>3, CallFacts DEF Inv
  <2>5. CallsOK' /\ TargetsOK'
    BY <1>7, <2>4, Moves DEF Inv
  <2>6. QED BY <2>2, <2>5, Zenon DEF Inv
<1>9. CASE ~ok
  <2>1. StillMoves(c)
    BY <1>7, MoveTo
  <2>2. QED BY <1>2, <1>9, <2>1, QuietInv
<1>10. QED BY <1>8, <1>9

\* The clean-up of a login and a logout keep the invariant.
LEMMA EndInv ==
    ASSUME Inv, NEW c \in Calls, Cleanup(c) \/ Revoke(c)
    PROVE  Inv'
<1>1. Ends
  BY RevokeInEnds, UnchangedEnds DEF Cleanup, Revoke, Inv
<1>2. /\ clock \in Nat /\ Shrinks /\ UNCHANGED <<clock, minted, delivered, uses>>
  BY UnchangedEnds, Zenon DEF Cleanup, Revoke, Inv, SessionsOK
<1>3. StillMoves(c)
  BY DoneMoves, Zenon DEF Cleanup, Revoke
<1>4. QED BY <1>1, <1>2, <1>3, StillInv

\* The start of a refresh keeps the invariant.
LEMMA RefreshInv ==
    ASSUME Inv, NEW c \in Calls, RefreshSession(c)
    PROVE  Inv'
<1>1. PICK n \in delivered :
        /\ minted' = Append(minted, minted[n])
        /\ Becomes(c, [Begin("refresh", n, minted[n], "rotate")
                             EXCEPT !.next = Len(minted) + 1, !.now = clock])
  BY Zenon DEF RefreshSession
<1>2. PICK s \in Sessions : s = minted[n]
  BY DEF Inv, SessionsOK, DeliveredOK
<1>3. PICK st : st = [Begin("refresh", n, s, "rotate")
                             EXCEPT !.next = Len(minted) + 1, !.now = clock]
  OBVIOUS
<1>4. /\ minted \in Seq(Sessions) /\ Len(minted) \in Nat /\ clock \in Nat
      /\ n \in 1..Len(minted) /\ pg[s] # None /\ pg[s].created <= clock
      /\ Len(minted) + 1 \notin delivered
  BY <1>2 DEF Inv, SessionsOK, DeliveredOK
<1>5. /\ SessionsOK' /\ DeliveredOK' /\ UsesOK'
      /\ \A x : CallOK(x) /\ ~(x.phase = "create" /\ x.sid = s) => CallOK(x)'
  BY <1>1, <1>2, MintSteps DEF RefreshSession, Inv
<1>6. /\ Len(minted') = Len(minted) + 1 /\ minted'[Len(minted) + 1] = s /\ minted'[n] = s
  BY <1>1, <1>2, <1>4
<1>7. /\ DOMAIN st = Fields /\ st.phase = "rotate" /\ st.op = "refresh" /\ st.sid = s
      /\ st.pair = n /\ st.next = Len(minted) + 1 /\ st.now = clock /\ st.at = 0
  BY <1>3 DEF Begin, Fields
<1>8. Len(minted) + 1 \notin Chain(s)
  BY <1>4 DEF Inv, SessionsOK, Owns
<1>9. CallOK(st)'
  <2>1. CallShape(st)' /\ PresentingOK(st)'
    BY <1>4, <1>7 DEF CallShape, PresentingOK, Minting, Presenting
  <2>2. MintingOK(st)'
    BY <1>4, <1>6, <1>7, <1>8 DEF MintingOK, Owns, Target, Minting, Chain, RefreshSession
  <2>3. QED BY <2>1, <2>2 DEF CallOK
<1>10. ASSUME NEW d \in Calls
       PROVE  ~(call[d].phase = "create" /\ call[d].sid = s)
  BY <1>4, CallFacts, Zenon DEF Inv, MintingOK
<1>11. \A d \in Calls \ {c} : \A x \in {call[d]} : CallOK(x)'
  BY <1>5, <1>10, CallFacts DEF Inv
<1>12. \A d \in Calls \ {c} : call[d].phase \in Minting => Target(st) # Target(call[d])
  <2>1. Target(st) = Len(minted) + 1
    BY <1>7 DEF Target
  <2>2. \A d \in Calls : call[d].phase \in Minting => Target(call[d]) \in 1..Len(minted)
    BY CallFacts, Zenon DEF Inv, MintingOK, Owns
  <2>3. QED BY <1>4, <2>1, <2>2
<1>13. Becomes(c, st)
  BY <1>1, <1>2, <1>3
<1>14. CallsOK' /\ TargetsOK'
  BY <1>9, <1>11, <1>12, <1>13, Moves DEF Inv
<1>15. QED BY <1>5, <1>14 DEF Inv

\* The record q is r after the rotation from pair n to pair next.
RotatesTo(r, n, next, q) ==
    /\ q \in Records /\ q.version = r.version + 1 /\ q.refresh = next
    /\ q.consumed = r.consumed \cup {n}
    /\ q.created = r.created /\ q.exp = r.exp /\ q.revoked = r.revoked

\* Rotated makes such a record.
LEMMA RotatedFacts ==
    ASSUME NEW r \in Records, NEW n \in Nat, NEW next \in Nat, NEW now \in Nat
    PROVE  RotatesTo(r, n, next, Rotated(r, n, next, now))
<1>1. PICK a \in Nat, i \in Nat :
        a = Least(now + AccessTTL, r.exp) /\ i = Least(now + IdleTTL, r.exp)
  BY SessionAssumption DEF Least, Records
<1>0. r.consumed \cup {n} \in SUBSET Nat /\ r.version + 1 \in Nat \ {0}
  BY DEF Records
<1>2. PICK d \in SUBSET Nat, v \in Nat \ {0} : d = r.consumed \cup {n} /\ v = r.version + 1
  BY <1>0, Zenon
<1>3. Rotated(r, n, next, now) = [r EXCEPT !.consumed = d, !.version = v, !.refresh = next,
                                           !.access = a, !.idle = i]
  BY <1>1, <1>2 DEF Rotated
<1> DEFINE q == [r EXCEPT !.consumed = d, !.version = v, !.refresh = next,
                          !.access = a, !.idle = i]
<1>4. q \in Records
  BY Zenon DEF Records
<1>5. /\ q.version = v /\ q.refresh = next /\ q.consumed = d
      /\ q.created = r.created /\ q.exp = r.exp /\ q.revoked = r.revoked
  BY DEF Records
<1> HIDE DEF q
<1>6. RotatesTo(r, n, next, q)
  BY <1>2, <1>4, <1>5 DEF RotatesTo
<1>7. QED BY <1>3, <1>6 DEF q

\* The outcomes of Repository.Rotate: a rotation of an active session from its
\* current pair; the end of the session; or a refusal, which for a consumed pair
\* means that the session was over.
Verdict(r, n, next, now, out) ==
    \/ out = <<"ok", Rotated(r, n, next, now)>> /\ ActiveRecord(r, now) /\ r.refresh = n
    \/ out = <<"reuse", [r EXCEPT !.revoked = TRUE]>>
    \/ /\ out = <<"invalid", r>>
       /\ ~ActiveRecord(r, now) \/ n \notin r.consumed \/ r.refresh = n

\* RotateRow has one of these outcomes.
LEMMA RotateVerdict ==
    ASSUME NEW r, NEW n, NEW next, NEW now
    PROVE  Verdict(r, n, next, now, RotateRow(r, n, next, now))
PROOF BY Zenon DEF Verdict, RotateRow

\* Service.Refresh keeps the invariant, with the commit whose answer is lost.
LEMMA RotateInv ==
    ASSUME Inv, NEW c \in Calls, Rotate(c)
    PROVE  Inv'
<1> DEFINE s == call[c].sid
           n == call[c].pair
           now == call[c].now
           next == call[c].next
           r == pg[s]
           out == RotateRow(r, n, next, now)
           q == out[2]
<1>1. /\ call[c].phase = "rotate" /\ CallShape(call[c]) /\ s \in Sessions /\ r \in Records
      /\ r # None /\ n \in Nat /\ next \in Nat /\ now \in Nat /\ clock \in Nat
      /\ call[c].op = "refresh" /\ now <= clock
      /\ n \in delivered /\ minted[n] = s /\ r.created <= now
      /\ next \notin Chain(s) /\ Owns(next, s) /\ next \notin delivered
  BY CallFacts, Zenon DEF Rotate, Inv, SessionsOK, CallShape, MintingOK, Minting, Target
<1>2. /\ UNCHANGED <<clock, minted, delivered, redis>>
      /\ pg' = [pg EXCEPT ![s] = q]
      /\ \/ /\ IF out[1] = "ok" /\ now < q.access
               THEN Becomes(c, [call[c] EXCEPT !.phase = "put", !.rec = q])
               ELSE \E x : Done(c, x)
            /\ uses' = [uses EXCEPT ![n] = IF out[1] = "ok" THEN <<uses[n][1] + 1, uses[n][2]>>
                                           ELSE <<uses[n][1], uses[n][1]>>]
         \/ (\E x : Done(c, x)) /\ uses' = uses
  BY Zenon DEF Rotate
<1>3. \/ /\ out[1] = "ok" /\ q = Rotated(r, n, next, now)
         /\ ActiveRecord(r, now) /\ r.refresh = n
      \/ /\ out[1] = "reuse" /\ q = [r EXCEPT !.revoked = TRUE]
      \/ /\ out[1] = "invalid" /\ q = r
         /\ ~ActiveRecord(r, now) \/ n \notin r.consumed \/ r.refresh = n
  <2>1. Verdict(r, n, next, now, out)
    BY RotateVerdict
  <2> HIDE DEF out, r, n, next, now
  <2>3. CASE out = <<"ok", Rotated(r, n, next, now)>> /\ ActiveRecord(r, now) /\ r.refresh = n
    BY <2>3
  <2>4. CASE out = <<"reuse", [r EXCEPT !.revoked = TRUE]>>
    BY <2>4
  <2>5. CASE /\ out = <<"invalid", r>>
             /\ ~ActiveRecord(r, now) \/ n \notin r.consumed \/ r.refresh = n
    BY <2>5
  <2>6. QED BY <2>1, <2>3, <2>4, <2>5, Zenon DEF Verdict
<1> HIDE DEF out
<1>4. /\ n \in Pairs /\ n \in 1..Len(minted)
      /\ uses[n][1] \in 0..1 /\ uses[n][2] \in 0..1
      /\ uses[n][1] = 1 => n \in r.consumed
  <2>1. n \in 1..Len(minted) /\ Len(minted) <= MaxMints
    BY <1>1, Zenon DEF Inv, DeliveredOK, SessionsOK
  <2>2. n \in Pairs
    BY <2>1, SessionAssumption DEF Pairs, Inv, SessionsOK
  <2>3. QED BY <1>1, <2>1, <2>2, Zenon DEF Inv, UsesOK
<1>5. r.refresh \notin r.consumed
  BY <1>1, Zenon DEF Inv, SessionsOK
<1>6. DOMAIN uses = Pairs /\ \A m \in 1..Len(minted) : minted[m] \in Sessions
  BY DEF Inv, UsesOK, SessionsOK
<1>7. CASE out[1] = "ok"
  <2>1. /\ ActiveRecord(r, now) /\ r.refresh = n
        /\ q \in Records /\ q.version = r.version + 1 /\ q.refresh = next
        /\ q.consumed = r.consumed \cup {n}
        /\ q.created = r.created /\ q.exp = r.exp /\ q.revoked = r.revoked
    <3>1. q = Rotated(r, n, next, now) /\ ActiveRecord(r, now) /\ r.refresh = n
      BY <1>3, <1>7
    <3>0. r \in Records /\ n \in Nat /\ next \in Nat /\ now \in Nat
      BY <1>1
    <3> HIDE DEF r, n, next, now
    <3>2. RotatesTo(r, n, next, Rotated(r, n, next, now))
      BY <3>0, RotatedFacts
    <3>3. RotatesTo(r, n, next, q)
      BY <3>1, <3>2
    <3>4. QED BY <3>1, <3>3 DEF RotatesTo
  <2> HIDE DEF q
  <2>2. /\ SessionsOK' /\ DeliveredOK'
        /\ \A x : CallOK(x) /\ (x.phase \in Minting => Target(x) # next) => CallOK(x)'
    BY <1>1, <1>2, <2>1, RotateSteps, Zenon DEF Inv
  <2>3. pg'[s] = q /\ q # None /\ \A t \in Sessions : t # s => pg'[t] = pg[t]
    BY <1>1, <1>2, <2>1, RecordFacts, Zenon DEF Inv, SessionsOK
  <2>4. UsesOK'
    <3>0. \A m \in 1..Len(minted) : pg[minted[m]] # None =>
            /\ pg'[minted[m]] # None
            /\ m \in pg[minted[m]].consumed => m \in pg'[minted[m]].consumed
            /\ pg'[minted[m]].revoked = pg[minted[m]].revoked
            /\ pg'[minted[m]].exp = pg[minted[m]].exp
      BY <1>6, <2>1, <2>3
    <3>1. ASSUME uses' = uses
          PROVE  UsesOK'
      BY <1>2, <3>0, <3>1 DEF Inv, UsesOK
    <3>2. ASSUME uses' = [uses EXCEPT ![n] = <<uses[n][1] + 1, uses[n][2]>>]
          PROVE  UsesOK'
      <4>1. uses[n][1] = 0
        <5>1. r.refresh = n
          BY <2>1
        <5>2. n \notin r.consumed
          BY <5>1, <1>5
        <5>3. uses[n][1] # 1
          BY <5>2, <1>4
        <5>4. uses[n][1] \in 0..1
          BY <1>4
        <5>5. QED BY <5>3, <5>4
      <4>2. uses' = [uses EXCEPT ![n] = <<1, uses[n][2]>>]
        BY <3>2, <4>1
      <4>3. uses' \in [Pairs -> (0..1) \X (0..1)]
        <5>1. uses \in [Pairs -> (0..1) \X (0..1)]
          BY DEF Inv, UsesOK
        <5>2. uses[n][2] \in 0..1 /\ n \in Pairs
          BY <1>4
        <5>3. <<1, uses[n][2]>> \in (0..1) \X (0..1)
          BY <5>2
        <5>4. QED BY <5>1, <5>2, <5>3, <4>2
      <4>4. /\ uses'[n][1] = 1 /\ uses'[n][2] = uses[n][2]
            /\ \A m \in Pairs : m # n => uses'[m] = uses[m]
        BY <1>4, <1>6, <4>2
      <4>5. n \in pg'[minted[n]].consumed /\ pg'[minted[n]] # None
        BY <1>1, <2>1, <2>3, Zenon
      <4>6. ASSUME NEW m \in Pairs
            PROVE  /\ uses'[m][1] = 1 => /\ m \in 1..Len(minted)
                                         /\ pg'[minted[m]] # None
                                         /\ m \in pg'[minted[m]].consumed
                   /\ uses'[m][2] = 1 => /\ m \in 1..Len(minted)
                                         /\ pg'[minted[m]] # None
                                         /\ pg'[minted[m]].revoked \/ clock >= pg'[minted[m]].exp
        <5>1. /\ uses[m][1] = 1 => /\ m \in 1..Len(minted)
                                   /\ pg[minted[m]] # None
                                   /\ m \in pg[minted[m]].consumed
              /\ uses[m][2] = 1 => /\ m \in 1..Len(minted)
                                   /\ pg[minted[m]] # None
                                   /\ pg[minted[m]].revoked \/ clock >= pg[minted[m]].exp
          BY Zenon DEF Inv, UsesOK
        <5>2. QED BY <1>4, <3>0, <4>4, <4>5, <5>1, Zenon
      <4>7. QED BY <1>2, <4>3, <4>6 DEF UsesOK
    <3>3. QED BY <1>2, <1>7, <3>1, <3>2
  <2>5. \A d \in Calls \ {c} : call[d].phase \in Minting => Target(call[d]) # next
    BY <1>1 DEF Inv, TargetsOK, Target, Minting
  <2>6. \A d \in Calls \ {c} : \A x \in {call[d]} : CallOK(x)'
    BY <2>2, <2>5, CallFacts, Zenon DEF Inv
  <2>7. ASSUME Becomes(c, [call[c] EXCEPT !.phase = "put", !.rec = q])
        PROVE  CallsOK' /\ TargetsOK'
    <3>1. PICK st : st = [call[c] EXCEPT !.phase = "put", !.rec = q]
      OBVIOUS
    <3>2. /\ DOMAIN st = Fields /\ st.phase = "put" /\ st.op = "refresh" /\ st.sid = s
          /\ st.pair = n /\ st.next = next /\ st.now = now /\ st.at = call[c].at /\ st.rec = q
      BY <1>1, <3>1 DEF CallShape, Fields
    <3>3. CallShape(st)' /\ PresentingOK(st)'
      BY <1>1, <3>2, Zenon DEF CallShape, PresentingOK, Minting, Presenting
    <3>4. MintingOK(st)'
      BY <1>1, <1>2, <2>1, <2>3, <3>2, Zenon DEF MintingOK, Owns, Target, Minting
    <3>5. CallOK(st)' /\ Target(st) = Target(call[c]) /\ call[c].phase \in Minting
      BY <1>1, <3>2, <3>3, <3>4, Zenon DEF CallOK, Target, Minting
    <3>6. QED BY <2>6, <2>7, <3>1, <3>5, Moves DEF Inv
  <2>8. ASSUME \E x : Done(c, x)
        PROVE  CallsOK' /\ TargetsOK'
    <3>1. PICK st : Becomes(c, st) /\ st.phase \notin Minting /\ CallOK(st) /\ CallOK(st)'
      BY <2>8, Leaves DEF Inv
    <3>2. QED BY <2>6, <3>1, Moves DEF Inv
  <2>9. QED BY <1>2, <2>2, <2>4, <2>7, <2>8 DEF Inv
<1>8. CASE out[1] # "ok"
  <2>1. Ends /\ (out[1] = "reuse" => pg'[s].revoked) /\ (out[1] = "invalid" => pg' = pg)
    <3>1. CASE out[1] = "reuse"
      BY <1>1, <1>2, <1>3, <3>1, OneEnds, Zenon DEF Inv
    <3>2. CASE out[1] = "invalid"
      <4>1. pg' = pg
        BY <1>1, <1>2, <1>3, <3>2 DEF Inv, SessionsOK
      <4>2. QED BY <3>2, <4>1, UnchangedEnds DEF Inv
    <3>3. QED BY <1>3, <1>8, <3>1, <3>2
  <2>3. Shrinks
    BY <1>2, UnchangedEnds DEF Inv
  <2>5. UsesOK'
    <3>1. CASE uses' = uses
      BY <1>1, <1>2, <2>1, <2>3, <3>1, StillSessions DEF Inv
    <3>2. CASE uses' = [uses EXCEPT ![n] = <<uses[n][1], uses[n][1]>>]
      <4>1. uses' \in [Pairs -> (0..1) \X (0..1)]
        BY <1>4, <3>2 DEF Inv, UsesOK
      <4>2. /\ uses'[n][1] = uses[n][1] /\ uses'[n][2] = uses[n][1]
            /\ \A m \in Pairs : m # n => uses'[m] = uses[m]
        BY <1>4, <1>6, <3>2
      <4>3. uses[n][1] = 1 => pg'[s].revoked \/ clock >= pg'[s].exp
        <5>1. CASE out[1] = "reuse"
          BY <2>1, <5>1
        <5>2. CASE out[1] = "invalid"
          <6>1. pg' = pg
            BY <2>1, <5>2
          <6>2. uses[n][1] = 1 => ~ActiveRecord(r, now)
            BY <1>3, <1>4, <1>5, <5>2
          <6>0. /\ r.version > 0 /\ r.created <= now
                /\ now \in Nat /\ clock \in Nat /\ now <= clock /\ r.exp \in Nat
            <7>1. r \in Records /\ r.created <= now
              BY <1>1, Zenon
            <7>2. now \in Nat /\ clock \in Nat /\ now <= clock
              BY <1>1, Zenon
            <7> HIDE DEF r
            <7>3. r.version > 0 /\ r.exp \in Nat
              BY <7>1 DEF Records
            <7>4. QED BY <7>1, <7>2, <7>3, Zenon
          <6>3. ~ActiveRecord(r, now) => r.revoked \/ now >= r.exp
            <7> HIDE DEF r, now
            <7>1. QED BY <6>0 DEF ActiveRecord
          <6>4. now >= r.exp => clock >= r.exp
            <7> HIDE DEF r, now
            <7>1. QED BY <6>0
          <6>5. QED BY <6>1, <6>2, <6>3, <6>4, Zenon
        <5>3. QED BY <1>3, <1>8, <5>1, <5>2
      <4>4. ASSUME NEW m \in Pairs
            PROVE  /\ uses'[m][1] = 1 => /\ m \in 1..Len(minted)
                                         /\ pg'[minted[m]] # None
                                         /\ m \in pg'[minted[m]].consumed
                   /\ uses'[m][2] = 1 => /\ m \in 1..Len(minted)
                                         /\ pg'[minted[m]] # None
                                         /\ pg'[minted[m]].revoked \/ clock >= pg'[minted[m]].exp
        <5>1. /\ uses[m][1] = 1 => /\ m \in 1..Len(minted)
                                   /\ pg[minted[m]] # None
                                   /\ m \in pg[minted[m]].consumed
              /\ uses[m][2] = 1 => /\ m \in 1..Len(minted)
                                   /\ pg[minted[m]] # None
                                   /\ pg[minted[m]].revoked \/ clock >= pg[minted[m]].exp
          BY DEF Inv, UsesOK
        <5>2. CASE m = n
          BY <1>1, <1>4, <1>6, <2>1, <4>2, <4>3, <5>1, <5>2, Zenon DEF Ends
        <5>3. CASE m # n
          BY <1>6, <2>1, <4>2, <5>1, <5>3, Zenon DEF Ends
        <5>4. QED BY <5>2, <5>3, Zenon
      <4>5. QED BY <1>2, <4>1, <4>4 DEF UsesOK
    <3>3. QED BY <1>2, <1>8, <3>1, <3>2
  <2>6. SessionsOK' /\ DeliveredOK'
    BY <1>1, <1>2, <2>1, <2>3, StillSessions DEF Inv
  <2>7. \A st : CallOK(st) => CallOK(st)'
    BY <1>1, <1>2, <2>1, <2>3, StillCalls DEF Inv
  <2>8. CallsOK' /\ TargetsOK'
    <3>1. PICK st : Becomes(c, st) /\ st.phase \notin Minting /\ CallOK(st) /\ CallOK(st)'
      BY <1>2, <1>8, Leaves DEF Inv
    <3>2. \A d \in Calls \ {c} : \A x \in {call[d]} : CallOK(x)'
      BY <2>7, CallFacts DEF Inv
    <3>3. QED BY <3>1, <3>2, Moves DEF Inv
  <2>9. QED BY <2>5, <2>6, <2>8 DEF Inv
<1>9. QED BY <1>7, <1>8

----------------------------------------------------------------------------
(* Access, logout and the assertions. *)

\* A call that moves to a sound presenting phase.
LEMMA PresentTo ==
    ASSUME NEW c, NEW st, Becomes(c, st), DOMAIN st = Fields, st.phase \in Presenting,
           st.pair \in Nat, st.next \in Nat, st.now \in Nat, st.at \in Nat, PresentingOK(st)
    PROVE  StillMoves(c)
<1>1. CallShape(st) /\ MintingOK(st) /\ st.phase \notin Minting
  BY DEF CallShape, MintingOK, Minting, Presenting
<1>2. QED BY <1>1, MoveTo DEF CallOK

\* A request that presents a pair keeps the invariant when it begins.
LEMMA PresentInv ==
    ASSUME Inv, NEW c \in Calls, Present(c)
    PROVE  Inv'
<1>1. PICK n \in delivered, op \in {"logout", "logoutAll", "access"} :
        Becomes(c, Begin(op, n, minted[n], "find"))
  BY DEF Present
<1>2. PICK st : st = Begin(op, n, minted[n], "find")
  OBVIOUS
<1>3. n \in Nat /\ minted[n] \in Sessions /\ pg[minted[n]] # None
  BY DEF Inv, SessionsOK, DeliveredOK
<1>4. /\ DOMAIN st = Fields /\ st.phase = "find" /\ st.op = op /\ st.sid = minted[n]
      /\ st.pair = n /\ st.next = 0 /\ st.now = 0 /\ st.at = 0
  BY <1>2 DEF Begin, Fields
<1>5. PresentingOK(st) /\ st.phase \in Presenting
  BY <1>3, <1>4 DEF PresentingOK, Presenting
<1>6. StillMoves(c)
  BY <1>1, <1>2, <1>3, <1>4, <1>5, PresentTo
<1>7. QED BY <1>6, QuietInv DEF Present

\* Reading the record keeps the invariant: the copy is the current version.
LEMMA FindInv ==
    ASSUME Inv, NEW c \in Calls, Find(c)
    PROVE  Inv'
<1> DEFINE r == pg[call[c].sid]
           current == ActiveRecord(r, clock) /\ r.refresh = call[c].pair
<1>1. /\ call[c].phase = "find" /\ CallShape(call[c]) /\ call[c].sid \in Sessions
      /\ r \in Records /\ r # None /\ call[c].op \in {"logout", "logoutAll", "access"}
      /\ r.created <= clock /\ r.version \in Nat
      /\ redis[call[c].sid] # None /\ redis[call[c].sid].version = r.version
            => redis[call[c].sid].digest = r.refresh
  BY CallFacts, Zenon DEF Find, Inv, SessionsOK, PresentingOK, Presenting, Records
<1>2. PICK st : st = [call[c] EXCEPT !.phase = "get", !.rec = r, !.current = current]
  OBVIOUS
<1>3. Becomes(c, st)
  BY <1>2 DEF Find
<1>4. /\ DOMAIN st = Fields /\ st.phase = "get" /\ st.op = call[c].op /\ st.sid = call[c].sid
      /\ st.pair = call[c].pair /\ st.next = call[c].next /\ st.now = call[c].now
      /\ st.at = call[c].at /\ st.rec = r
  BY <1>1, <1>2 DEF CallShape, Fields
<1>5. st.current = current
  BY <1>1, <1>2 DEF CallShape, Fields
<1>6. st.current \/ ~ActiveRecord(st.rec, clock) \/ st.rec.refresh # st.pair
  BY <1>4, <1>5, Zenon
<1>7. PresentingOK(st) /\ st.phase \in Presenting
  BY <1>1, <1>4, <1>6 DEF PresentingOK, Presenting
<1>8. StillMoves(c)
  BY <1>1, <1>3, <1>4, <1>7, PresentTo DEF CallShape
<1>9. QED BY <1>8, QuietInv DEF Find

\* Comparing the copy with Redis keeps the invariant: a token that passes was
\* current when the record was read.
LEMMA GetInv ==
    ASSUME Inv, NEW c \in Calls, Get(c)
    PROVE  Inv'
<1> DEFINE r == call[c].rec
           s == call[c].sid
           a == Held(s)
           exp == Least(clock + AssertionTTL, Least(r.access, r.exp))
<1>1. /\ call[c].phase = "get" /\ CallShape(call[c]) /\ s \in Sessions /\ clock \in Nat
      /\ pg[s] # None /\ call[c].op \in {"logout", "logoutAll", "access"}
      /\ r \in Records
      /\ redis[s] # None /\ redis[s].version = r.version => redis[s].digest = r.refresh
      /\ call[c].current \/ ~ActiveRecord(r, clock) \/ r.refresh # call[c].pair
  BY CallFacts DEF Get, Inv, SessionsOK, PresentingOK, Presenting
<1>2. exp \in Nat
  <2>1. r.access \in Nat /\ r.exp \in Nat
    BY <1>1 DEF Records
  <2>2. clock + AssertionTTL \in Nat
    BY <1>1, SessionAssumption
  <2>3. QED BY <2>1, <2>2 DEF Least
<1>3. CASE ~(Agree(r, a) /\ a.digest = call[c].pair)
  <2>1. StillMoves(c)
    BY <1>3, DoneMoves DEF Get
  <2>2. QED BY <2>1, QuietInv DEF Get
<1>4. CASE Agree(r, a) /\ a.digest = call[c].pair
  <2>1. a = redis[s] /\ redis[s] # None /\ redis[s].version = r.version /\ ActiveRecord(r, clock)
    BY <1>4 DEF Agree, Held
  <2>2. call[c].current
    BY <1>1, <1>4, <2>1
  <2>3. ASSUME NEW st, Becomes(c, st), DOMAIN st = Fields,
               \/ st.phase = "load" /\ call[c].op = "access"
               \/ st.phase = "revoke" /\ call[c].op # "access",
               st.op = call[c].op, st.sid = s, st.current = call[c].current,
               st.pair = call[c].pair, st.next = call[c].next, st.now = call[c].now, st.at \in Nat
        PROVE  StillMoves(c)
    <3>1. PresentingOK(st) /\ st.phase \in Presenting
      BY <1>1, <2>2, <2>3 DEF PresentingOK, Presenting
    <3>2. QED BY <1>1, <2>3, <3>1, PresentTo DEF CallShape
  <2>4. CASE call[c].op = "access"
    <3>1. CASE exp <= clock
      <4>1. StillMoves(c)
        BY <1>4, <2>4, <3>1, DoneMoves DEF Get, Exchange
      <4>2. QED BY <4>1, QuietInv DEF Get
    <3>2. CASE ~(exp <= clock)
      <4>1. PICK st : st = [call[c] EXCEPT !.phase = "load", !.at = exp]
        OBVIOUS
      <4>2. Becomes(c, st)
        BY <1>4, <2>4, <3>2, <4>1 DEF Get, Exchange
      <4>3. /\ DOMAIN st = Fields /\ st.phase = "load" /\ st.op = call[c].op /\ st.sid = s
            /\ st.current = call[c].current /\ st.pair = call[c].pair /\ st.next = call[c].next
            /\ st.now = call[c].now /\ st.at = exp
        BY <1>1, <4>1 DEF CallShape, Fields
      <4>4. StillMoves(c)
        BY <1>2, <2>3, <2>4, <4>2, <4>3
      <4>5. QED BY <4>4, QuietInv DEF Get
    <3>3. QED BY <3>1, <3>2
  <2>5. CASE call[c].op # "access"
    <3>1. PICK st : st = [call[c] EXCEPT !.phase = "revoke"]
      BY Zenon
    <3>2. Becomes(c, st)
      BY <1>4, <2>5, <3>1 DEF Get, Go
    <3>3. /\ DOMAIN st = Fields /\ st.phase = "revoke" /\ st.op = call[c].op /\ st.sid = s
          /\ st.current = call[c].current /\ st.pair = call[c].pair /\ st.next = call[c].next
          /\ st.now = call[c].now /\ st.at = call[c].at
      BY <1>1, <3>1 DEF CallShape, Fields
    <3>4. StillMoves(c)
      BY <1>1, <2>3, <2>5, <3>2, <3>3 DEF CallShape
    <3>5. QED BY <3>4, QuietInv DEF Get
  <2>6. QED BY <2>4, <2>5
<1>5. QED BY <1>3, <1>4

\* A call that moves between the phases after Get.
LEMMA AccessTo ==
    ASSUME CallsOK, NEW c \in Calls, NEW st, Becomes(c, st), DOMAIN st = Fields,
           call[c].phase \in Presenting \ {"find", "get", "revoke"},
           st.phase \in {"sign", "keys", "local", "verify", "check", "checkGet", "verified"},
           st.op = call[c].op, st.sid = call[c].sid, st.current = call[c].current,
           st.pair \in Nat, st.next \in Nat, st.now \in Nat, st.at \in Nat,
           st.phase \in {"local", "verify", "check", "checkGet"} =>
              (st.late => pg[st.sid].revoked),
           st.phase = "checkGet" => (st.late => st.rec.revoked),
           st.phase = "verified" => ~st.late
    PROVE  StillMoves(c)
<1>1. /\ call[c].op = "access" /\ call[c].current /\ call[c].sid \in Sessions
      /\ pg[call[c].sid] # None
  BY CallFacts DEF PresentingOK, Presenting
<1>2. st.phase \in Presenting /\ st.phase \notin {"find", "get", "revoke"}
  BY DEF Presenting
<1>3. PresentingOK(st)
  BY <1>1, <1>2 DEF PresentingOK
<1>4. QED BY <1>2, <1>3, PresentTo

\* What a call after Get may rely on.
LEMMA AccessFacts ==
    ASSUME Inv, NEW c \in Calls, call[c].phase \in Presenting \ {"find", "get", "revoke"}
    PROVE  /\ DOMAIN call[c] = Fields /\ call[c].sid \in Sessions
           /\ call[c].pair \in Nat /\ call[c].next \in Nat /\ call[c].now \in Nat
           /\ call[c].at \in Nat /\ pg[call[c].sid] \in Records
           /\ call[c].phase \in {"local", "verify", "check", "checkGet"} =>
                 (call[c].late => pg[call[c].sid].revoked)
           /\ call[c].phase = "checkGet" => (call[c].late => call[c].rec.revoked)
PROOF BY CallFacts DEF Inv, CallShape, PresentingOK, SessionsOK

\* Reading the key file to sign keeps the invariant.
LEMMA IssueLoadsInv ==
    ASSUME Inv, NEW c \in Calls, IssueLoads(c)
    PROVE  Inv'
<1>1. call[c].phase = "load" /\ call[c].phase \in Presenting \ {"find", "get", "revoke"}
  BY DEF IssueLoads, Presenting
<1>2. StillMoves(c)
  <2>1. CASE Keys!Load(KeyFiles[file], seen, clock)
    <3>1. PICK st : st = [call[c] EXCEPT !.phase = "sign", !.keys = KeyFiles[file]]
      OBVIOUS
    <3>2. Becomes(c, st)
      BY <2>1, <3>1 DEF IssueLoads, LoadKeys
    <3>3. /\ DOMAIN st = Fields /\ st.phase = "sign" /\ st.op = call[c].op
          /\ st.sid = call[c].sid /\ st.current = call[c].current /\ st.pair = call[c].pair
          /\ st.next = call[c].next /\ st.now = call[c].now /\ st.at = call[c].at
      BY <1>1, <3>1, AccessFacts DEF Fields
    <3>4. QED BY <1>1, <3>2, <3>3, AccessFacts, AccessTo DEF Inv
  <2>2. CASE ~Keys!Load(KeyFiles[file], seen, clock)
    BY <2>2, DoneMoves DEF IssueLoads, LoadKeys
  <2>3. QED BY <2>1, <2>2
<1>3. QED BY <1>2, QuietInv DEF IssueLoads

\* Manager.Issue keeps the invariant.
LEMMA IssueInv ==
    ASSUME Inv, NEW c \in Calls, Issue(c)
    PROVE  Inv'
<1>1. call[c].phase = "sign" /\ call[c].phase \in Presenting \ {"find", "get", "revoke"}
  BY Zenon DEF Issue, Presenting
<1>2. \/ \E a : Becomes(c, [call[c] EXCEPT !.phase = "keys", !.keys = {}, !.rec = None,
                                            !.at = 0, !.pair = 0, !.assertion = a])
      \/ \E x : Done(c, x)
  BY Zenon DEF Issue
<1>3. StillMoves(c)
  <2>1. ASSUME NEW a, Becomes(c, [call[c] EXCEPT !.phase = "keys", !.keys = {}, !.rec = None,
                                                 !.at = 0, !.pair = 0, !.assertion = a])
        PROVE  StillMoves(c)
    <3>1. PICK st : st = [call[c] EXCEPT !.phase = "keys", !.keys = {}, !.rec = None,
                                         !.at = 0, !.pair = 0, !.assertion = a]
      OBVIOUS
    <3>2. /\ DOMAIN st = Fields /\ st.phase = "keys" /\ st.op = call[c].op
          /\ st.sid = call[c].sid /\ st.current = call[c].current /\ st.pair = 0
          /\ st.next = call[c].next /\ st.now = call[c].now /\ st.at = 0
      BY <1>1, <3>1, AccessFacts DEF Fields
    <3>3. Becomes(c, st) /\ st.phase \notin {"local", "verify", "check", "checkGet", "verified"}
      BY <2>1, <3>1, <3>2
    <3>4. QED BY <1>1, <3>2, <3>3, AccessFacts, AccessTo DEF Inv
  <2>2. QED BY <1>2, <2>1, DoneMoves, Zenon
<1>4. QED BY <1>3, QuietInv, Zenon DEF Issue

\* GetSigningKeys keeps the invariant: the verification begins here.
LEMMA GetSigningKeysInv ==
    ASSUME Inv, NEW c \in Calls, GetSigningKeys(c)
    PROVE  Inv'
<1>1. call[c].phase = "keys" /\ call[c].phase \in Presenting \ {"find", "get", "revoke"}
  BY DEF GetSigningKeys, Presenting
<1>2. StillMoves(c)
  <2>1. CASE Keys!Load(KeyFiles[file], seen, clock)
    <3>1. PICK keys : keys = Keys!Trusted(KeyFiles[file], clock)
      OBVIOUS
    <3>2. PICK st : st = [call[c] EXCEPT !.phase = "local", !.keys = keys,
                                         !.late = pg[call[c].sid].revoked]
      OBVIOUS
    <3>3. Becomes(c, st)
      BY <2>1, <3>1, <3>2 DEF GetSigningKeys
    <3>4. /\ DOMAIN st = Fields /\ st.phase = "local" /\ st.op = call[c].op
          /\ st.sid = call[c].sid /\ st.current = call[c].current /\ st.pair = call[c].pair
          /\ st.next = call[c].next /\ st.now = call[c].now /\ st.at = call[c].at
      BY <1>1, <3>2, AccessFacts DEF Fields
    <3>5. st.late = pg[call[c].sid].revoked
      BY <1>1, <3>2, AccessFacts DEF Fields
    <3>6. QED BY <1>1, <3>3, <3>4, <3>5, AccessFacts, AccessTo DEF Inv
  <2>2. CASE ~Keys!Load(KeyFiles[file], seen, clock)
    BY <2>2, DoneMoves DEF GetSigningKeys
  <2>3. QED BY <2>1, <2>2
<1>3. QED BY <1>2, QuietInv DEF GetSigningKeys

\* The check of the signature, at User and at Auth, keeps the invariant.
LEMMA VerifyInv ==
    ASSUME Inv, NEW c \in Calls, VerifyContext(c) \/ VerifyAssertion(c)
    PROVE  Inv'
<1>1. /\ call[c].phase \in {"local", "verify"}
      /\ call[c].phase \in Presenting \ {"find", "get", "revoke"}
  BY DEF VerifyContext, VerifyAssertion, Presenting
<1>2. \/ \E x : Done(c, x)
      \/ Becomes(c, [call[c] EXCEPT !.phase = "verify", !.keys = {}])
      \/ Becomes(c, [call[c] EXCEPT !.phase = "check"])
  BY DEF VerifyContext, VerifyAssertion, Go
<1>3. ASSUME NEW st, Becomes(c, st), DOMAIN st = Fields, st.phase \in {"verify", "check"},
             st.op = call[c].op, st.sid = call[c].sid, st.current = call[c].current,
             st.pair = call[c].pair, st.next = call[c].next, st.now = call[c].now,
             st.at = call[c].at, st.late = call[c].late
      PROVE  StillMoves(c)
  <2>1. st.late => pg[st.sid].revoked
    BY <1>1, <1>3, AccessFacts, Zenon
  <2>2. QED BY <1>1, <1>3, <2>1, AccessFacts, AccessTo DEF Inv
<1>4. StillMoves(c)
  <2>1. CASE \E x : Done(c, x)
    BY <2>1, DoneMoves
  <2>2. CASE Becomes(c, [call[c] EXCEPT !.phase = "verify", !.keys = {}])
    <3>1. PICK st : st = [call[c] EXCEPT !.phase = "verify", !.keys = {}]
      OBVIOUS
    <3>2. /\ DOMAIN st = Fields /\ st.phase = "verify" /\ st.op = call[c].op
          /\ st.sid = call[c].sid /\ st.current = call[c].current /\ st.pair = call[c].pair
          /\ st.next = call[c].next /\ st.now = call[c].now /\ st.at = call[c].at
          /\ st.late = call[c].late
      BY <1>1, <3>1, AccessFacts DEF Fields
    <3>3. QED BY <1>3, <2>2, <3>1, <3>2, Zenon
  <2>3. CASE Becomes(c, [call[c] EXCEPT !.phase = "check"])
    <3>1. PICK st : st = [call[c] EXCEPT !.phase = "check"]
      BY Zenon
    <3>2. /\ DOMAIN st = Fields /\ st.phase = "check" /\ st.op = call[c].op
          /\ st.sid = call[c].sid /\ st.current = call[c].current /\ st.pair = call[c].pair
          /\ st.next = call[c].next /\ st.now = call[c].now /\ st.at = call[c].at
          /\ st.late = call[c].late
      BY <1>1, <3>1, AccessFacts DEF Fields
    <3>3. QED BY <1>3, <2>3, <3>1, <3>2, Zenon
  <2>4. QED BY <1>2, <2>1, <2>2, <2>3
<1>5. QED BY <1>4, QuietInv DEF VerifyContext, VerifyAssertion

\* Service.Check reading the record keeps the invariant: a session revoked before
\* the verification began is read as revoked.
LEMMA CheckInv ==
    ASSUME Inv, NEW c \in Calls, Check(c)
    PROVE  Inv'
<1>1. call[c].phase = "check" /\ call[c].phase \in Presenting \ {"find", "get", "revoke"}
  BY DEF Check, Presenting
<1>2. PICK st : st = [call[c] EXCEPT !.phase = "checkGet", !.rec = pg[call[c].sid]]
  OBVIOUS
<1>3. Becomes(c, st)
  BY <1>2 DEF Check
<1>4. /\ DOMAIN st = Fields /\ st.phase = "checkGet" /\ st.op = call[c].op
      /\ st.sid = call[c].sid /\ st.current = call[c].current /\ st.pair = call[c].pair
      /\ st.next = call[c].next /\ st.now = call[c].now /\ st.at = call[c].at
      /\ st.late = call[c].late /\ st.rec = pg[call[c].sid]
  BY <1>1, <1>2, AccessFacts DEF Fields
<1>5. st.late => pg[st.sid].revoked /\ st.rec.revoked
  BY <1>1, <1>4, AccessFacts, Zenon
<1>6. StillMoves(c)
  BY <1>1, <1>3, <1>4, <1>5, AccessFacts, AccessTo DEF Inv
<1>7. QED BY <1>6, QuietInv DEF Check

\* Service.Check comparing it with Redis keeps the invariant: a revoked record does
\* not get through.
LEMMA CheckGetInv ==
    ASSUME Inv, NEW c \in Calls, CheckGet(c)
    PROVE  Inv'
<1> DEFINE agree == /\ Agree(call[c].rec, Held(call[c].sid))
                    /\ call[c].rec.created = call[c].assertion.created
<1>1. call[c].phase = "checkGet" /\ call[c].phase \in Presenting \ {"find", "get", "revoke"}
  BY DEF CheckGet, Presenting
<1>2. StillMoves(c)
  <2>1. CASE agree
    <3>1. PICK st : st = [call[c] EXCEPT !.phase = "verified", !.rec = None]
      OBVIOUS
    <3>2. Becomes(c, st)
      BY <2>1, <3>1 DEF CheckGet
    <3>3. /\ DOMAIN st = Fields /\ st.phase = "verified" /\ st.op = call[c].op
          /\ st.sid = call[c].sid /\ st.current = call[c].current /\ st.pair = call[c].pair
          /\ st.next = call[c].next /\ st.now = call[c].now /\ st.at = call[c].at
          /\ st.late = call[c].late
      BY <1>1, <3>1, AccessFacts DEF Fields
    <3>4. ~st.late
      BY <1>1, <2>1, <3>3, AccessFacts DEF Agree, ActiveRecord
    <3>5. QED BY <1>1, <3>2, <3>3, <3>4, AccessFacts, AccessTo DEF Inv
  <2>2. CASE ~agree
    BY <2>2, DoneMoves DEF CheckGet
  <2>3. QED BY <2>1, <2>2
<1>3. QED BY <1>2, QuietInv DEF CheckGet

\* The last look at the clock keeps the invariant.
LEMMA VerifiedInv ==
    ASSUME Inv, NEW c \in Calls, Verified(c)
    PROVE  Inv'
<1>1. StillMoves(c)
  BY DoneMoves DEF Verified
<1>2. QED BY <1>1, QuietInv DEF Verified

\* Every step keeps the invariant.
LEMMA StepInv ==
    ASSUME Inv, [Next]_vars
    PROVE  Inv'
<1>1. CASE UNCHANGED vars
  <2>1. clock \in Nat /\ Ends /\ Shrinks
    BY <1>1, UnchangedEnds DEF Inv, SessionsOK, vars
  <2>2. QED BY <1>1, <2>1, StillInv DEF vars
<1>2. CASE Next
  <2>1. CASE Tick \/ DeployKeys \/ Restart \/ \E s \in Sessions : RedisLoses(s)
    BY <2>1, EnvironmentInv
  <2>2. CASE \E c \in Calls : CallNext(c)
    <3>1. PICK c \in Calls : CallNext(c)
      BY <2>2
    <3>2. CASE Prepare(c) \/ Create(c) \/ Activate(c) \/ Put(c)
      BY <3>2, PrepareInv, CreateInv, ActivateInv, PutInv
    <3>3. CASE Cleanup(c) \/ Revoke(c) \/ RefreshSession(c) \/ Rotate(c)
      BY <3>3, EndInv, RefreshInv, RotateInv
    <3>4. CASE Present(c) \/ Find(c) \/ Get(c) \/ RequestDropped(c)
      BY <3>4, PresentInv, FindInv, GetInv, DroppedInv
    <3>5. CASE IssueLoads(c) \/ Issue(c) \/ GetSigningKeys(c)
      BY <3>5, IssueLoadsInv, IssueInv, GetSigningKeysInv
    <3>6. CASE VerifyContext(c) \/ VerifyAssertion(c)
      BY <3>6, VerifyInv
    <3>7. CASE Check(c) \/ CheckGet(c) \/ Verified(c)
      BY <3>7, CheckInv, CheckGetInv, VerifiedInv
    <3>8. QED BY <3>1, <3>2, <3>3, <3>4, <3>5, <3>6, <3>7 DEF CallNext
  <2>3. QED BY <1>2, <2>1, <2>2 DEF Next
<1>3. QED BY <1>1, <1>2

\* The invariant holds before the first login.
LEMMA InitInv == Init => Inv
<1> SUFFICES ASSUME Init PROVE Inv
  OBVIOUS
<1>1. SessionsOK
  BY SessionAssumption, RecordFacts DEF Init, SessionsOK
<1>2. DeliveredOK
  BY DEF Init, DeliveredOK
<1>3. UsesOK
  BY DEF Init, UsesOK
<1>4. \A c \in Calls : call[c] = Idle
  BY DEF Init
<1>5. CallOK(Idle) /\ Idle.phase = "done"
  BY Zenon DEF Idle, Begin, CallOK, CallShape, MintingOK, PresentingOK, Fields, Minting, Presenting
<1>6. CallsOK
  BY <1>4, <1>5 DEF Init, CallsOK
<1>7. TargetsOK
  BY <1>4, <1>5 DEF TargetsOK, Minting
<1>8. QED BY <1>1, <1>2, <1>3, <1>6, <1>7 DEF Inv

\* The inductive invariant holds in every reachable state, for every number of
\* calls, sessions, key files and faults, and for all lifetimes.
THEOREM Invariance == Spec => []Inv
PROOF BY InitInv, StepInv, PTL DEF Spec

\* ReuseEndsSession: a refresh token is accepted at most once however many requests
\* race with it, and a second use that is noticed ends the session
\* (Repository.Rotate).
THEOREM ReuseCorrect == Spec => []ReuseEndsSession
<1>1. Inv => ReuseEndsSession
  <2>1. Inv => \A n \in 1..Len(minted) : n \in Pairs
    BY SessionAssumption DEF Inv, SessionsOK, Pairs
  <2>2. QED BY <2>1 DEF Inv, UsesOK, ReuseEndsSession
<1>2. QED BY <1>1, Invariance, PTL

\* AccessIsCurrent: a request authenticated by an access token had the current pair
\* of an unrevoked session while it was in progress, although PostgreSQL and Redis
\* are read one after the other (Service.active).
THEOREM AccessCorrect == Spec => []AccessIsCurrent
<1>1. Inv => AccessIsCurrent
  <2> SUFFICES ASSUME Inv, NEW c \in Calls, call[c].op \in {"logout", "logoutAll", "access"},
                      call[c].phase \notin {"find", "get"}
               PROVE  call[c].current
    BY Zenon DEF AccessIsCurrent
  <2>1. call[c].phase \in Presenting
    BY CallFacts DEF Inv, CallShape, MintingOK, Minting
  <2>2. QED BY <2>1, CallFacts, Zenon DEF Inv, PresentingOK
<1>2. QED BY <1>1, Invariance, PTL

\* DeliveredPairWorks: a pair the browser received works until it expires, is
\* rotated or its session ends, unless Redis lost the key; a lost answer never
\* breaks it (Service.Activate, Refresh).
THEOREM DeliveredCorrect == Spec => []DeliveredPairWorks
<1>1. Inv => DeliveredPairWorks
  <2> SUFFICES ASSUME Inv, NEW n \in delivered, NEW s, s = minted[n],
                      pg[s].refresh = n, ActiveRecord(pg[s], clock), clock < pg[s].access,
                      redis[s] # None
               PROVE  Agree(pg[s], Held(s)) /\ Held(s).digest = n
    BY DEF DeliveredPairWorks
  <2>1. s \in Sessions /\ redis[s].version = pg[s].version
    BY DEF Inv, DeliveredOK, SessionsOK
  <2>2. redis[s].digest = n /\ redis[s].exp = pg[s].access
    BY <2>1 DEF Inv, SessionsOK
  <2>3. Held(s) = redis[s]
    BY <2>2 DEF Held
  <2>4. QED BY <2>1, <2>2, <2>3 DEF Agree
<1>2. QED BY <1>1, Invariance, PTL

\* Every step of a call changes that call alone.
LEMMA SomeMove ==
    ASSUME NEW d \in Calls, CallNext(d)
    PROVE  \E st : Becomes(d, st)
<1>1. CASE Prepare(d) \/ Create(d) \/ Activate(d) \/ Put(d)
  BY <1>1, Zenon DEF Prepare, Create, Activate, Put, Answer, Go, Done
<1>2. CASE Cleanup(d) \/ Revoke(d) \/ RefreshSession(d) \/ Rotate(d)
  BY <1>2, Zenon DEF Cleanup, Revoke, RefreshSession, Rotate, Done
<1>3. CASE Present(d) \/ Find(d) \/ Get(d) \/ RequestDropped(d)
  BY <1>3 DEF Present, Find, Get, Exchange, RequestDropped, Go, Done
<1>4. CASE IssueLoads(d) \/ Issue(d) \/ GetSigningKeys(d)
  BY <1>4, Zenon DEF IssueLoads, LoadKeys, Issue, GetSigningKeys, Done
<1>5. CASE VerifyContext(d) \/ VerifyAssertion(d)
  BY <1>5 DEF VerifyContext, VerifyAssertion, Go, Done
<1>6. CASE Check(d) \/ CheckGet(d) \/ Verified(d)
  BY <1>6 DEF Check, CheckGet, Verified, Done
<1>7. QED BY <1>1, <1>2, <1>3, <1>4, <1>5, <1>6 DEF CallNext

\* A request is served by Verified alone, while its assertion has time left.
LEMMA ServesVerified ==
    ASSUME Inv, Next, NEW c \in Calls, Serves(c)
    PROVE  Verified(c) /\ clock < call[c].assertion.exp
<1>1. /\ call[c].op = "access" /\ call'[c].phase = "done" /\ call'[c].ok
      /\ call[c].phase # "done" /\ DOMAIN call = Calls /\ DOMAIN call[c] = Fields
      /\ call[c].phase \in Presenting \ {"revoke"} /\ call'[c] # call[c]
  BY CallFacts, Zenon DEF Serves, Inv, CallShape, MintingOK, PresentingOK, Minting, CallsOK
<1>2. PICK d \in Calls : CallNext(d)
  BY <1>1 DEF Next, Tick, DeployKeys, Restart, RedisLoses
<1>3. d = c
  <2>1. PICK st : Becomes(d, st)
    BY <1>2, SomeMove
  <2>2. QED BY <1>1, <2>1 DEF Becomes
<1>4. ASSUME NEW st, Becomes(c, st)
      PROVE  st.phase = "done" /\ st.ok
  BY <1>1, <1>4 DEF Becomes
<1>5. ASSUME NEW x, Done(c, x)
      PROVE  x = "ok"
  <2>1. PICK b : b = (x = "ok")
    OBVIOUS
  <2>2. PICK st : st = [Idle EXCEPT !.ok = b]
    BY Zenon
  <2>3. st.ok = b
    BY <2>2 DEF Idle, Begin
  <2>4. Becomes(c, st)
    BY <1>5, <2>1, <2>2 DEF Done
  <2>5. QED BY <1>4, <2>1, <2>3, <2>4, Zenon
<1>6. ASSUME NEW p, Go(c, p)
      PROVE  p = "done"
  <2>1. PICK st : st = [call[c] EXCEPT !.phase = p]
    BY Zenon
  <2>2. st.phase = p
    BY <1>1, <2>1 DEF Fields
  <2>3. Becomes(c, st)
    BY <1>6, <2>1 DEF Go
  <2>4. QED BY <1>4, <2>2, <2>3
<1>7. CASE Verified(c)
  <2>1. clock < call[c].assertion.exp
    BY <1>5, <1>7 DEF Verified
  <2>2. QED BY <1>7, <2>1
<1>8. CASE Prepare(c) \/ Create(c) \/ Activate(c) \/ Put(c) \/ Cleanup(c) \/ Revoke(c)
           \/ RefreshSession(c) \/ Rotate(c) \/ Present(c)
  BY <1>1, <1>8, Zenon DEF Prepare, Create, Activate, Put, Cleanup, Revoke, RefreshSession, Rotate,
                    Present, Free, Presenting
<1>9. CASE RequestDropped(c)
  BY <1>1, <1>5, <1>9 DEF RequestDropped, Presenting
<1>10. CASE Get(c)
  <2>1. CASE Exchange(c)
    <3>1. PICK e : e = Least(clock + AssertionTTL, Least(call[c].rec.access, call[c].rec.exp))
      OBVIOUS
    <3>2. Done(c, "invalid") \/ Becomes(c, [call[c] EXCEPT !.phase = "load", !.at = e])
      BY <2>1, <3>1 DEF Exchange
    <3>3. [call[c] EXCEPT !.phase = "load", !.at = e].phase = "load"
      BY <1>1 DEF Fields
    <3>4. QED BY <1>4, <1>5, <3>2, <3>3, Zenon
  <2>2. CASE Go(c, "revoke") \/ Done(c, "invalid")
    BY <1>5, <1>6, <2>2
  <2>3. QED BY <1>10, <2>1, <2>2 DEF Get
<1>11. CASE Find(c) \/ Check(c)
  <2>1. ASSUME NEW r, NEW b
        PROVE  [call[c] EXCEPT !.phase = "get", !.rec = r, !.current = b].phase = "get"
    BY <1>1 DEF Fields
  <2>2. ASSUME NEW r
        PROVE  [call[c] EXCEPT !.phase = "checkGet", !.rec = r].phase = "checkGet"
    BY <1>1 DEF Fields
  <2>3. \/ \E r, b : Becomes(c, [call[c] EXCEPT !.phase = "get", !.rec = r, !.current = b])
        \/ \E r : Becomes(c, [call[c] EXCEPT !.phase = "checkGet", !.rec = r])
    BY <1>11, Zenon DEF Find, Check
  <2>4. QED BY <1>4, <2>1, <2>2, <2>3, Zenon
<1>12. CASE IssueLoads(c) \/ Issue(c) \/ GetSigningKeys(c)
  <2>1. ASSUME NEW k, Becomes(c, [call[c] EXCEPT !.phase = "sign", !.keys = k])
        PROVE  FALSE
    <3>1. [call[c] EXCEPT !.phase = "sign", !.keys = k].phase = "sign"
      BY <1>1 DEF Fields
    <3>2. QED BY <1>4, <2>1, <3>1, Zenon
  <2>2. ASSUME NEW a, Becomes(c, [call[c] EXCEPT !.phase = "keys", !.keys = {}, !.rec = None,
                                                 !.at = 0, !.pair = 0, !.assertion = a])
        PROVE  FALSE
    <3>1. [call[c] EXCEPT !.phase = "keys", !.keys = {}, !.rec = None, !.at = 0, !.pair = 0,
                          !.assertion = a].phase = "keys"
      BY <1>1 DEF Fields
    <3>2. QED BY <1>4, <2>2, <3>1, Zenon
  <2>3. ASSUME NEW k, NEW b,
               Becomes(c, [call[c] EXCEPT !.phase = "local", !.keys = k, !.late = b])
        PROVE  FALSE
    <3>1. [call[c] EXCEPT !.phase = "local", !.keys = k, !.late = b].phase = "local"
      BY <1>1 DEF Fields
    <3>2. QED BY <1>4, <2>3, <3>1, Zenon
  <2>4. CASE IssueLoads(c)
    BY <1>5, <2>1, <2>4, Zenon DEF IssueLoads, LoadKeys
  <2>5. CASE Issue(c)
    <3>1. \/ \E a : Becomes(c, [call[c] EXCEPT !.phase = "keys", !.keys = {}, !.rec = None,
                                               !.at = 0, !.pair = 0, !.assertion = a])
          \/ Done(c, "invalid") \/ Done(c, "unavailable")
      BY <2>5, Zenon DEF Issue
    <3>2. QED BY <1>5, <2>2, <3>1, Zenon
  <2>6. CASE GetSigningKeys(c)
    BY <1>5, <2>3, <2>6, Zenon DEF GetSigningKeys
  <2>7. QED BY <1>12, <2>4, <2>5, <2>6
<1>13. CASE VerifyContext(c) \/ VerifyAssertion(c) \/ CheckGet(c)
  <2>1. /\ [call[c] EXCEPT !.phase = "verify", !.keys = {}].phase = "verify"
        /\ [call[c] EXCEPT !.phase = "verified", !.rec = None].phase = "verified"
    BY <1>1 DEF Fields
  <2>2. \/ Becomes(c, [call[c] EXCEPT !.phase = "verify", !.keys = {}])
        \/ Becomes(c, [call[c] EXCEPT !.phase = "verified", !.rec = None])
        \/ Go(c, "check") \/ Done(c, "invalid")
    BY <1>13 DEF VerifyContext, VerifyAssertion, CheckGet
  <2>3. QED BY <1>4, <1>5, <1>6, <2>1, <2>2, Zenon
<1>14. QED BY <1>2, <1>3, <1>7, <1>8, <1>9, <1>10, <1>11, <1>12, <1>13, Zenon DEF CallNext

\* RevocationReachesAssertions: User and Files serve no request whose verification
\* began after the session was revoked, although the assertion has time left
\* (Service.Check).
THEOREM RevocationCorrect == Spec => RevocationReachesAssertions
<1>1. Inv /\ [Next]_vars => [\A c \in Calls : Serves(c) => ~call[c].late]_vars
  <2>1. ASSUME Inv, Next, NEW c \in Calls, Serves(c)
        PROVE  ~call[c].late
    BY <2>1, ServesVerified, CallFacts, Zenon DEF Inv, PresentingOK, Verified
  <2>2. QED BY <2>1
<1>2. QED BY <1>1, Invariance, PTL DEF Spec, RevocationReachesAssertions

----------------------------------------------------------------------------
(* Key rotation. *)

\* The operator's part: a later key file does not shorten the time for which an
\* earlier one promised to verify with a key. A running manager enforces it
\* (Manager.load); across a restart nobody does.
KeysNeverShortened ==
    \A f, g \in 1..Len(KeyFiles) : f <= g =>
       \A k \in KeyFiles[f], l \in KeyFiles[g] : k.kid = l.kid => k.verify <= l.verify

\* A deployed key file promised to verify with the key until exp, and, when the
\* operator does their part, what the manager remembers of the key reaches as far.
KeyTrusted(kid, exp) ==
    \E f \in 1..file : \E k \in KeyFiles[f] :
       /\ k.kid = kid /\ exp <= k.verify
       /\ KeysNeverShortened => \A old \in seen : old.kid = kid => old.verify >= k.verify

\* The phases of a call that has an assertion.
SignedPhases == {"keys", "local", "verify", "check", "checkGet", "verified"}

\* The key of the assertion is trusted until the assertion ends; so are the keys
\* that a call read to sign with.
TrustOK(st) ==
    /\ st.phase \in SignedPhases =>
          /\ st.assertion # None
          /\ st.assertion.exp \in Nat
          /\ KeyTrusted(st.assertion.kid, st.assertion.exp)
    /\ st.phase \notin SignedPhases => st.assertion = None
    /\ st.phase = "sign" => \A k \in st.keys :
          /\ k \in KeyRecords
          /\ k.verify >= k.until + AssertionTTL
          /\ KeyTrusted(k.kid, k.verify)

\* The invariant on key files, memory and calls.
KeysInv ==
    /\ file \in 1..Len(KeyFiles)
    /\ \A old \in seen : old.verify \in Nat
    /\ \A c \in Calls : \A st \in {call[c]} : TrustOK(st)

-----------------------------------------------------------------------------

\* The entries of a deployed key file have the type of entries.
LEMMA FileType ==
    ASSUME NEW f \in 1..Len(KeyFiles)
    PROVE  KeyFiles[f] \subseteq KeyRecords
PROOF BY SessionAssumption

\* The file moves forward, and the memory gains only what the current file says.
Learns ==
    /\ file \in 1..Len(KeyFiles) /\ file' \in 1..Len(KeyFiles) /\ file <= file'
    /\ \A old \in seen' : \/ old \in seen
                          \/ \E l \in KeyFiles[file] : old = [kid |-> l.kid, verify |-> l.verify]

\* What was trusted stays trusted.
LEMMA TrustKept ==
    ASSUME Learns, NEW kid, NEW exp, KeyTrusted(kid, exp)
    PROVE  KeyTrusted(kid, exp)'
<1>1. PICK f \in 1..file : \E k \in KeyFiles[f] :
        /\ k.kid = kid /\ exp <= k.verify
        /\ KeysNeverShortened => \A old \in seen : old.kid = kid => old.verify >= k.verify
  BY DEF KeyTrusted
<1>2. PICK k \in KeyFiles[f] :
        /\ k.kid = kid /\ exp <= k.verify
        /\ KeysNeverShortened => \A old \in seen : old.kid = kid => old.verify >= k.verify
  BY <1>1
<1>3. f \in 1..file' /\ f \in 1..Len(KeyFiles) /\ f <= file
  BY DEF Learns
<1>4. ASSUME KeysNeverShortened, NEW old \in seen', old.kid = kid
      PROVE  old.verify >= k.verify
  <2>1. CASE old \in seen
    BY <1>2, <1>4, <2>1
  <2>2. CASE \E l \in KeyFiles[file] : old = [kid |-> l.kid, verify |-> l.verify]
    <3>1. PICK l \in KeyFiles[file] : old = [kid |-> l.kid, verify |-> l.verify]
      BY <2>2
    <3>2. old.kid = l.kid /\ old.verify = l.verify
      BY <3>1
    <3>3. k \in KeyRecords /\ l \in KeyRecords
      BY <1>3, FileType DEF Learns
    <3>4. k.verify <= l.verify
      BY <1>2, <1>3, <1>4, <3>2 DEF KeysNeverShortened, Learns
    <3>5. QED BY <3>2, <3>3, <3>4 DEF KeyRecords
  <2>3. QED BY <2>1, <2>2 DEF Learns
<1>5. QED BY <1>2, <1>3, <1>4 DEF KeyTrusted

\* What is said of a call stays true of it while it does nothing.
LEMMA TrustOKKept ==
    ASSUME Learns, NEW st, TrustOK(st)
    PROVE  TrustOK(st)'
<1>1. st.phase \in SignedPhases => KeyTrusted(st.assertion.kid, st.assertion.exp)'
  BY TrustKept DEF TrustOK
<1>2. st.phase = "sign" => \A k \in st.keys : KeyTrusted(k.kid, k.verify)'
  BY TrustKept DEF TrustOK
<1>3. QED BY <1>1, <1>2 DEF TrustOK

\* What a step may do to the file and to the memory.
LEMMA FileSteps ==
    ASSUME [Next]_vars
    PROVE  /\ file' = file \/ (file < Len(KeyFiles) /\ file' = file + 1)
           /\ \/ seen' = seen
              \/ seen' = Keys!Remember(KeyFiles[file], seen)
              \/ seen' = Keys!Remember(KeyFiles[file], {})
<1>1. CASE UNCHANGED vars \/ Tick \/ DeployKeys \/ Restart \/ \E s \in Sessions : RedisLoses(s)
  BY <1>1 DEF vars, Tick, DeployKeys, Restart, RedisLoses
<1>2. ASSUME NEW c \in Calls, CallNext(c)
      PROVE  /\ file' = file
             /\ seen' = seen \/ seen' = Keys!Remember(KeyFiles[file], seen)
  <2>1. CASE Prepare(c) \/ Create(c) \/ Activate(c) \/ Put(c) \/ Cleanup(c)
    BY <2>1 DEF Prepare, Create, Activate, Put, Cleanup
  <2>2. CASE RefreshSession(c) \/ Rotate(c) \/ Present(c) \/ Find(c) \/ Get(c) \/ Revoke(c)
    BY <2>2, Zenon DEF RefreshSession, Rotate, Present, Find, Get, Revoke
  <2>3. CASE IssueLoads(c) \/ GetSigningKeys(c) \/ VerifyAssertion(c)
    BY <2>3 DEF IssueLoads, LoadKeys, GetSigningKeys, VerifyAssertion
  <2>4. CASE Issue(c) \/ VerifyContext(c) \/ Check(c) \/ CheckGet(c) \/ Verified(c)
               \/ RequestDropped(c)
    BY <2>4, Zenon DEF Issue, VerifyContext, Check, CheckGet, Verified, RequestDropped
  <2>5. QED BY <1>2, <2>1, <2>2, <2>3, <2>4 DEF CallNext
<1>3. QED BY <1>1, <1>2 DEF Next

\* Every step moves forward in this sense.
LEMMA LearnsSteps ==
    ASSUME KeysInv, [Next]_vars
    PROVE  Learns /\ \A old \in seen' : old.verify \in Nat
<1>1. file \in 1..Len(KeyFiles) /\ Len(KeyFiles) \in Nat /\ KeyFiles[file] \subseteq KeyRecords
  BY FileType, SessionAssumption DEF KeysInv
<1>2. ASSUME NEW s, s \subseteq seen, NEW old \in Keys!Remember(KeyFiles[file], s)
      PROVE  \/ old \in seen
             \/ \E l \in KeyFiles[file] : old = [kid |-> l.kid, verify |-> l.verify]
  BY <1>2 DEF Keys!Remember
<1>3. \/ file' = file
      \/ file < Len(KeyFiles) /\ file' = file + 1
  BY FileSteps
<1>4. \/ seen' = seen
      \/ seen' = Keys!Remember(KeyFiles[file], seen)
      \/ seen' = Keys!Remember(KeyFiles[file], {})
  BY FileSteps
<1>5. \A old \in seen' : \/ old \in seen
                         \/ \E l \in KeyFiles[file] : old = [kid |-> l.kid, verify |-> l.verify]
  BY <1>2, <1>4
<1>6. Learns
  BY <1>1, <1>3, <1>5 DEF Learns
<1>7. \A old \in seen' : old.verify \in Nat
  BY <1>1, <1>5 DEF KeysInv, KeyRecords
<1>8. QED BY <1>6, <1>7

\* Call c moves to a sound state.
TrustMoves(c) == \E st : Becomes(c, st) /\ TrustOK(st)'

\* A call that moves to a sound state.
LEMMA TrustTo ==
    ASSUME NEW c, NEW st, Becomes(c, st), TrustOK(st)'
    PROVE  TrustMoves(c)
PROOF BY Zenon DEF TrustMoves

\* A call that ends.
LEMMA TrustDone ==
    ASSUME NEW c, NEW x, Done(c, x)
    PROVE  TrustMoves(c)
<1>1. PICK st : st = [Idle EXCEPT !.ok = (x = "ok")]
  BY Zenon
<1>2. Becomes(c, st)
  BY <1>1 DEF Done
<1>3. st.phase = "done" /\ st.assertion = None
  BY <1>1 DEF Idle, Begin
<1>4. TrustOK(st)'
  BY <1>3 DEF TrustOK, SignedPhases
<1>5. QED BY <1>2, <1>4, TrustTo

\* A call that moves on with the assertion it has.
LEMMA TrustKeeps ==
    ASSUME Inv, KeysInv, Learns, NEW c \in Calls, NEW st, Becomes(c, st),
           st.assertion = call[c].assertion, st.phase # "sign",
           st.phase \in SignedPhases <=> call[c].phase \in SignedPhases
    PROVE  TrustMoves(c)
<1>1. TrustOK(call[c])
  BY DEF KeysInv
<1>2. PICK a : a = call[c].assertion
  OBVIOUS
<1>3. /\ call[c].phase \in SignedPhases => a # None /\ a.exp \in Nat /\ KeyTrusted(a.kid, a.exp)
      /\ call[c].phase \notin SignedPhases => a = None
  BY <1>1, <1>2 DEF TrustOK
<1>4. call[c].phase \in SignedPhases => KeyTrusted(a.kid, a.exp)'
  BY <1>3, TrustKept
<1>5. TrustOK(st)'
  BY <1>2, <1>3, <1>4 DEF TrustOK
<1>6. QED BY <1>5, TrustTo

\* A call that has no assertion yet.
LEMMA TrustBegins ==
    ASSUME NEW c, NEW st, Becomes(c, st), st.assertion = None, st.phase \notin SignedPhases,
           st.phase # "sign"
    PROVE  TrustMoves(c)
<1>1. TrustOK(st)'
  BY DEF TrustOK
<1>2. QED BY <1>1, TrustTo

\* The calls that begin.
LEMMA TrustStarts ==
    ASSUME NEW c \in Calls, Prepare(c) \/ RefreshSession(c) \/ Present(c)
    PROVE  TrustMoves(c)
<1>1. CASE Prepare(c)
  <2>1. PICK s : Becomes(c, [Begin("login", Len(minted) + 1, s, "create") EXCEPT !.now = clock])
    BY <1>1 DEF Prepare
  <2>2. PICK st : st = [Begin("login", Len(minted) + 1, s, "create") EXCEPT !.now = clock]
    BY Zenon
  <2>3. st.assertion = None /\ st.phase = "create"
    BY <2>2 DEF Begin
  <2>4. QED BY <2>1, <2>2, <2>3, TrustBegins, Zenon DEF SignedPhases
<1>2. CASE RefreshSession(c)
  <2>1. PICK n : Becomes(c, [Begin("refresh", n, minted[n], "rotate")
                                EXCEPT !.next = Len(minted) + 1, !.now = clock])
    BY <1>2, Zenon DEF RefreshSession
  <2>2. PICK st : st = [Begin("refresh", n, minted[n], "rotate")
                                EXCEPT !.next = Len(minted) + 1, !.now = clock]
    OBVIOUS
  <2>3. st.assertion = None /\ st.phase = "rotate"
    BY <2>2 DEF Begin
  <2>4. QED BY <2>1, <2>2, <2>3, TrustBegins, Zenon DEF SignedPhases
<1>3. CASE Present(c)
  <2>1. PICK n, op : Becomes(c, Begin(op, n, minted[n], "find"))
    BY <1>3 DEF Present
  <2>2. PICK st : st = Begin(op, n, minted[n], "find")
    OBVIOUS
  <2>3. st.assertion = None /\ st.phase = "find"
    BY <2>2 DEF Begin
  <2>4. QED BY <2>1, <2>2, <2>3, TrustBegins DEF SignedPhases
<1>4. QED BY <1>1, <1>2, <1>3

\* A call that only changes phase.
LEMMA TrustGo ==
    ASSUME Inv, KeysInv, Learns, NEW c \in Calls, NEW p, Go(c, p), p # "sign",
           p \in SignedPhases <=> call[c].phase \in SignedPhases
    PROVE  TrustMoves(c)
<1>1. PICK st : st = [call[c] EXCEPT !.phase = p]
  BY Zenon
<1>2. st.phase = p /\ st.assertion = call[c].assertion
  BY <1>1, CallFacts DEF Inv, CallShape, Fields
<1>3. Becomes(c, st)
  BY <1>1 DEF Go
<1>4. QED BY <1>2, <1>3, TrustKeeps

\* The steps of login, refresh and logout, and dropped requests.
LEMMA TrustMinting ==
    ASSUME Inv, KeysInv, Learns, NEW c \in Calls,
           Create(c) \/ Activate(c) \/ Put(c) \/ Cleanup(c) \/ Rotate(c) \/ Revoke(c)
              \/ RequestDropped(c)
    PROVE  TrustMoves(c)
<1>0. DOMAIN call[c] = Fields
  BY CallFacts DEF Inv, CallShape
<1>1. CASE Create(c)
  BY <1>1, TrustGo, TrustDone DEF Create, SignedPhases
<1>2. CASE Activate(c)
  <2>1. ASSUME NEW r, Becomes(c, [call[c] EXCEPT !.phase = "put", !.rec = r, !.now = clock,
                                                 !.next = call[c].pair])
        PROVE  TrustMoves(c)
    <3>1. PICK st : st = [call[c] EXCEPT !.phase = "put", !.rec = r, !.now = clock,
                                         !.next = call[c].pair]
      OBVIOUS
    <3>2. st.phase = "put" /\ st.assertion = call[c].assertion
      BY <1>0, <3>1 DEF Fields
    <3>3. call[c].phase = "activate"
      BY <1>2 DEF Activate
    <3>4. Becomes(c, st)
      BY <2>1, <3>1
    <3>5. QED BY <3>2, <3>3, <3>4, TrustKeeps DEF SignedPhases
  <2>2. QED BY <1>2, <2>1, TrustDone, Zenon DEF Activate
<1>3. CASE Put(c)
  <2>1. call[c].phase = "put" /\ (Go(c, "cleanup") \/ Done(c, "unavailable") \/ Done(c, "ok"))
    BY <1>3, Zenon DEF Put, Answer
  <2>2. QED BY <2>1, TrustGo, TrustDone DEF SignedPhases
<1>4. CASE Cleanup(c) \/ Revoke(c)
  BY <1>4, TrustDone DEF Cleanup, Revoke
<1>5. CASE Rotate(c)
  <2>1. ASSUME NEW r, Becomes(c, [call[c] EXCEPT !.phase = "put", !.rec = r])
        PROVE  TrustMoves(c)
    <3>1. PICK st : st = [call[c] EXCEPT !.phase = "put", !.rec = r]
      OBVIOUS
    <3>2. st.phase = "put" /\ st.assertion = call[c].assertion
      BY <1>0, <3>1 DEF Fields
    <3>3. call[c].phase = "rotate"
      BY <1>5, Zenon DEF Rotate
    <3>4. Becomes(c, st)
      BY <2>1, <3>1
    <3>5. QED BY <3>2, <3>3, <3>4, TrustKeeps DEF SignedPhases
  <2>2. \/ \E r : Becomes(c, [call[c] EXCEPT !.phase = "put", !.rec = r])
        \/ \E x : Done(c, x)
    BY <1>5, Zenon DEF Rotate
  <2>3. QED BY <2>1, <2>2, TrustDone, Zenon
<1>6. CASE RequestDropped(c)
  BY <1>6, TrustGo, TrustDone DEF RequestDropped, SignedPhases
<1>7. QED BY <1>1, <1>2, <1>3, <1>4, <1>5, <1>6

\* The steps of authentication and verification.
LEMMA TrustPresenting ==
    ASSUME Inv, KeysInv, Learns, NEW c \in Calls,
           Find(c) \/ Get(c) \/ GetSigningKeys(c) \/ VerifyContext(c) \/ VerifyAssertion(c)
              \/ Check(c) \/ CheckGet(c) \/ Verified(c)
    PROVE  TrustMoves(c)
<1>0. DOMAIN call[c] = Fields
  BY CallFacts DEF Inv, CallShape
<1>1. CASE Find(c)
  <2>1. PICK r, b : Becomes(c, [call[c] EXCEPT !.phase = "get", !.rec = r, !.current = b])
    BY <1>1, Zenon DEF Find
  <2>2. PICK st : st = [call[c] EXCEPT !.phase = "get", !.rec = r, !.current = b]
    OBVIOUS
  <2>3. st.phase = "get" /\ st.assertion = call[c].assertion
    BY <1>0, <2>2 DEF Fields
  <2>4. call[c].phase = "find"
    BY <1>1 DEF Find
  <2>5. Becomes(c, st)
    BY <2>1, <2>2
  <2>6. QED BY <2>3, <2>4, <2>5, TrustKeeps DEF SignedPhases
<1>2. CASE Get(c)
  <2>1. call[c].phase = "get"
    BY <1>2 DEF Get
  <2>2. CASE Exchange(c)
    <3>1. PICK e : e = Least(clock + AssertionTTL, Least(call[c].rec.access, call[c].rec.exp))
      OBVIOUS
    <3>2. Done(c, "invalid") \/ Becomes(c, [call[c] EXCEPT !.phase = "load", !.at = e])
      BY <2>2, <3>1 DEF Exchange
    <3>3. PICK st : st = [call[c] EXCEPT !.phase = "load", !.at = e]
      OBVIOUS
    <3>4. st.phase = "load" /\ st.assertion = call[c].assertion
      BY <1>0, <3>3 DEF Fields
    <3>5. CASE Becomes(c, [call[c] EXCEPT !.phase = "load", !.at = e])
      <4>1. Becomes(c, st)
        BY <3>3, <3>5
      <4>2. QED BY <2>1, <3>4, <4>1, TrustKeeps DEF SignedPhases
    <3>6. QED BY <3>2, <3>5, TrustDone
  <2>3. CASE Go(c, "revoke") \/ Done(c, "invalid")
    BY <2>1, <2>3, TrustGo, TrustDone DEF SignedPhases
  <2>4. QED BY <1>2, <2>2, <2>3 DEF Get
<1>3. CASE GetSigningKeys(c)
  <2>1. ASSUME NEW k, NEW b,
               Becomes(c, [call[c] EXCEPT !.phase = "local", !.keys = k, !.late = b])
        PROVE  TrustMoves(c)
    <3>1. PICK st : st = [call[c] EXCEPT !.phase = "local", !.keys = k, !.late = b]
      OBVIOUS
    <3>2. st.phase = "local" /\ st.assertion = call[c].assertion
      BY <1>0, <3>1 DEF Fields
    <3>3. call[c].phase = "keys"
      BY <1>3 DEF GetSigningKeys
    <3>4. Becomes(c, st)
      BY <2>1, <3>1
    <3>5. QED BY <3>2, <3>3, <3>4, TrustKeeps DEF SignedPhases
  <2>2. QED BY <1>3, <2>1, TrustDone, Zenon DEF GetSigningKeys
<1>4. CASE VerifyContext(c)
  <2>1. CASE Becomes(c, [call[c] EXCEPT !.phase = "verify", !.keys = {}])
    <3>1. PICK st : st = [call[c] EXCEPT !.phase = "verify", !.keys = {}]
      OBVIOUS
    <3>2. st.phase = "verify" /\ st.assertion = call[c].assertion
      BY <1>0, <3>1 DEF Fields
    <3>3. call[c].phase = "local"
      BY <1>4 DEF VerifyContext
    <3>4. Becomes(c, st)
      BY <2>1, <3>1
    <3>5. QED BY <3>2, <3>3, <3>4, TrustKeeps DEF SignedPhases
  <2>2. QED BY <1>4, <2>1, TrustDone DEF VerifyContext
<1>5. CASE VerifyAssertion(c)
  <2>1. call[c].phase = "verify" /\ (Go(c, "check") \/ Done(c, "invalid"))
    BY <1>5 DEF VerifyAssertion
  <2>2. QED BY <2>1, TrustGo, TrustDone DEF SignedPhases
<1>6. CASE Check(c)
  <2>1. PICK r : Becomes(c, [call[c] EXCEPT !.phase = "checkGet", !.rec = r])
    BY <1>6, Zenon DEF Check
  <2>2. PICK st : st = [call[c] EXCEPT !.phase = "checkGet", !.rec = r]
    OBVIOUS
  <2>3. st.phase = "checkGet" /\ st.assertion = call[c].assertion
    BY <1>0, <2>2 DEF Fields
  <2>4. call[c].phase = "check"
    BY <1>6 DEF Check
  <2>5. Becomes(c, st)
    BY <2>1, <2>2
  <2>6. QED BY <2>3, <2>4, <2>5, TrustKeeps DEF SignedPhases
<1>7. CASE CheckGet(c)
  <2>1. CASE Becomes(c, [call[c] EXCEPT !.phase = "verified", !.rec = None])
    <3>1. PICK st : st = [call[c] EXCEPT !.phase = "verified", !.rec = None]
      OBVIOUS
    <3>2. st.phase = "verified" /\ st.assertion = call[c].assertion
      BY <1>0, <3>1 DEF Fields
    <3>3. call[c].phase = "checkGet"
      BY <1>7 DEF CheckGet
    <3>4. Becomes(c, st)
      BY <2>1, <3>1
    <3>5. QED BY <3>2, <3>3, <3>4, TrustKeeps DEF SignedPhases
  <2>2. QED BY <1>7, <2>1, TrustDone DEF CheckGet
<1>8. CASE Verified(c)
  BY <1>8, TrustDone DEF Verified
<1>9. QED BY <1>1, <1>2, <1>3, <1>4, <1>5, <1>6, <1>7, <1>8

\* Reading the key file to sign: its keys are trusted by the file itself.
LEMMA TrustLoads ==
    ASSUME Inv, KeysInv, Learns, NEW c \in Calls, IssueLoads(c)
    PROVE  TrustMoves(c)
<1>0. /\ DOMAIN call[c] = Fields /\ call[c].phase = "load" /\ call[c].assertion = None
      /\ file \in 1..Len(KeyFiles)
  BY CallFacts DEF Inv, CallShape, KeysInv, TrustOK, IssueLoads, SignedPhases
<1>1. CASE Keys!Load(KeyFiles[file], seen, clock)
  <2>1. PICK st : st = [call[c] EXCEPT !.phase = "sign", !.keys = KeyFiles[file]]
    OBVIOUS
  <2>2. Becomes(c, st) /\ file' = file /\ seen' = Keys!Remember(KeyFiles[file], seen)
    BY <1>1, <2>1 DEF IssueLoads, LoadKeys
  <2>3. st.phase = "sign" /\ st.assertion = None /\ st.keys = KeyFiles[file]
    BY <1>0, <2>1 DEF Fields
  <2>4. ASSUME NEW k \in KeyFiles[file]
        PROVE  /\ k \in KeyRecords /\ k.verify >= k.until + AssertionTTL
               /\ KeyTrusted(k.kid, k.verify)'
    <3>1. k \in KeyRecords /\ k.verify \in Nat /\ k.verify <= k.verify
      BY <1>0, FileType DEF KeyRecords
    <3>2. k.verify >= k.until + AssertionTTL
      BY <1>1 DEF Keys!Load, Keys!ValidKey
    <3>3. ASSUME NEW old \in seen', old.kid = k.kid
          PROVE  old.verify >= k.verify
      <4>1. CASE \E l \in KeyFiles[file] : old = [kid |-> l.kid, verify |-> l.verify]
        <5>1. PICK l \in KeyFiles[file] : old = [kid |-> l.kid, verify |-> l.verify]
          BY <4>1
        <5>2. l = k
          BY <1>1, <3>3, <5>1 DEF Keys!Load
        <5>3. QED BY <3>1, <5>1, <5>2
      <4>2. CASE \A l \in KeyFiles[file] : l.kid # old.kid
        BY <3>3, <4>2
      <4>3. QED BY <2>2, <3>3, <4>1, <4>2 DEF Keys!Remember
    <3>4. file \in 1..file'
      BY <1>0, <2>2
    <3>5. KeyTrusted(k.kid, k.verify)'
      BY <2>2, <3>1, <3>3, <3>4, Zenon DEF KeyTrusted
    <3>6. QED BY <3>1, <3>2, <3>5
  <2>5. TrustOK(st)'
    BY <2>3, <2>4 DEF TrustOK, SignedPhases
  <2>6. QED BY <2>2, <2>5, TrustTo
<1>2. CASE ~Keys!Load(KeyFiles[file], seen, clock)
  BY <1>2, TrustDone DEF IssueLoads, LoadKeys
<1>3. QED BY <1>1, <1>2

\* Signing: the key verifies for AssertionTTL after it stops signing (validation of
\* the file), so until the assertion ends.
LEMMA TrustIssues ==
    ASSUME Inv, KeysInv, Learns, NEW c \in Calls, Issue(c)
    PROVE  TrustMoves(c)
<1> DEFINE exp == call[c].at
<1>1. /\ DOMAIN call[c] = Fields /\ call[c].phase = "sign" /\ exp \in Nat /\ clock \in Nat
      /\ AssertionTTL \in Nat
      /\ \A k \in call[c].keys :
            /\ k \in KeyRecords /\ k.verify >= k.until + AssertionTTL
            /\ KeyTrusted(k.kid, k.verify)
  BY CallFacts, SessionAssumption, Zenon DEF Inv, CallShape, SessionsOK, KeysInv, TrustOK, Issue
<1>2. ASSUME NEW k \in Keys!Active(call[c].keys, clock), exp - clock <= AssertionTTL,
             Becomes(c, [call[c] EXCEPT !.phase = "keys", !.keys = {}, !.rec = None,
                            !.at = 0, !.pair = 0,
                            !.assertion = [version |-> 1, kid |-> k.kid, iat |-> clock,
                                           exp |-> exp, created |-> call[c].rec.created]])
      PROVE  TrustMoves(c)
  <2>1. k \in call[c].keys /\ clock < k.until
    BY <1>2 DEF Keys!Active
  <2>2. PICK a : a = [version |-> 1, kid |-> k.kid, iat |-> clock,
                      exp |-> exp, created |-> call[c].rec.created]
    BY Zenon
  <2>3. a.version = 1 /\ a.kid = k.kid /\ a.exp = exp /\ a # None
    BY <2>2 DEF None
  <2>4. exp <= k.verify /\ k.verify \in Nat
    BY <1>1, <1>2, <2>1 DEF KeyRecords
  <2>5. KeyTrusted(k.kid, k.verify)'
    BY <1>1, <2>1, TrustKept
  <2>6. KeyTrusted(a.kid, a.exp)'
    <3>1. \A f \in 1..file' : KeyFiles[f] \subseteq KeyRecords
      BY FileType DEF Learns
    <3>2. PICK v, e : v = k.verify /\ e = exp
      OBVIOUS
    <3>3. \A l \in KeyRecords : v <= l.verify => e <= l.verify
      BY <1>1, <2>4, <3>2 DEF KeyRecords
    <3>4. QED BY <2>3, <2>5, <3>1, <3>2, <3>3 DEF KeyTrusted
  <2>7. PICK st : st = [call[c] EXCEPT !.phase = "keys", !.keys = {}, !.rec = None,
                                       !.at = 0, !.pair = 0, !.assertion = a]
    OBVIOUS
  <2>8. st.phase = "keys" /\ st.assertion = a
    BY <1>1, <2>7 DEF Fields
  <2>9. TrustOK(st)'
    BY <1>1, <2>3, <2>6, <2>8 DEF TrustOK, SignedPhases
  <2>10. Becomes(c, st)
    BY <1>2, <2>2, <2>7
  <2>11. QED BY <2>9, <2>10, TrustTo
<1>3. QED BY <1>2, TrustDone, Zenon DEF Issue

\* Every step keeps the invariant on keys.
LEMMA KeysStep ==
    ASSUME Inv, KeysInv, [Next]_vars
    PROVE  KeysInv'
<1>1. Learns /\ \A old \in seen' : old.verify \in Nat
  BY LearnsSteps
<1>2. \A st : TrustOK(st) => TrustOK(st)'
  BY <1>1, TrustOKKept
<1>3. CASE call' = call
  BY <1>1, <1>2, <1>3 DEF KeysInv, Learns
<1>4. ASSUME NEW c \in Calls, TrustMoves(c)
      PROVE  KeysInv'
  <2>1. PICK st : Becomes(c, st) /\ TrustOK(st)'
    BY <1>4 DEF TrustMoves
  <2>2. call'[c] = st /\ \A d \in Calls \ {c} : call'[d] = call[d]
    BY <2>1 DEF Becomes, Inv, CallsOK
  <2>3. \A d \in Calls : \A x \in {call'[d]} : TrustOK(x)'
    BY <1>2, <2>1, <2>2 DEF KeysInv
  <2>4. QED BY <1>1, <2>3 DEF KeysInv, Learns
<1>5. ASSUME NEW c \in Calls, CallNext(c)
      PROVE  TrustMoves(c)
  <2>1. CASE Prepare(c) \/ RefreshSession(c) \/ Present(c)
    BY <2>1, TrustStarts
  <2>2. CASE Create(c) \/ Activate(c) \/ Put(c) \/ Cleanup(c) \/ Rotate(c) \/ Revoke(c)
               \/ RequestDropped(c)
    BY <1>1, <2>2, TrustMinting
  <2>3. CASE Find(c) \/ Get(c) \/ GetSigningKeys(c) \/ VerifyContext(c) \/ VerifyAssertion(c)
               \/ Check(c) \/ CheckGet(c) \/ Verified(c)
    BY <1>1, <2>3, TrustPresenting
  <2>4. CASE IssueLoads(c)
    BY <1>1, <2>4, TrustLoads
  <2>5. CASE Issue(c)
    BY <1>1, <2>5, TrustIssues
  <2>6. QED BY <1>5, <2>1, <2>2, <2>3, <2>4, <2>5 DEF CallNext
<1>6. call' = call \/ \E c \in Calls : CallNext(c)
  BY DEF Next, vars, Tick, DeployKeys, Restart, RedisLoses
<1>7. QED BY <1>3, <1>4, <1>5, <1>6

\* It holds when Auth has started.
LEMMA KeysInit == Init => KeysInv
<1> SUFFICES ASSUME Init PROVE KeysInv
  OBVIOUS
<1>1. file \in 1..Len(KeyFiles) /\ file = 1
  BY SessionAssumption DEF Init
<1>2. KeyFiles[1] \subseteq KeyRecords
  BY <1>1, FileType
<1>3. \A old \in seen : old.verify \in Nat
  BY <1>2 DEF Init, Keys!Remember, KeyRecords
<1>4. Idle.phase = "done" /\ Idle.assertion = None
  BY DEF Idle, Begin
<1>5. TrustOK(Idle)
  BY <1>4 DEF TrustOK, SignedPhases
<1>6. QED BY <1>1, <1>3, <1>5 DEF Init, KeysInv

\* Both invariants hold in every reachable state.
THEOREM KeysInvariance == Spec => [](Inv /\ KeysInv)
PROOF BY KeysInit, KeysStep, Invariance, PTL DEF Spec

\* AcceptedInTime: an accepted assertion has not expired, and it expires no later
\* than the key that signed it stops being trusted, whatever time the steps of the
\* check took (Verifier.Verify, Manager.Issue).
THEOREM AcceptedCorrect == Spec => AcceptedInTime
<1> DEFINE A(c) == /\ clock < call[c].assertion.exp
                   /\ \E f \in 1..file : \E k \in KeyFiles[f] :
                         k.kid = call[c].assertion.kid /\ call[c].assertion.exp <= k.verify
<1>1. ASSUME Inv, KeysInv, Next, NEW c \in Calls, Serves(c)
      PROVE  A(c)
  <2>1. call[c].phase = "verified" /\ clock < call[c].assertion.exp
    BY <1>1, ServesVerified DEF Verified
  <2>2. KeyTrusted(call[c].assertion.kid, call[c].assertion.exp)
    BY <1>1, <2>1 DEF KeysInv, TrustOK, SignedPhases
  <2>3. QED BY <2>1, <2>2 DEF KeyTrusted
<1>2. Inv /\ KeysInv /\ [Next]_vars => [\A c \in Calls : Serves(c) => A(c)]_vars
  BY <1>1
<1>3. QED BY <1>2, KeysInvariance, PTL DEF Spec, AcceptedInTime

\* RotationKeepsTrust: while a manager that knows the signing key accepts the key
\* file, that key is still in it for every assertion that has not expired
\* (Manager.load), provided that successive files never shorten a key.
THEOREM RotationCorrect ==
    ASSUME KeysNeverShortened
    PROVE  Spec => []RotationKeepsTrust
<1>1. ASSUME Inv, KeysInv
      PROVE  RotationKeepsTrust
  <2> SUFFICES ASSUME NEW c \in Calls, NEW a, a = call[c].assertion, call[c].phase # "done",
                      a # None, clock < a.exp, NEW old \in seen, old.kid = a.kid,
                      Keys!Load(KeyFiles[file], seen, clock)
               PROVE  \E k \in Keys!Trusted(KeyFiles[file], clock) : k.kid = a.kid
    BY DEF RotationKeepsTrust
  <2>1. a.exp \in Nat /\ KeyTrusted(a.kid, a.exp) /\ clock \in Nat
    BY <1>1 DEF KeysInv, TrustOK, Inv, SessionsOK
  <2>2. PICK f \in 1..file : \E k \in KeyFiles[f] :
          k.kid = a.kid /\ a.exp <= k.verify /\ old.verify >= k.verify
    BY <1>1, <2>1 DEF KeyTrusted
  <2>3. PICK k \in KeyFiles[f] : k.kid = a.kid /\ a.exp <= k.verify /\ old.verify >= k.verify
    BY <2>2
  <2>4. k.verify \in Nat /\ old.verify \in Nat
    BY <1>1, FileType DEF KeysInv, KeyRecords
  <2>5. clock < old.verify
    BY <2>1, <2>3, <2>4
  <2>6. IF {l \in KeyFiles[file] : l.kid = old.kid} = {} THEN old.verify <= clock
        ELSE \A l \in {m \in KeyFiles[file] : m.kid = old.kid} : l.verify >= old.verify
    BY DEF Keys!Load, Keys!Consistent
  <2>7. PICK l \in KeyFiles[file] : l.kid = old.kid /\ l.verify >= old.verify
    BY <2>1, <2>4, <2>5, <2>6
  <2>8. l.verify \in Nat
    BY <1>1, FileType DEF KeysInv, KeyRecords
  <2>9. clock < l.verify
    BY <2>1, <2>4, <2>5, <2>7, <2>8
  <2>10. QED BY <2>7, <2>9 DEF Keys!Trusted
<1>2. QED BY <1>1, KeysInvariance, PTL

==============================================================================
