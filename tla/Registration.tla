---------------------------- MODULE Registration ----------------------------
(***************************************************************************)
(* How an account becomes a profile: Auth stores the credential and the    *)
(* registration fact in one statement, leased workers publish the outbox   *)
(* to JetStream, the User service consumes the durable subscription and    *)
(* applies the fact with an inbox, and an operator's backfill records and  *)
(* replays facts. Crashes, lost acknowledgements, ambiguous statements,    *)
(* leases that run out under a slow worker and messages redelivered to     *)
(* another consumer are actions of their own and spend a budget of faults. *)
(***************************************************************************)
EXTENDS Naturals, FiniteSets

CONSTANTS
    Subjects,     \* subject ids, ordered as the backfill's cursor orders them
    Identifier,   \* the login each registration request asks for
    Workers,      \* outbox workers of the Auth replicas
    Consumers,    \* consumers of the User replicas
    Operators,    \* operators who run the backfill command
    PageLimit,    \* backfill Options.Limit
    Modes,        \* backfill flags in use: "dry", "apply" or "replay"
    MaxFaults,    \* bound: faults of one behaviour
    MaxCopies,    \* bound: messages the stream holds of one event
    MaxMarks,     \* bound: times one row is marked published
    MaxVersion,   \* bound: profile version
    MaxDiscards   \* bound: messages removed by the stream's limits

ASSUME RegistrationAssumption ==
    /\ Subjects \subseteq Nat \ {0}
    /\ Workers \cap {"none", "expired", "gone"} = {}
    /\ PageLimit \in Nat \ {0} /\ Modes \subseteq {"dry", "apply", "replay"}
    /\ MaxFaults \in Nat /\ MaxDiscards \in Nat
    /\ MaxCopies \in Nat \ {0} /\ MaxMarks \in Nat \ {0} /\ MaxVersion \in Nat \ {0}

VARIABLES
    asked,        \* registration requests already answered
    accounts,     \* auth.credentials
    outbox,       \* auth.registration_outbox by subject
    worker,       \* what each outbox worker is doing
    wire,         \* publications on their way to the broker
    window,       \* message ids the broker still deduplicates
    stream,       \* messages of AUTH_REGISTRATION with their delivery state
    consumer,     \* what each consumer is doing
    inbox,        \* users.registration_inbox: event id to payload
    profiles,     \* users.profiles: version by subject, 0 without a row
    backfill,     \* each operator's page
    discarded,    \* subjects the stream's limits removed a message of
    faults        \* faults left to spend

authVars == <<asked, accounts, backfill>>
brokerVars == <<wire, window, stream, discarded>>
userVars == <<consumer, inbox, profiles>>
vars == <<asked, accounts, outbox, worker, wire, window, stream, consumer, inbox,
          profiles, backfill, discarded, faults>>

Event(s, origin) == [subject |-> s, origin |-> origin]

Events == {Event(s, o) : s \in Subjects, o \in Operators \cup {"register"}}

\* registrationwire.Marshal: the canonical payload names the event and its subject.
Marshal(e) == [event |-> e, subject |-> e.subject]

\* registrationwire.ValidatePayload, on what Marshal made.
ValidatePayload(payload, id) == payload.event = id /\ payload = Marshal(id)

NoRow == [lease |-> "none", due |-> FALSE, marks |-> 0, published |-> FALSE]

\* A fresh outbox row: due at once, no lease, not published.
Row(e) == [id |-> e, payload |-> Marshal(e), lease |-> "none", due |-> TRUE,
           marks |-> 0, published |-> FALSE]

HasRow(s) == outbox[s] # NoRow

Idle == [phase |-> "idle", row |-> 0]

NoPage == [rows |-> {}, mode |-> "dry"]

Fault == faults > 0 /\ faults' = faults - 1

Init ==
    /\ asked = {}
    /\ accounts = {}
    /\ outbox = [s \in Subjects |-> NoRow]
    /\ worker = [w \in Workers |-> Idle]
    /\ wire = {}
    /\ window = {}
    /\ stream = {}
    /\ consumer = [c \in Consumers |-> [phase |-> "disconnected"]]
    /\ inbox = [e \in {} |-> e]
    /\ profiles = [s \in Subjects |-> 0]
    /\ backfill = [o \in Operators |-> NoPage]
    /\ discarded = {}
    /\ faults = MaxFaults

----------------------------------------------------------------------------
(* Registration. *)

Taken(s) == \E a \in accounts : Identifier[a] = Identifier[s]

\* register.Execute with events: credential and outbox row in one statement,
\* neither of them when another request won the identifier.
CreateRegistration(s) ==
    /\ s \notin asked
    /\ asked' = asked \cup {s}
    /\ accounts' = IF Taken(s) THEN accounts ELSE accounts \cup {s}
    /\ outbox' = IF Taken(s) THEN outbox
                 ELSE [outbox EXCEPT ![s] = Row(Event(s, "register"))]
    /\ UNCHANGED <<worker, brokerVars, userVars, backfill, faults>>

\* register.Execute in a replica that does not record events.
Create(s) ==
    /\ s \notin asked
    /\ ~Taken(s)
    /\ asked' = asked \cup {s}
    /\ accounts' = accounts \cup {s}
    /\ UNCHANGED <<outbox, worker, brokerVars, userVars, backfill, faults>>

----------------------------------------------------------------------------
(* The outbox worker. *)

\* claimSQL's candidates.
Claimable(s) ==
    /\ HasRow(s)
    /\ ~outbox[s].published
    /\ outbox[s].due
    /\ outbox[s].lease \in {"none", "expired"}

\* A tick of Run claims the rows that are due, one after the other; a batch is
\* over, for as long as a tick, when it is full or nothing is due.
Claim(w) ==
    /\ worker[w].phase = "idle"
    /\ \E s \in Subjects :
          /\ Claimable(s)
          /\ outbox' = [outbox EXCEPT ![s].lease = w]
          /\ worker' = [worker EXCEPT ![w] = [phase |-> "claimed", row |-> s]]
    /\ UNCHANGED <<authVars, brokerVars, userVars, faults>>

\* Claim returns an error although the statement committed its lease.
ClaimFails(w) ==
    /\ worker[w].phase = "idle"
    /\ Fault
    /\ \E s \in Subjects : Claimable(s) /\ outbox' = [outbox EXCEPT ![s].lease = w]
    /\ UNCHANGED <<authVars, worker, brokerVars, userVars>>

\* Publisher.Publish hands the stored payload to the broker.
Publish(w) ==
    LET row == outbox[worker[w].row] IN
    /\ worker[w].phase = "claimed"
    /\ ValidatePayload(row.payload, row.id)
    /\ worker' = [worker EXCEPT ![w].phase = "sent"]
    /\ wire' = wire \cup {[from |-> w, id |-> row.id, payload |-> row.payload]}
    /\ UNCHANGED <<authVars, outbox, window, stream, discarded, userVars, faults>>

\* No connection to the broker: closed publisher, failed dial or handshake.
PublishUnconnected(w) ==
    /\ worker[w].phase = "claimed"
    /\ Fault
    /\ worker' = [worker EXCEPT ![w].phase = "failed"]
    /\ UNCHANGED <<authVars, outbox, brokerVars, userVars>>

Answerable(w) == \E p \in wire : p.from = w

\* Nobody waits any more for the answer to what w published.
Orphan(w) == {IF p.from = w THEN [p EXCEPT !.from = "gone"] ELSE p : p \in wire}

\* Mutant: a publish that timed out counts as published.
PublishTimesOutAsSuccess(w) ==
    /\ worker[w].phase = "sent"
    /\ IF Answerable(w) THEN Fault ELSE UNCHANGED faults
    /\ worker' = [worker EXCEPT ![w].phase = "published"]
    /\ wire' = Orphan(w)
    /\ UNCHANGED <<authVars, outbox, window, stream, discarded, userVars>>

\* The publish context ends: the publication may still reach the broker.
PublishTimesOut(w) ==
    /\ worker[w].phase = "sent"
    /\ IF Answerable(w) THEN Fault ELSE UNCHANGED faults
    /\ worker' = [worker EXCEPT ![w].phase = "failed"]
    /\ wire' = Orphan(w)
    /\ UNCHANGED <<authVars, outbox, window, stream, discarded, userVars>>

HoldsLease(w) ==
    LET row == outbox[worker[w].row] IN row.lease = w /\ ~row.published

\* markSQL; a lease lost to another worker leaves the row as it is.
MarkPublished(w) ==
    LET s == worker[w].row IN
    /\ worker[w].phase = "published"
    /\ outbox' = IF HoldsLease(w)
                 THEN [outbox EXCEPT ![s].published = TRUE, ![s].lease = "none",
                                     ![s].marks = @ + 1]
                 ELSE outbox
    /\ worker' = [worker EXCEPT ![w] = Idle]
    /\ UNCHANGED <<authVars, brokerVars, userVars, faults>>

\* retrySQL: the row comes due again after the backoff.
Retry(w) ==
    LET s == worker[w].row IN
    /\ worker[w].phase = "failed"
    /\ outbox' = IF HoldsLease(w)
                 THEN [outbox EXCEPT ![s].due = FALSE, ![s].lease = "none"]
                 ELSE outbox
    /\ worker' = [worker EXCEPT ![w] = Idle]
    /\ UNCHANGED <<authVars, brokerVars, userVars, faults>>

\* MarkPublished or Retry failed in the database: the batch goes on without.
SettleFails(w) ==
    /\ worker[w].phase \in {"published", "failed"}
    /\ Fault
    /\ worker' = [worker EXCEPT ![w] = Idle]
    /\ UNCHANGED <<authVars, outbox, brokerVars, userVars>>

\* Cancellation or a crash of the replica; the lease stays for recovery.
WorkerStops(w) ==
    /\ worker[w].phase # "idle"
    /\ Fault
    /\ worker' = [worker EXCEPT ![w] = Idle]
    /\ wire' = Orphan(w)
    /\ UNCHANGED <<authVars, outbox, window, stream, discarded, userVars>>

\* lease_until passes. LeaseDuration exceeds the time a healthy worker needs, so
\* that a lease in use runs out only under a worker that is too slow.
LeaseExpires(s) ==
    /\ outbox[s].lease \in Workers
    /\ IF worker[outbox[s].lease].row = s THEN Fault ELSE UNCHANGED faults
    /\ outbox' = [outbox EXCEPT ![s].lease = "expired"]
    /\ UNCHANGED <<authVars, worker, brokerVars, userVars>>

\* next_attempt_at passes.
RetryDue(s) ==
    /\ HasRow(s)
    /\ ~outbox[s].due
    /\ outbox' = [outbox EXCEPT ![s].due = TRUE]
    /\ UNCHANGED <<authVars, worker, brokerVars, userVars, faults>>

----------------------------------------------------------------------------
(* JetStream. *)

Copies(id) == {m \in stream : m.id = id}

\* The stream stores a publication, or recognises its Nats-Msg-Id, and answers;
\* the answer may be lost.
BrokerAccepts(p) ==
    /\ p \in wire
    /\ wire' = wire \ {p}
    /\ window' = window \cup {p.id}
    /\ stream' = IF p.id \in window THEN stream
                 ELSE stream \cup {[id |-> p.id, n |-> Cardinality(Copies(p.id)) + 1,
                                    payload |-> p.payload, state |-> "pending"]}
    /\ \/ /\ worker' = [w \in Workers |-> IF w = p.from
                                          THEN [worker[w] EXCEPT !.phase = "published"]
                                          ELSE worker[w]]
          /\ UNCHANGED faults
       \/ /\ p.from \in Workers
          /\ Fault
          /\ UNCHANGED worker
    /\ UNCHANGED <<authVars, outbox, discarded, userVars>>

PublicationLost(p) ==
    /\ p \in wire
    /\ Fault
    /\ wire' = wire \ {p}
    /\ UNCHANGED <<authVars, outbox, worker, window, stream, discarded, userVars>>

WindowCloses(id) ==
    /\ id \in window
    /\ Cardinality(Copies(id)) < MaxCopies
    /\ window' = window \ {id}
    /\ UNCHANGED <<authVars, outbox, worker, wire, stream, discarded, userVars, faults>>

\* Limits retention removes a message nobody acknowledged.
Discard(m) ==
    /\ m \in stream
    /\ m.state \notin {"acked", "gone"}
    /\ Cardinality(discarded) < MaxDiscards
    /\ stream' = (stream \ {m}) \cup {[m EXCEPT !.state = "gone"]}
    /\ discarded' = discarded \cup {m.id.subject}
    /\ UNCHANGED <<authVars, outbox, worker, wire, window, userVars, faults>>

Held(m) == \E c \in Consumers : /\ consumer[c].phase \in {"handling", "applied", "rejected"}
                                /\ consumer[c].id = m.id
                                /\ consumer[c].n = m.n

Redeliver(m) == (stream \ {m}) \cup {[m EXCEPT !.state = "pending"]}

\* AckWait passes. connect insists on an AckWait above two operation timeouts,
\* so that only a consumer that is too slow sees its message delivered again.
AckWaitExpires(m) ==
    /\ m \in stream
    /\ m.state = "delivered"
    /\ IF Held(m) THEN Fault ELSE UNCHANGED faults
    /\ stream' = Redeliver(m)
    /\ UNCHANGED <<authVars, outbox, worker, wire, window, discarded, userVars>>

----------------------------------------------------------------------------
(* The consumer of the User service. *)

Connect(c) ==
    /\ consumer[c].phase = "disconnected"
    /\ consumer' = [consumer EXCEPT ![c] = [phase |-> "ready"]]
    /\ UNCHANGED <<authVars, outbox, worker, brokerVars, inbox, profiles, faults>>

\* Cancellation, a crash, or a broken connection.
ConsumerStops(c) ==
    /\ consumer[c].phase # "disconnected"
    /\ Fault
    /\ consumer' = [consumer EXCEPT ![c] = [phase |-> "disconnected"]]
    /\ UNCHANGED <<authVars, outbox, worker, brokerVars, inbox, profiles>>

\* consumer.Next
Fetch(c) ==
    /\ consumer[c].phase = "ready"
    /\ \E m \in stream :
          /\ m.state = "pending"
          /\ stream' = (stream \ {m}) \cup {[m EXCEPT !.state = "delivered"]}
          /\ consumer' = [consumer EXCEPT ![c] = [phase |-> "handling", id |-> m.id,
                                                  n |-> m.n, payload |-> m.payload]]
    /\ UNCHANGED <<authVars, outbox, worker, wire, window, discarded, inbox, profiles, faults>>

Conflict(payload) ==
    payload.event \in DOMAIN inbox /\ inbox[payload.event] # payload

\* Mutant: a replayed fact overwrites the profile (ON CONFLICT DO UPDATE).
AcceptOverwrites(payload) ==
    /\ inbox' = IF payload.event \in DOMAIN inbox THEN inbox
                ELSE [e \in DOMAIN inbox \cup {payload.event} |->
                         IF e = payload.event THEN payload ELSE inbox[e]]
    /\ profiles' = [profiles EXCEPT ![payload.subject] = 1]

\* The one statement of postgresregistration.Store.Apply: inbox row and initial
\* profile together; the inbox row of a known event only has to be the same.
Accept(payload) ==
    /\ inbox' = IF payload.event \in DOMAIN inbox THEN inbox
                ELSE [e \in DOMAIN inbox \cup {payload.event} |->
                         IF e = payload.event THEN payload ELSE inbox[e]]
    /\ profiles' = IF profiles[payload.subject] = 0
                   THEN [profiles EXCEPT ![payload.subject] = 1]
                   ELSE profiles

\* handle: applied or a duplicate, or refused because the id is known with
\* another payload.
Apply(c) ==
    /\ consumer[c].phase = "handling"
    /\ IF Conflict(consumer[c].payload)
       THEN /\ consumer' = [consumer EXCEPT ![c].phase = "rejected"]
            /\ UNCHANGED <<inbox, profiles>>
       ELSE /\ consumer' = [consumer EXCEPT ![c].phase = "applied"]
            /\ Accept(consumer[c].payload)
    /\ UNCHANGED <<authVars, outbox, worker, brokerVars, faults>>

\* Apply returns an error; the statement may have committed.
ApplyFails(c) ==
    /\ consumer[c].phase = "handling"
    /\ Fault
    /\ consumer' = [consumer EXCEPT ![c].phase = "rejected"]
    /\ \/ ~Conflict(consumer[c].payload) /\ Accept(consumer[c].payload)
       \/ UNCHANGED <<inbox, profiles>>
    /\ UNCHANGED <<authVars, outbox, worker, brokerVars>>

Settled(c, state) ==
    {IF m.id = consumer[c].id /\ m.n = consumer[c].n /\ m.state \notin {"acked", "gone"}
     THEN [m EXCEPT !.state = state] ELSE m : m \in stream}

\* DoubleAck
Acknowledge(c) ==
    /\ consumer[c].phase = "applied"
    /\ stream' = Settled(c, "acked")
    /\ consumer' = [consumer EXCEPT ![c] = [phase |-> "ready"]]
    /\ UNCHANGED <<authVars, outbox, worker, wire, window, discarded, inbox, profiles, faults>>

\* Mutant: what could not be applied is acknowledged, so that it is not retried.
NegativeAcknowledgeDrops(c) ==
    /\ consumer[c].phase = "rejected"
    /\ stream' = Settled(c, "acked")
    /\ consumer' = [consumer EXCEPT ![c] = [phase |-> "ready"]]
    /\ UNCHANGED <<authVars, outbox, worker, wire, window, discarded, inbox, profiles, faults>>

\* NakWithDelay
NegativeAcknowledge(c) ==
    /\ consumer[c].phase = "rejected"
    /\ stream' = Settled(c, "pending")
    /\ consumer' = [consumer EXCEPT ![c] = [phase |-> "ready"]]
    /\ UNCHANGED <<authVars, outbox, worker, wire, window, discarded, inbox, profiles, faults>>

\* The acknowledgement or its refusal never reaches the broker.
SettlementLost(c) ==
    /\ consumer[c].phase \in {"applied", "rejected"}
    /\ Fault
    /\ consumer' = [consumer EXCEPT ![c] = [phase |-> "ready"]]
    /\ UNCHANGED <<authVars, outbox, worker, brokerVars, inbox, profiles>>

\* UpdateMe with the version the owner read: the conditional update never inserts.
UpdateMe(s) ==
    /\ profiles[s] \in 1 .. MaxVersion - 1
    /\ profiles' = [profiles EXCEPT ![s] = @ + 1]
    /\ UNCHANGED <<authVars, outbox, worker, brokerVars, consumer, inbox, faults>>

----------------------------------------------------------------------------
(* The operator's backfill. *)

Candidate(s) == [subject |-> s, missing |-> ~HasRow(s),
                 published |-> IF outbox[s].published THEN outbox[s].marks ELSE 0]

\* Store.Scan: the accounts after the cursor, at most a page of them, lowest first.
Scan(after) ==
    LET found == {s \in accounts : s > after} IN
    {Candidate(s) : s \in {f \in found : Cardinality({g \in found : g < f}) < PageLimit}}

\* Service.Page reads its rows, after whichever cursor the operator passes.
PageStarts(o) ==
    /\ backfill[o].rows = {}
    /\ \E after \in Subjects \cup {0}, mode \in Modes :
          /\ Scan(after) # {}
          /\ backfill' = [backfill EXCEPT ![o] = [rows |-> Scan(after), mode |-> mode]]
    /\ UNCHANGED <<asked, accounts, outbox, worker, brokerVars, userVars, faults>>

\* Mutant: a missing fact is written over one recorded since the scan.
EnsureReplaces(o, row) ==
    outbox' = [outbox EXCEPT ![row.subject] = Row(Event(row.subject, o))]

\* Store.Ensure: ON CONFLICT(subject_id) DO NOTHING
Ensure(o, row) ==
    outbox' = IF HasRow(row.subject) THEN outbox
              ELSE [outbox EXCEPT ![row.subject] = Row(Event(row.subject, o))]

\* Store.Replay: only the publication the scan saw is queued again.
Replay(row) ==
    LET current == outbox[row.subject] IN
    outbox' = IF /\ current.published /\ current.marks = row.published
                 /\ current.lease = "none" /\ current.marks < MaxMarks
              THEN [outbox EXCEPT ![row.subject].published = FALSE,
                                  ![row.subject].due = TRUE]
              ELSE outbox

ProcessRow(o, row) ==
    CASE row.missing /\ backfill[o].mode # "dry" -> Ensure(o, row)
      [] ~row.missing /\ row.published > 0 /\ backfill[o].mode = "replay" -> Replay(row)
      [] OTHER -> UNCHANGED outbox

\* Page's loop, in the order of the subjects.
NextRow(o, row) ==
    /\ row \in backfill[o].rows
    /\ \A other \in backfill[o].rows : row.subject <= other.subject

PageRow(o) ==
    /\ \E row \in backfill[o].rows :
          LET rest == backfill[o].rows \ {row} IN
          /\ NextRow(o, row)
          /\ ProcessRow(o, row)
          /\ backfill' = [backfill EXCEPT ![o] = IF rest = {} THEN NoPage
                                                 ELSE [@ EXCEPT !.rows = rest]]
    /\ UNCHANGED <<asked, accounts, worker, brokerVars, userVars, faults>>

\* The command is interrupted, or a statement fails, whether or not it committed.
PageFails(o) ==
    /\ \E row \in backfill[o].rows :
          NextRow(o, row) /\ (ProcessRow(o, row) \/ UNCHANGED outbox)
    /\ Fault
    /\ backfill' = [backfill EXCEPT ![o] = NoPage]
    /\ UNCHANGED <<asked, accounts, worker, brokerVars, userVars>>

----------------------------------------------------------------------------

WorkerWorks(w) ==
    Claim(w) \/ Publish(w) \/ PublishTimesOut(w) \/ MarkPublished(w) \/ Retry(w)

WorkerNext(w) ==
    \/ WorkerWorks(w)
    \/ ClaimFails(w) \/ PublishUnconnected(w) \/ SettleFails(w) \/ WorkerStops(w)

ConsumerWorks(c) ==
    Connect(c) \/ Fetch(c) \/ Apply(c) \/ Acknowledge(c) \/ NegativeAcknowledge(c)

ConsumerNext(c) ==
    \/ ConsumerWorks(c)
    \/ ApplyFails(c) \/ SettlementLost(c) \/ ConsumerStops(c)

BrokerNext ==
    \/ \E p \in wire : BrokerAccepts(p) \/ PublicationLost(p)
    \/ \E id \in window : WindowCloses(id)
    \/ \E m \in stream : Discard(m) \/ AckWaitExpires(m)

Next ==
    \/ \E s \in Subjects : \/ CreateRegistration(s) \/ Create(s) \/ UpdateMe(s)
                           \/ LeaseExpires(s) \/ RetryDue(s)
    \/ \E w \in Workers : WorkerNext(w)
    \/ \E c \in Consumers : ConsumerNext(c)
    \/ BrokerNext
    \/ \E o \in Operators : PageStarts(o) \/ PageRow(o) \/ PageFails(o)

Spec == Init /\ [][Next]_vars

\* Replicas that run keep running, timers fire, and the broker handles what it
\* received; faults are as many as the budget allows.
FairSpec ==
    /\ Spec
    /\ \A w \in Workers : WF_vars(WorkerWorks(w))
    /\ \A c \in Consumers : WF_vars(ConsumerWorks(c))
    /\ \A s \in Subjects : WF_vars(LeaseExpires(s)) /\ WF_vars(RetryDue(s))
    /\ WF_vars(\E p \in wire : BrokerAccepts(p))
    /\ WF_vars(\E m \in stream : AckWaitExpires(m))

----------------------------------------------------------------------------
(* Properties. *)

\* A recorded registration is never lost between the two services: until its
\* profile exists, the outbox still has to publish it or the stream still has to
\* deliver it (publisher "Cancellation leaves the lease for recovery, including
\* ambiguous publish outcomes"; consumer handle acknowledges only what it applied).
NothingLost ==
    \A s \in Subjects : HasRow(s) /\ s \notin discarded =>
        \/ profiles[s] > 0
        \/ ~outbox[s].published
        \/ \E m \in stream : m.id = outbox[s].id /\ m.state \in {"pending", "delivered"}

\* However often a fact is retried, backfilled or replayed, every copy of it on
\* the wire, in the stream and in the inbox is the event the outbox recorded for
\* that subject: the User service sees one registration of an account and no
\* profile belongs to a subject without one.
OneFactPerAccount ==
    /\ \A p \in wire : p.id = outbox[p.id.subject].id
    /\ \A m \in stream : m.id = outbox[m.id.subject].id
    /\ \A e \in DOMAIN inbox : e = outbox[e.subject].id
    /\ \A s \in Subjects : profiles[s] > 0 <=> \E e \in DOMAIN inbox : e.subject = s

\* Applying a registration again, on redelivery or replay, never takes back what
\* the owner changed since (ON CONFLICT(subject_id) DO NOTHING beside UpdateMe).
ProfileNeverReset ==
    [][\A s \in Subjects : profiles'[s] >= profiles[s]]_vars

\* The pipeline implements Provisioning, its liveness included: every recorded
\* account that the stream's limits spared gets its one profile.
Captured == {s \in Subjects : HasRow(s)}

Provisioned == INSTANCE Provisioning WITH captured <- Captured

ProvisionsEveryAccount == Provisioned!Spec

=============================================================================
