------------------------- MODULE RegistrationProofs -------------------------
(***************************************************************************)
(* The proofs about Registration, for every number of accounts, outbox     *)
(* workers, consumers, operators of the backfill and faults: no            *)
(* registration is lost between PostgreSQL, JetStream and the inbox of     *)
(* User, one fact exists per account, a profile never goes back to its     *)
(* default, and the whole pipeline implements Provisioning.                *)
(*                                                                         *)
(* The properties are not inductive: that a published row is in the stream *)
(* rests on what a worker knows between the answer of JetStream and        *)
(* MarkPublished, and that on the fact every publication on the wire       *)
(* carries. IInv says it stage by stage, from the row to the inbox. Each   *)
(* stage has a lemma that bounds what a step does to it (OutboxStep,       *)
(* WireStep, UserStep, ConsumerEdit, StreamStep), and the invariant of a   *)
(* stage follows from those bounds and not from the actions.               *)
(***************************************************************************)
EXTENDS Registration, TLAPS

\* A well-formed payload of a registration event.
Payloads == [event : Events, subject : Subjects]

\* Who holds the lease of a row.
Leases == Workers \cup {"none", "expired"}

\* A row of auth.registration_outbox.
Rows == [id : Events, payload : Payloads, lease : Leases, due : BOOLEAN,
         marks : Nat, published : BOOLEAN]

\* What the backfill reads of an account.
Candidates == [subject : Subjects, missing : BOOLEAN, published : Nat]

\* A page of the backfill.
Pages == [rows : SUBSET Candidates, mode : Modes \cup {"dry"}]

\* Where an outbox worker is.
WorkerStates == [phase : {"idle", "claimed", "sent", "published", "failed"},
                 row : Subjects \cup {0}]

\* A publication on its way to JetStream; its sender may have given up.
Publications == [from : Workers \cup {"gone"}, id : Events, payload : Payloads]

\* A stored message carries the payload that was marshalled for its event.
Message(m) ==
    /\ DOMAIN m = {"id", "n", "payload", "state"}
    /\ m.id \in Events
    /\ m.payload = Marshal(m.id)

\* The event is the one the outbox row of its account holds.
Known(e) == HasRow(e.subject) /\ outbox[e.subject].id = e

\* The stream has a message of the event.
Stored(e) == \E m \in stream : m.id = e

\* The first stage: a row exists only for an account, and holds that account's
\* event. A page of the backfill names accounts only.
RowsOK ==
    /\ asked \subseteq Subjects /\ accounts \subseteq asked
    /\ outbox \in [Subjects -> Rows \cup {NoRow}]
    /\ \A s \in Subjects : HasRow(s) =>
          /\ s \in accounts
          /\ outbox[s].id.subject = s
          /\ outbox[s].payload = Marshal(outbox[s].id)
    /\ backfill \in [Operators -> Pages]
    /\ \A o \in Operators : \A row \in backfill[o].rows : row.subject \in accounts

\* The second stage: a working worker has a row, and everything on the wire is the
\* fact of a row, sent by the worker that still waits for the answer or by nobody.
WorkersOK ==
    /\ worker \in [Workers -> WorkerStates]
    /\ \A w \in Workers : worker[w].phase # "idle" =>
          worker[w].row \in Subjects /\ HasRow(worker[w].row)
    /\ wire \subseteq Publications
    /\ \A p \in wire :
          /\ Known(p.id)
          /\ p.payload = Marshal(p.id)
          /\ p.from \in Workers => /\ worker[p.from].phase = "sent"
                                   /\ worker[p.from].row = p.id.subject

\* The third stage: the stream and its window of duplicates hold facts of rows, and
\* a row marked as published, or about to be, is in the stream.
StreamOK ==
    /\ \A m \in stream : Message(m) /\ Known(m.id)
    /\ window \subseteq Events
    /\ \A e \in window : Stored(e)
    /\ \A w \in Workers : worker[w].phase = "published" => Stored(outbox[worker[w].row].id)
    /\ \A s \in Subjects : outbox[s].published => Stored(outbox[s].id)

\* The consumer has a message in hand.
Working(c) == consumer[c].phase \in {"handling", "applied", "rejected"}

\* The last stage: the inbox holds facts of rows as they were marshalled, an
\* account has a profile exactly when one of its events is in the inbox, and a
\* consumer that applied its message left a profile behind.
UserOK ==
    /\ profiles \in [Subjects -> Nat]
    /\ DOMAIN consumer = Consumers
    /\ \A c \in Consumers : Working(c) =>
          /\ DOMAIN consumer[c] = {"phase", "id", "n", "payload"}
          /\ consumer[c].id \in Events
          /\ Known(consumer[c].id)
          /\ consumer[c].payload = Marshal(consumer[c].id)
          /\ consumer[c].phase = "applied" => profiles[consumer[c].id.subject] > 0
    /\ DOMAIN inbox \subseteq Events
    /\ \A e \in DOMAIN inbox : Known(e) /\ inbox[e] = Marshal(e)
    /\ \A s \in Subjects : profiles[s] > 0 <=> \E e \in DOMAIN inbox : e.subject = s

\* A message was acknowledged only when the profile exists, and is gone only when
\* its account was discarded.
DeliveryOK ==
    \A m \in stream : /\ m.state \in {"pending", "delivered", "acked", "gone"}
                      /\ m.state = "acked" => profiles[m.id.subject] > 0
                      /\ m.state = "gone" => m.id.subject \in discarded

\* The inductive invariant.
IInv == RowsOK /\ WorkersOK /\ StreamOK /\ UserOK /\ DeliveryOK

\* An event names an account.
LEMMA EventSubject ==
    ASSUME NEW e \in Events PROVE e.subject \in Subjects
  BY DEF Events, Event

\* What Marshal writes is read back unchanged.
LEMMA MarshalType ==
    ASSUME NEW e \in Events
    PROVE  /\ Marshal(e) \in Payloads
           /\ Marshal(e).event = e
           /\ Marshal(e).subject = e.subject
  BY EventSubject DEF Marshal, Payloads

\* A row is told apart from a missing one.
LEMMA RowIsNotNoRow ==
    ASSUME NEW r \in Rows PROVE r # NoRow
<1>1. "id" \in DOMAIN r
  BY DEF Rows
<1>2. "id" \notin DOMAIN NoRow
  BY DEF NoRow
<1> QED BY <1>1, <1>2

\* A row that was just inserted is well formed and unpublished.
LEMMA FreshRow ==
    ASSUME NEW s \in Subjects, NEW o \in Operators \cup {"register"}
    PROVE  LET r == Row(Event(s, o)) IN
           /\ r \in Rows
           /\ r.id.subject = s
           /\ r.payload = Marshal(r.id)
           /\ ~r.published
<1>1. Event(s, o) \in Events /\ Event(s, o).subject = s
  BY DEF Event, Events
<1> QED
  BY <1>1, MarshalType DEF Row, Rows, Leases

\* The invariant holds before the first registration.
THEOREM InitOK == Init => IInv
<1> SUFFICES ASSUME Init PROVE IInv
  OBVIOUS
<1> USE RegistrationAssumption
<1>1. RowsOK
  BY DEF Init, RowsOK, HasRow, NoPage, Pages
<1>2. WorkersOK
  BY DEF Init, WorkersOK, Idle, WorkerStates
<1>3. StreamOK
  BY DEF Init, StreamOK, Idle, NoRow
<1>4. UserOK
  BY DEF Init, UserOK, Working
<1>5. DeliveryOK
  BY DEF Init, DeliveryOK
<1> QED
  BY <1>1, <1>2, <1>3, <1>4, <1>5 DEF IInv

----------------------------------------------------------------------------
\* All that may happen to the row of an account: nothing, its insert, or an update
\* that keeps the event and marks it published only for a worker that has the
\* answer of JetStream.
RowStep(s) ==
    \/ outbox'[s] = outbox[s]
    \/ /\ ~HasRow(s) /\ s \in accounts'
       /\ \E o \in Operators \cup {"register"} : outbox'[s] = Row(Event(s, o))
    \/ /\ HasRow(s) /\ outbox'[s] \in Rows
       /\ outbox'[s].id = outbox[s].id /\ outbox'[s].payload = outbox[s].payload
       /\ outbox'[s].published =>
             \/ outbox[s].published
             \/ \E w \in Workers : worker[w].phase = "published" /\ worker[w].row = s

\* A step on the whole outbox; accounts are only added.
OutboxStep ==
    /\ outbox' = [s \in Subjects |-> outbox'[s]]
    /\ accounts \subseteq accounts' /\ accounts' \subseteq asked' /\ asked' \subseteq Subjects
    /\ \A s \in Subjects : RowStep(s)

\* A row in the table has the type of rows, and only such a row is published or
\* leased.
LEMMA HasRowType ==
    ASSUME RowsOK, NEW s \in Subjects
    PROVE  /\ HasRow(s) => outbox[s] \in Rows
           /\ outbox[s].published => HasRow(s)
           /\ outbox[s].lease \in Workers => HasRow(s)
  BY RegistrationAssumption DEF RowsOK, HasRow, NoRow

\* MarkPublished and MarkFailed keep the event of the row.
LEMMA MarkedRow ==
    ASSUME NEW row \in Rows
    PROVE  /\ LET r == [row EXCEPT !.published = TRUE, !.lease = "none", !.marks = @ + 1]
              IN  r \in Rows /\ r.id = row.id /\ r.payload = row.payload
           /\ LET r == [row EXCEPT !.due = FALSE, !.lease = "none"]
              IN  r \in Rows /\ r.id = row.id /\ r.payload = row.payload
                  /\ r.published = row.published
<1>1. row.marks + 1 \in Nat
  BY DEF Rows
<1>2. "none" \in Leases
  BY DEF Leases
<1> QED
  BY <1>1, <1>2, Zenon DEF Rows

\* An update of one row is an outbox step.
LEMMA RowEdit ==
    ASSUME RowsOK, NEW s \in Subjects, HasRow(s), NEW r \in Rows,
           r.id = outbox[s].id, r.payload = outbox[s].payload,
           r.published => \/ outbox[s].published
                          \/ \E w \in Workers : worker[w].phase = "published" /\ worker[w].row = s,
           outbox' = [outbox EXCEPT ![s] = r], UNCHANGED <<accounts, asked>>
    PROVE  OutboxStep
  BY Zenon DEF OutboxStep, RowStep, RowsOK

\* The backfill inserts a missing row or re-arms an old one: an outbox step.
LEMMA ProcessRowSteps ==
    ASSUME RowsOK, NEW o \in Operators, NEW row \in backfill[o].rows, ProcessRow(o, row),
           accounts' = accounts, asked' = asked
    PROVE  OutboxStep
<1>1. row.subject \in accounts /\ row.subject \in Subjects
  BY DEF RowsOK
<1>2. CASE Ensure(o, row)
  BY <1>1, <1>2, Zenon DEF Ensure, OutboxStep, RowStep, RowsOK
<1>3. CASE Replay(row)
  <2> DEFINE s == row.subject
             r == [outbox[s] EXCEPT !.published = FALSE, !.due = TRUE]
  <2>1. CASE outbox' = outbox
    BY <2>1 DEF OutboxStep, RowStep, RowsOK
  <2>2. CASE outbox[s].published /\ outbox' = [outbox EXCEPT ![s] = r]
    <3>1. HasRow(s) /\ outbox[s] \in Rows
      BY <1>1, <2>2, HasRowType
    <3>2. r \in Rows /\ r.id = outbox[s].id /\ r.payload = outbox[s].payload /\ ~r.published
      BY <3>1, Zenon DEF Rows
    <3> QED
      BY <1>1, <2>2, <3>1, <3>2, RowEdit, Zenon
  <2> QED
    BY <1>1, <1>3, <2>1, <2>2, Zenon DEF Replay, RowsOK
<1>4. CASE UNCHANGED outbox
  BY <1>4 DEF OutboxStep, RowStep, RowsOK
<1>5. Ensure(o, row) \/ Replay(row) \/ UNCHANGED outbox
  BY DEF ProcessRow
<1> QED
  BY <1>2, <1>3, <1>4, <1>5

\* Every step of the system is an outbox step.
LEMMA OutboxSteps ==
    ASSUME IInv, [Next]_vars PROVE OutboxStep
<1> USE DEF IInv
<1>0. ASSUME UNCHANGED <<outbox, accounts, asked>> PROVE OutboxStep
  BY <1>0 DEF OutboxStep, RowStep, RowsOK
<1>1. CASE UNCHANGED vars
  BY <1>0, <1>1 DEF vars
<1>2. ASSUME NEW s \in Subjects,
             \/ CreateRegistration(s) \/ Create(s) \/ UpdateMe(s)
             \/ LeaseExpires(s) \/ RetryDue(s)
      PROVE  OutboxStep
  <2>1. CASE CreateRegistration(s)
    BY <2>1, Zenon DEF CreateRegistration, OutboxStep, RowStep, RowsOK
  <2>2. CASE Create(s)
    BY <2>2 DEF Create, OutboxStep, RowStep, RowsOK
  <2>3. CASE UpdateMe(s)
    BY <2>3, <1>0 DEF UpdateMe, authVars
  <2>4. CASE LeaseExpires(s)
    <3> DEFINE r == [outbox[s] EXCEPT !.lease = "expired"]
    <3>1. HasRow(s) /\ outbox[s] \in Rows
      BY <2>4, HasRowType DEF LeaseExpires
    <3>2. r \in Rows /\ r.id = outbox[s].id /\ r.payload = outbox[s].payload
          /\ r.published = outbox[s].published
      BY <3>1 DEF Rows, Leases
    <3>3. outbox' = [outbox EXCEPT ![s] = r] /\ UNCHANGED <<accounts, asked>>
      BY <2>4 DEF LeaseExpires, authVars
    <3> QED
      BY <3>1, <3>2, <3>3, RowEdit, Zenon
  <2>5. CASE RetryDue(s)
    <3> DEFINE r == [outbox[s] EXCEPT !.due = TRUE]
    <3>1. HasRow(s) /\ outbox[s] \in Rows
      BY <2>5, HasRowType DEF RetryDue
    <3>2. r \in Rows /\ r.id = outbox[s].id /\ r.payload = outbox[s].payload
          /\ r.published = outbox[s].published
      BY <3>1, Zenon DEF Rows
    <3>3. outbox' = [outbox EXCEPT ![s] = r] /\ UNCHANGED <<accounts, asked>>
      BY <2>5 DEF RetryDue, authVars
    <3> QED
      BY <3>1, <3>2, <3>3, RowEdit, Zenon
  <2> QED
    BY <1>2, <2>1, <2>2, <2>3, <2>4, <2>5
<1>3. ASSUME NEW w \in Workers, WorkerNext(w) PROVE OutboxStep
  <2>1. CASE Claim(w) \/ ClaimFails(w)
    <3>1. PICK s \in Subjects : Claimable(s) /\ outbox' = [outbox EXCEPT ![s].lease = w]
      BY <2>1 DEF Claim, ClaimFails
    <3> DEFINE r == [outbox[s] EXCEPT !.lease = w]
    <3>2. HasRow(s) /\ outbox[s] \in Rows
      BY <3>1, HasRowType DEF Claimable
    <3>3. r \in Rows /\ r.id = outbox[s].id /\ r.payload = outbox[s].payload
          /\ r.published = outbox[s].published
      BY <3>2 DEF Rows, Leases
    <3>4. outbox' = [outbox EXCEPT ![s] = r] /\ UNCHANGED <<accounts, asked>>
      BY <2>1, <3>1 DEF Claim, ClaimFails, authVars
    <3> QED
      BY <3>2, <3>3, <3>4, RowEdit, Zenon
  <2>2. CASE MarkPublished(w) \/ Retry(w)
    <3> DEFINE s == worker[w].row
               r == [outbox[s] EXCEPT !.published = TRUE, !.lease = "none", !.marks = @ + 1]
               q == [outbox[s] EXCEPT !.due = FALSE, !.lease = "none"]
    <3>1. s \in Subjects /\ HasRow(s) /\ outbox[s] \in Rows
      BY <2>2, HasRowType DEF MarkPublished, Retry, WorkersOK
    <3>2. /\ r \in Rows /\ r.id = outbox[s].id /\ r.payload = outbox[s].payload
          /\ q \in Rows /\ q.id = outbox[s].id /\ q.payload = outbox[s].payload
          /\ q.published = outbox[s].published
      BY <3>1, MarkedRow, Zenon
    <3>3. CASE outbox' = outbox
      BY <2>2, <3>3, <1>0 DEF MarkPublished, Retry, authVars
    <3>4. CASE worker[w].phase = "published" /\ outbox' = [outbox EXCEPT ![s] = r]
      BY <2>2, <3>1, <3>2, <3>4, RowEdit, Zenon DEF MarkPublished, Retry, authVars
    <3>5. CASE outbox' = [outbox EXCEPT ![s] = q]
      BY <2>2, <3>1, <3>2, <3>5, RowEdit, Zenon DEF MarkPublished, Retry, authVars
    <3>6. /\ [outbox EXCEPT ![s].published = TRUE, ![s].lease = "none", ![s].marks = @ + 1]
             = [outbox EXCEPT ![s] = r]
          /\ [outbox EXCEPT ![s].due = FALSE, ![s].lease = "none"]
             = [outbox EXCEPT ![s] = q]
      BY <3>1, Zenon DEF RowsOK
    <3>7. ASSUME MarkPublished(w) PROVE OutboxStep
      BY <3>7, <3>6, <3>3, <3>4, Zenon DEF MarkPublished
    <3>8. ASSUME Retry(w) PROVE OutboxStep
      BY <3>8, <3>6, <3>3, <3>5, Zenon DEF Retry
    <3> QED
      BY <2>2, <3>7, <3>8
  <2>4. CASE \/ Publish(w) \/ PublishTimesOut(w) \/ PublishUnconnected(w)
             \/ SettleFails(w) \/ WorkerStops(w)
    BY <2>4, <1>0 DEF Publish, PublishTimesOut, PublishUnconnected, SettleFails,
       WorkerStops, authVars
  <2> QED
    BY <1>3, <2>1, <2>2, <2>4 DEF WorkerNext, WorkerWorks
<1>4. ASSUME NEW c \in Consumers, ConsumerNext(c) PROVE OutboxStep
  BY <1>0, <1>4 DEF ConsumerNext, ConsumerWorks, Connect, Fetch, Apply, Acknowledge,
     NegativeAcknowledge, ApplyFails, SettlementLost, ConsumerStops, authVars
<1>5. CASE BrokerNext
  BY <1>0, <1>5 DEF BrokerNext, BrokerAccepts, PublicationLost, WindowCloses, Discard,
     AckWaitExpires, authVars
<1>6. ASSUME NEW o \in Operators, PageStarts(o) \/ PageRow(o) \/ PageFails(o)
      PROVE  OutboxStep
  <2>1. CASE PageStarts(o)
    BY <1>0, <2>1 DEF PageStarts
  <2>2. CASE PageRow(o)
    BY <2>2, ProcessRowSteps DEF PageRow
  <2>3. CASE PageFails(o)
    BY <1>0, <2>3, ProcessRowSteps DEF PageFails
  <2> QED
    BY <1>6, <2>1, <2>2, <2>3
<1> QED
  BY <1>1, <1>2, <1>3, <1>4, <1>5, <1>6 DEF Next

\* An outbox step keeps the rows well formed and never changes the event of a row:
\* what was known stays known.
LEMMA RowsKept ==
    ASSUME IInv, OutboxStep
    PROVE  /\ outbox' \in [Subjects -> Rows \cup {NoRow}]
           /\ \A s \in Subjects : HasRow(s)' =>
                 /\ s \in accounts'
                 /\ outbox'[s].id.subject = s
                 /\ outbox'[s].payload = Marshal(outbox'[s].id)
           /\ \A s \in Subjects : HasRow(s) => outbox'[s] # NoRow /\ outbox'[s].id = outbox[s].id
           /\ \A e \in Events : Known(e) => Known(e)'
<1>1. ASSUME NEW s \in Subjects
      PROVE  /\ outbox'[s] \in Rows \cup {NoRow}
             /\ HasRow(s)' => /\ s \in accounts'
                              /\ outbox'[s].id.subject = s
                              /\ outbox'[s].payload = Marshal(outbox'[s].id)
             /\ HasRow(s) => HasRow(s)' /\ outbox'[s].id = outbox[s].id
  <2>1. CASE outbox'[s] = outbox[s]
    BY <2>1 DEF IInv, RowsOK, HasRow, OutboxStep
  <2>2. CASE \E o \in Operators \cup {"register"} :
                ~HasRow(s) /\ s \in accounts' /\ outbox'[s] = Row(Event(s, o))
    BY <2>2, FreshRow
  <2>3. CASE /\ HasRow(s) /\ outbox'[s] \in Rows
             /\ outbox'[s].id = outbox[s].id /\ outbox'[s].payload = outbox[s].payload
    <3>1. HasRow(s)'
      BY <2>3, RowIsNotNoRow DEF HasRow
    <3> QED
      BY <2>3, <3>1 DEF IInv, RowsOK, OutboxStep
  <2> QED
    BY <2>1, <2>2, <2>3 DEF OutboxStep, RowStep
<1>2. ASSUME NEW e \in Events, Known(e) PROVE Known(e)'
  BY <1>1, <1>2, EventSubject DEF Known
<1> QED
  BY <1>1, <1>2 DEF OutboxStep, HasRow

\* A page of the backfill is replaced by a page of accounts.
LEMMA BackfillSteps ==
    ASSUME IInv, [Next]_vars
    PROVE  \/ backfill' = backfill
           \/ \E o \in Operators, page \in Pages :
                 /\ backfill' = [backfill EXCEPT ![o] = page]
                 /\ \A row \in page.rows : row.subject \in accounts
<1>1. CASE UNCHANGED vars
  BY <1>1 DEF vars
<1>2. ASSUME NEW s \in Subjects,
             \/ CreateRegistration(s) \/ Create(s) \/ UpdateMe(s)
             \/ LeaseExpires(s) \/ RetryDue(s)
      PROVE  backfill' = backfill
  BY <1>2 DEF CreateRegistration, Create, UpdateMe, LeaseExpires, RetryDue, authVars
<1>3. ASSUME NEW w \in Workers, WorkerNext(w) PROVE backfill' = backfill
  BY <1>3, Zenon DEF WorkerNext, WorkerWorks, Claim, Publish, PublishTimesOut, MarkPublished, Retry,
     ClaimFails, PublishUnconnected, SettleFails, WorkerStops, authVars
<1>4. ASSUME NEW c \in Consumers, ConsumerNext(c) PROVE backfill' = backfill
  BY <1>4 DEF ConsumerNext, ConsumerWorks, Connect, Fetch, Apply, Acknowledge,
     NegativeAcknowledge, ApplyFails, SettlementLost, ConsumerStops, authVars
<1>5. CASE BrokerNext
  BY <1>5 DEF BrokerNext, BrokerAccepts, PublicationLost, WindowCloses, Discard,
     AckWaitExpires, authVars
<1>6. ASSUME NEW o \in Operators, PageStarts(o) \/ PageRow(o) \/ PageFails(o)
      PROVE  \E page \in Pages : /\ backfill' = [backfill EXCEPT ![o] = page]
                                 /\ \A row \in page.rows : row.subject \in accounts
  <2>1. CASE PageStarts(o)
    <3>1. PICK after \in Subjects \cup {0}, mode \in Modes :
             backfill' = [backfill EXCEPT ![o] = [rows |-> Scan(after), mode |-> mode]]
      BY <2>1, Zenon DEF PageStarts
    <3>2. ASSUME NEW s \in accounts PROVE Candidate(s) \in Candidates /\ Candidate(s).subject = s
      BY HasRowType DEF Candidate, Candidates, IInv, RowsOK, Rows
    <3>3. \A row \in Scan(after) : row \in Candidates /\ row.subject \in accounts
      BY <3>2, Zenon DEF Scan
    <3>4. [rows |-> Scan(after), mode |-> mode] \in Pages
      BY <3>3 DEF Pages
    <3> QED
      BY <3>1, <3>3, <3>4, Zenon
  <2>2. CASE PageRow(o)
    <3>1. PICK row \in backfill[o].rows :
             LET rest == backfill[o].rows \ {row} IN
             backfill' = [backfill EXCEPT ![o] = IF rest = {} THEN NoPage
                                                 ELSE [@ EXCEPT !.rows = rest]]
      BY <2>2, Zenon DEF PageRow
    <3>2. [backfill[o] EXCEPT !.rows = backfill[o].rows \ {row}] \in Pages /\ NoPage \in Pages
      BY DEF IInv, RowsOK, Pages, NoPage
    <3> QED
      BY <3>1, <3>2, Zenon DEF IInv, RowsOK, NoPage, Pages
  <2>3. CASE PageFails(o)
    <3>1. NoPage \in Pages /\ NoPage.rows = {}
      BY DEF Pages, NoPage
    <3> QED
      BY <2>3, <3>1, Zenon DEF PageFails
  <2> QED
    BY <1>6, <2>1, <2>2, <2>3
<1> QED
  BY <1>1, <1>2, <1>3, <1>4, <1>5, <1>6 DEF Next

\* Every step keeps the first stage.
LEMMA RowsStep ==
    ASSUME IInv, [Next]_vars PROVE RowsOK'
<1>1. OutboxStep
  BY OutboxSteps
<1>2. /\ backfill' \in [Operators -> Pages]
      /\ \A o \in Operators : \A row \in backfill'[o].rows : row.subject \in accounts
  BY BackfillSteps DEF IInv, RowsOK
<1> QED
  BY <1>1, <1>2, RowsKept DEF RowsOK, OutboxStep

----------------------------------------------------------------------------
\* A step adds nothing to the wire but orphans of what was there, and nothing of
\* worker w stays.
WireStep(w) ==
    \A p \in wire' : \/ p \in wire /\ p.from # w
                     \/ p.from = "gone" /\ \E q \in wire : p = [q EXCEPT !.from = "gone"]

\* A worker that changes state while the wire takes a WireStep keeps the second
\* stage.
LEMMA WorkerEdit ==
    ASSUME IInv, OutboxStep, NEW w \in Workers, NEW st \in WorkerStates,
           worker' = [worker EXCEPT ![w] = st], WireStep(w),
           st.phase # "idle" => st.row \in Subjects /\ outbox'[st.row] # NoRow
    PROVE  WorkersOK'
<1>1. worker' \in [Workers -> WorkerStates]
  BY DEF IInv, WorkersOK
<1>2. \A v \in Workers : worker'[v].phase # "idle" =>
         worker'[v].row \in Subjects /\ outbox'[worker'[v].row] # NoRow
  BY RowsKept DEF IInv, WorkersOK
<1>3. ASSUME NEW p \in wire'
      PROVE  /\ p \in Publications
             /\ Known(p.id)'
             /\ p.payload = Marshal(p.id)
             /\ p.from \in Workers => /\ worker'[p.from].phase = "sent"
                                      /\ worker'[p.from].row = p.id.subject
  <2>1. CASE p \in wire /\ p.from # w
    BY <2>1, RowsKept DEF IInv, WorkersOK, Publications
  <2>2. CASE p.from = "gone" /\ \E q \in wire : p = [q EXCEPT !.from = "gone"]
    <3>1. PICK q \in wire : p = [q EXCEPT !.from = "gone"]
      BY <2>2
    <3>2. q \in Publications /\ Known(q.id) /\ q.payload = Marshal(q.id)
      BY DEF IInv, WorkersOK
    <3>3. p \in Publications /\ p.id = q.id /\ p.payload = q.payload
      BY <3>1, <3>2 DEF Publications
    <3> QED
      BY <2>2, <3>2, <3>3, RowsKept, RegistrationAssumption DEF Publications
  <2> QED
    BY <2>1, <2>2 DEF WireStep
<1> QED
  BY <1>1, <1>2, <1>3 DEF WorkersOK, HasRow

\* What a worker leaves on the wire when it gives up becomes an orphan.
LEMMA OrphanSteps ==
    ASSUME IInv, NEW w \in Workers, wire' = Orphan(w) PROVE WireStep(w)
<1> SUFFICES ASSUME NEW p \in wire'
             PROVE  \/ p \in wire /\ p.from # w
                    \/ p.from = "gone" /\ \E q \in wire : p = [q EXCEPT !.from = "gone"]
  BY DEF WireStep
<1>1. PICK q \in wire : p = IF q.from = w THEN [q EXCEPT !.from = "gone"] ELSE q
  BY DEF Orphan
<1>2. q \in Publications
  BY DEF IInv, WorkersOK
<1> QED
  BY <1>1, <1>2 DEF Publications

\* Every step keeps the second stage.
LEMMA WorkersStep ==
    ASSUME IInv, [Next]_vars PROVE WorkersOK'
<1>0. OutboxStep
  BY OutboxSteps
<1>1. ASSUME UNCHANGED worker, wire' \subseteq wire PROVE WorkersOK'
  BY <1>0, <1>1, RowsKept DEF IInv, WorkersOK, Publications, HasRow
<1>2. CASE UNCHANGED vars
  BY <1>1, <1>2 DEF vars
<1>3. ASSUME NEW s \in Subjects,
             \/ CreateRegistration(s) \/ Create(s) \/ UpdateMe(s)
             \/ LeaseExpires(s) \/ RetryDue(s)
      PROVE  WorkersOK'
  BY <1>1, <1>3 DEF CreateRegistration, Create, UpdateMe, LeaseExpires, RetryDue, brokerVars
<1>4. ASSUME NEW w \in Workers, WorkerNext(w) PROVE WorkersOK'
  <2> DEFINE At(phase) == [worker[w] EXCEPT !.phase = phase]
  <2>1. ASSUME NEW phase \in {"claimed", "sent", "published", "failed"},
               worker[w].phase # "idle"
        PROVE  /\ At(phase) \in WorkerStates /\ At(phase).row = worker[w].row
               /\ worker[w].row \in Subjects /\ outbox'[worker[w].row] # NoRow
    BY <1>0, <2>1, RowsKept DEF IInv, WorkersOK, WorkerStates
  <2>2. Idle \in WorkerStates /\ Idle.phase = "idle"
    BY DEF Idle, WorkerStates
  <2>3. ASSUME worker[w].phase # "sent", wire' = wire PROVE WireStep(w)
    BY <2>3 DEF WireStep, IInv, WorkersOK
  <2>4. CASE Claim(w)
    <3>1. PICK s \in Subjects : /\ Claimable(s)
                                /\ worker' = [worker EXCEPT ![w] = [phase |-> "claimed", row |-> s]]
      BY <2>4, Zenon DEF Claim
    <3>2. outbox'[s] # NoRow
      BY <1>0, <3>1, RowsKept DEF Claimable
    <3>3. [phase |-> "claimed", row |-> s] \in WorkerStates
      BY DEF WorkerStates
    <3>4. WireStep(w)
      BY <2>3, <2>4 DEF Claim, brokerVars
    <3> QED
      BY <1>0, <3>1, <3>2, <3>3, <3>4, WorkerEdit, Zenon
  <2>5. CASE ClaimFails(w)
    BY <1>1, <2>5 DEF ClaimFails, brokerVars
  <2>6. CASE Publish(w)
    <3> DEFINE row == outbox[worker[w].row]
               q == [from |-> w, id |-> row.id, payload |-> row.payload]
    <3>1. worker[w].row \in Subjects /\ HasRow(worker[w].row) /\ row \in Rows
          /\ row.id.subject = worker[w].row /\ row.payload = Marshal(row.id)
      BY <2>6, HasRowType DEF Publish, IInv, WorkersOK, RowsOK
    <3>2. q \in Publications /\ Known(q.id) /\ q.payload = Marshal(q.id)
          /\ q.id.subject = worker[w].row
      BY <3>1, Zenon DEF Publications, Rows, Known
    <3>3. worker' = [worker EXCEPT ![w] = At("sent")] /\ wire' = wire \cup {q}
      BY <2>6 DEF Publish
    <3>4. worker[w].phase = "claimed"
      BY <2>6 DEF Publish
    <3>5. worker' \in [Workers -> WorkerStates] /\ worker'[w] = At("sent")
          /\ At("sent").phase = "sent"
      BY <3>3, <3>4, <2>1 DEF IInv, WorkersOK, WorkerStates
    <3>6. \A v \in Workers : worker'[v].phase # "idle" =>
             worker'[v].row \in Subjects /\ outbox'[worker'[v].row] # NoRow
      BY <1>0, <2>1, <3>3, <3>4, <3>5, RowsKept DEF IInv, WorkersOK
    <3>7. ASSUME NEW p \in wire
          PROVE  /\ p \in Publications
                 /\ Known(p.id)'
                 /\ p.payload = Marshal(p.id)
                 /\ p.from \in Workers => /\ worker'[p.from].phase = "sent"
                                          /\ worker'[p.from].row = p.id.subject
      <4>1. p \in Publications /\ Known(p.id) /\ p.payload = Marshal(p.id) /\ p.from # w
            /\ (p.from \in Workers => /\ worker[p.from].phase = "sent"
                                      /\ worker[p.from].row = p.id.subject)
        BY <3>4 DEF IInv, WorkersOK
      <4> QED
        BY <1>0, <3>3, <4>1, RowsKept DEF Publications, IInv, WorkersOK
    <3>8. /\ outbox'[q.id.subject] # NoRow /\ outbox'[q.id.subject].id = q.id
          /\ worker'[w].row = q.id.subject
      BY <1>0, <2>1, <3>1, <3>2, <3>4, <3>5, RowsKept, Zenon DEF Known
    <3>9. ASSUME NEW p \in wire'
          PROVE  /\ p \in Publications
                 /\ Known(p.id)'
                 /\ p.payload = Marshal(p.id)
                 /\ p.from \in Workers => /\ worker'[p.from].phase = "sent"
                                          /\ worker'[p.from].row = p.id.subject
      <4>1. CASE p \in wire
        BY <3>7, <4>1
      <4>2. CASE p = q
        BY <3>2, <3>5, <3>8, <4>2, Zenon DEF Known, HasRow
      <4> QED
        BY <3>3, <4>1, <4>2
    <3> QED
      BY <3>5, <3>6, <3>9 DEF WorkersOK, HasRow
  <2>7. CASE PublishTimesOut(w)
    <3>1. worker[w].phase = "sent" /\ worker' = [worker EXCEPT ![w] = At("failed")]
          /\ wire' = Orphan(w)
      BY <2>7 DEF PublishTimesOut
    <3> QED
      BY <1>0, <2>1, <3>1, OrphanSteps, WorkerEdit, Zenon
  <2>8. CASE PublishUnconnected(w)
    <3>1. worker[w].phase = "claimed" /\ worker' = [worker EXCEPT ![w] = At("failed")]
          /\ wire' = wire
      BY <2>8 DEF PublishUnconnected, brokerVars
    <3> QED
      BY <1>0, <2>1, <2>3, <3>1, WorkerEdit, Zenon
  <2>9. CASE MarkPublished(w) \/ Retry(w) \/ SettleFails(w)
    <3>1. worker[w].phase # "sent" /\ worker' = [worker EXCEPT ![w] = Idle] /\ wire' = wire
      BY <2>9 DEF MarkPublished, Retry, SettleFails, brokerVars
    <3> QED
      BY <1>0, <2>2, <2>3, <3>1, WorkerEdit, Zenon
  <2>10. CASE WorkerStops(w)
    <3>1. worker' = [worker EXCEPT ![w] = Idle] /\ wire' = Orphan(w)
      BY <2>10 DEF WorkerStops
    <3> QED
      BY <1>0, <2>2, <3>1, OrphanSteps, WorkerEdit, Zenon
  <2> QED
    BY <1>4, <2>4, <2>5, <2>6, <2>7, <2>8, <2>9, <2>10 DEF WorkerNext, WorkerWorks
<1>5. ASSUME NEW c \in Consumers, ConsumerNext(c) PROVE WorkersOK'
  BY <1>1, <1>5 DEF ConsumerNext, ConsumerWorks, Connect, Fetch, Apply, Acknowledge,
     NegativeAcknowledge, ApplyFails, SettlementLost, ConsumerStops, brokerVars
<1>6. ASSUME NEW p \in wire, BrokerAccepts(p) PROVE WorkersOK'
  <2>1. CASE p.from \in Workers /\ UNCHANGED worker
    BY <1>1, <1>6, <2>1 DEF BrokerAccepts
  <2>2. CASE worker' = [w \in Workers |-> IF w = p.from
                                          THEN [worker[w] EXCEPT !.phase = "published"]
                                          ELSE worker[w]]
    <3>1. wire' = wire \ {p}
      BY <1>6 DEF BrokerAccepts
    <3>2. CASE p.from \notin Workers
      <4>1. worker' = worker
        BY <2>2, <3>2 DEF IInv, WorkersOK
      <4> QED
        BY <1>1, <3>1, <4>1
    <3>3. CASE p.from \in Workers
      <4> DEFINE w == p.from
                 st == [worker[w] EXCEPT !.phase = "published"]
      <4>1. worker[w].phase = "sent" /\ worker[w].row = p.id.subject /\ p.payload = Marshal(p.id)
            /\ p \in Publications /\ Known(p.id)
        BY <3>3 DEF IInv, WorkersOK
      <4>2. st \in WorkerStates /\ st.row = worker[w].row
        BY <3>3 DEF IInv, WorkersOK, WorkerStates
      <4>3. worker' = [worker EXCEPT ![w] = st]
        BY <2>2, <3>3, Zenon DEF IInv, WorkersOK
      <4>4. ASSUME NEW q \in wire, q.from = w PROVE q = p
        <5>1. q \in Publications /\ Known(q.id) /\ q.payload = Marshal(q.id)
              /\ q.id.subject = worker[w].row
          BY <3>3, <4>4 DEF IInv, WorkersOK
        <5>2. q.id = p.id
          BY <4>1, <5>1 DEF Known
        <5> QED
          BY <4>1, <4>4, <5>1, <5>2 DEF Publications
      <4>5. WireStep(w)
        BY <3>1, <4>4 DEF WireStep
      <4>6. worker[w].row \in Subjects /\ outbox'[worker[w].row] # NoRow
        BY <1>0, <3>3, <4>1, RowsKept DEF IInv, WorkersOK
      <4> QED
        BY <1>0, <3>3, <4>2, <4>3, <4>5, <4>6, WorkerEdit, Zenon
    <3> QED
      BY <3>2, <3>3
  <2> QED
    BY <1>6, <2>1, <2>2 DEF BrokerAccepts
<1>7. CASE BrokerNext
  <2>1. ASSUME NEW p \in wire, PublicationLost(p) PROVE WorkersOK'
    BY <1>1, <2>1 DEF PublicationLost
  <2>2. ASSUME NEW id \in window, WindowCloses(id) PROVE WorkersOK'
    BY <1>1, <2>2 DEF WindowCloses
  <2>3. ASSUME NEW m \in stream, Discard(m) \/ AckWaitExpires(m) PROVE WorkersOK'
    BY <1>1, <2>3 DEF Discard, AckWaitExpires
  <2> QED
    BY <1>6, <1>7, <2>1, <2>2, <2>3 DEF BrokerNext
<1>8. ASSUME NEW o \in Operators, PageStarts(o) \/ PageRow(o) \/ PageFails(o)
      PROVE  WorkersOK'
  BY <1>1, <1>8 DEF PageStarts, PageRow, PageFails, brokerVars
<1> QED
  BY <1>2, <1>3, <1>4, <1>5, <1>7, <1>8 DEF Next

----------------------------------------------------------------------------
\* A consumer in work holds a known fact, and the inbox cannot hold a different
\* payload under its event: the Conflict branch of Accept is never taken for
\* payloads that Auth marshalled.
LEMMA WorkingConsumer ==
    ASSUME UserOK, NEW c \in Consumers, Working(c)
    PROVE  LET id == consumer[c].id IN
           /\ id \in Events /\ id.subject \in Subjects /\ Known(id)
           /\ consumer[c].payload = Marshal(id)
           /\ consumer[c].payload.event = id
           /\ consumer[c].payload.subject = id.subject
           /\ ~Conflict(consumer[c].payload)
<1> DEFINE id == consumer[c].id
<1>1. id \in Events /\ Known(id) /\ consumer[c].payload = Marshal(id)
  BY DEF UserOK
<1>2. id.subject \in Subjects /\ Marshal(id).event = id /\ Marshal(id).subject = id.subject
  BY <1>1, EventSubject, MarshalType
<1>3. ~Conflict(Marshal(id))
  BY <1>2 DEF Conflict, UserOK
<1> QED
  BY <1>1, <1>2, <1>3

\* All that may happen in User: profiles grow, the inbox gains known facts, and the
\* two stay in step.
UserStep ==
    /\ profiles' \in [Subjects -> Nat]
    /\ \A s \in Subjects : profiles'[s] >= profiles[s]
    /\ discarded \subseteq discarded'
    /\ DOMAIN inbox \subseteq DOMAIN inbox'
    /\ \A e \in DOMAIN inbox' :
          \/ e \in DOMAIN inbox /\ inbox'[e] = inbox[e]
          \/ e \in Events /\ Known(e) /\ inbox'[e] = Marshal(e)
    /\ \A s \in Subjects : profiles'[s] > 0 <=> \E e \in DOMAIN inbox' : e.subject = s

\* The transaction of Accept is such a step, and the profile exists after it.
LEMMA AcceptSteps ==
    ASSUME UserOK, discarded' = discarded, NEW e \in Events, Known(e), Accept(Marshal(e))
    PROVE  UserStep /\ profiles'[e.subject] > 0
<1>1. e.subject \in Subjects /\ Marshal(e).event = e /\ Marshal(e).subject = e.subject
  BY EventSubject, MarshalType
<1>2. /\ inbox' = IF e \in DOMAIN inbox THEN inbox
                  ELSE [d \in DOMAIN inbox \cup {e} |-> IF d = e THEN Marshal(e) ELSE inbox[d]]
      /\ profiles' = IF profiles[e.subject] = 0 THEN [profiles EXCEPT ![e.subject] = 1]
                     ELSE profiles
  BY <1>1 DEF Accept
<1>3. DOMAIN inbox' = DOMAIN inbox \cup {e}
  BY <1>2
<1>4. \A d \in DOMAIN inbox' : \/ d \in DOMAIN inbox /\ inbox'[d] = inbox[d]
                               \/ d \in Events /\ Known(d) /\ inbox'[d] = Marshal(d)
  BY <1>2
<1>5. profiles' \in [Subjects -> Nat] /\ profiles'[e.subject] > 0
      /\ \A s \in Subjects : profiles'[s] >= profiles[s] /\ (s # e.subject => profiles'[s] = profiles[s])
  BY <1>1, <1>2 DEF UserOK
<1>6. \A s \in Subjects : profiles'[s] > 0 <=> \E d \in DOMAIN inbox' : d.subject = s
  BY <1>1, <1>3, <1>5 DEF UserOK
<1> QED
  BY <1>3, <1>4, <1>5, <1>6 DEF UserStep

\* Every step of the system is such a step.
LEMMA UserSteps ==
    ASSUME IInv, [Next]_vars PROVE UserStep
<1>0. ASSUME UNCHANGED <<inbox, profiles>>, discarded \subseteq discarded' PROVE UserStep
  BY <1>0 DEF IInv, UserOK, UserStep
<1>1. CASE UNCHANGED vars
  BY <1>0, <1>1 DEF vars
<1>2. ASSUME NEW s \in Subjects,
             \/ CreateRegistration(s) \/ Create(s) \/ LeaseExpires(s) \/ RetryDue(s)
      PROVE  UserStep
  BY <1>0, <1>2 DEF CreateRegistration, Create, LeaseExpires, RetryDue, brokerVars, userVars
<1>3. ASSUME NEW s \in Subjects, UpdateMe(s) PROVE UserStep
  <2>1. profiles[s] > 0 /\ profiles' = [profiles EXCEPT ![s] = @ + 1] /\ UNCHANGED <<inbox, discarded>>
    BY <1>3, RegistrationAssumption DEF UpdateMe, brokerVars
  <2>2. profiles' \in [Subjects -> Nat] /\ profiles'[s] > 0
        /\ \A t \in Subjects : profiles'[t] >= profiles[t] /\ (t # s => profiles'[t] = profiles[t])
    BY <2>1 DEF IInv, UserOK
  <2> QED
    BY <2>1, <2>2 DEF IInv, UserOK, UserStep
<1>4. ASSUME NEW w \in Workers, WorkerNext(w) PROVE UserStep
  BY <1>0, <1>4, Zenon DEF WorkerNext, WorkerWorks, Claim, Publish, PublishTimesOut, MarkPublished,
     Retry, ClaimFails, PublishUnconnected, SettleFails, WorkerStops, brokerVars, userVars
<1>5. ASSUME NEW c \in Consumers, ConsumerNext(c) PROVE UserStep
  <2>1. CASE Apply(c) \/ ApplyFails(c)
    <3>1. consumer[c].id \in Events /\ Known(consumer[c].id)
          /\ consumer[c].payload = Marshal(consumer[c].id)
      BY <2>1, WorkingConsumer DEF IInv, Apply, ApplyFails, Working
    <3>2. UNCHANGED <<inbox, profiles>> \/ Accept(consumer[c].payload)
      BY <2>1 DEF Apply, ApplyFails
    <3>3. discarded' = discarded
      BY <2>1 DEF Apply, ApplyFails, brokerVars
    <3> QED
      BY <1>0, <3>1, <3>2, <3>3, AcceptSteps DEF IInv
  <2>2. CASE \/ Connect(c) \/ Fetch(c) \/ Acknowledge(c) \/ NegativeAcknowledge(c)
             \/ SettlementLost(c) \/ ConsumerStops(c)
    BY <1>0, <2>2 DEF Connect, Fetch, Acknowledge, NegativeAcknowledge, SettlementLost,
       ConsumerStops, brokerVars
  <2> QED
    BY <1>5, <2>1, <2>2 DEF ConsumerNext, ConsumerWorks
<1>6. CASE BrokerNext
  BY <1>0, <1>6 DEF BrokerNext, BrokerAccepts, PublicationLost, WindowCloses, Discard,
     AckWaitExpires, userVars
<1>7. ASSUME NEW o \in Operators, PageStarts(o) \/ PageRow(o) \/ PageFails(o)
      PROVE  UserStep
  BY <1>0, <1>7 DEF PageStarts, PageRow, PageFails, brokerVars, userVars
<1> QED
  BY <1>1, <1>2, <1>3, <1>4, <1>5, <1>6, <1>7 DEF Next

\* The consumer state holds a known fact.
Handles(st) ==
    /\ DOMAIN st = {"phase", "id", "n", "payload"}
    /\ st.id \in Events /\ Known(st.id)
    /\ st.payload = Marshal(st.id)

\* Consumer c changes to st, which is sound: what it handles is a known fact, and
\* what it applied has a profile.
Becomes(c, st) ==
    /\ consumer' = [consumer EXCEPT ![c] = st]
    /\ st.phase \in {"handling", "applied", "rejected"} => Handles(st)
    /\ st.phase = "applied" => profiles'[st.id.subject] > 0

\* Some consumer changes soundly.
ConsumerEdit == \E c \in Consumers : \E st : Becomes(c, st)

\* Every step leaves the consumers alone or changes one soundly.
LEMMA ConsumerSteps ==
    ASSUME IInv, [Next]_vars PROVE consumer' = consumer \/ ConsumerEdit
<1>1. CASE UNCHANGED vars
  BY <1>1 DEF vars
<1>2. ASSUME NEW s \in Subjects,
             \/ CreateRegistration(s) \/ Create(s) \/ LeaseExpires(s) \/ RetryDue(s) \/ UpdateMe(s)
      PROVE  consumer' = consumer
  BY <1>2 DEF CreateRegistration, Create, LeaseExpires, RetryDue, UpdateMe, userVars
<1>3. ASSUME NEW w \in Workers, WorkerNext(w) PROVE consumer' = consumer
  BY <1>3, Zenon DEF WorkerNext, WorkerWorks, Claim, Publish, PublishTimesOut, MarkPublished,
     Retry, ClaimFails, PublishUnconnected, SettleFails, WorkerStops, userVars
<1>4. ASSUME NEW c \in Consumers, ConsumerNext(c) PROVE ConsumerEdit
  <2>1. ASSUME NEW phase \in {"disconnected", "ready"},
               consumer' = [consumer EXCEPT ![c] = [phase |-> phase]]
        PROVE  ConsumerEdit
    <3>1. Becomes(c, [phase |-> phase])
      BY <2>1 DEF Becomes
    <3> QED
      BY <3>1 DEF ConsumerEdit
  <2>2. CASE \/ Connect(c) \/ Acknowledge(c) \/ NegativeAcknowledge(c)
             \/ SettlementLost(c) \/ ConsumerStops(c)
    BY <2>1, <2>2 DEF Connect, Acknowledge, NegativeAcknowledge, SettlementLost, ConsumerStops
  <2>3. CASE Fetch(c)
    <3>1. PICK m \in stream :
             consumer' = [consumer EXCEPT ![c] = [phase |-> "handling", id |-> m.id,
                                                  n |-> m.n, payload |-> m.payload]]
      BY <2>3, Zenon DEF Fetch
    <3>2. m.id \in Events /\ Known(m.id) /\ m.payload = Marshal(m.id)
      BY DEF IInv, StreamOK, Message
    <3>3. Handles([phase |-> "handling", id |-> m.id, n |-> m.n, payload |-> m.payload])
      BY <3>2 DEF Handles
    <3>4. Becomes(c, [phase |-> "handling", id |-> m.id, n |-> m.n, payload |-> m.payload])
      BY <3>1, <3>3 DEF Becomes
    <3> QED
      BY <3>4 DEF ConsumerEdit
  <2>4. CASE Apply(c) \/ ApplyFails(c)
    <3> DEFINE st(phase) == [consumer[c] EXCEPT !.phase = phase]
    <3>1. consumer[c].phase = "handling" /\ Working(c)
      BY <2>4 DEF Apply, ApplyFails, Working
    <3>2. DOMAIN consumer[c] = {"phase", "id", "n", "payload"}
      BY <3>1 DEF IInv, UserOK
    <3>3. consumer[c].id \in Events /\ Known(consumer[c].id)
          /\ consumer[c].payload = Marshal(consumer[c].id) /\ ~Conflict(consumer[c].payload)
      BY <3>1, WorkingConsumer DEF IInv
    <3>4. ASSUME NEW phase \in {"applied", "rejected"}
          PROVE  Handles(st(phase)) /\ st(phase).phase = phase /\ st(phase).id = consumer[c].id
      BY <3>2, <3>3 DEF Handles
    <3>5. CASE Apply(c)
      <4>1. consumer' = [consumer EXCEPT ![c] = st("applied")] /\ Accept(consumer[c].payload)
        BY <3>3, <3>5 DEF Apply
      <4>2. profiles'[consumer[c].id.subject] > 0
        BY <3>3, <3>5, <4>1, AcceptSteps DEF IInv, Apply, brokerVars
      <4> QED
        BY <3>4, <4>1, <4>2, Zenon DEF ConsumerEdit, Becomes
    <3>6. CASE ApplyFails(c)
      <4>1. consumer' = [consumer EXCEPT ![c] = st("rejected")]
        BY <3>6 DEF ApplyFails
      <4> QED
        BY <3>4, <4>1, Zenon DEF ConsumerEdit, Becomes
    <3> QED
      BY <2>4, <3>5, <3>6
  <2> QED
    BY <1>4, <2>2, <2>3, <2>4 DEF ConsumerNext, ConsumerWorks
<1>5. CASE BrokerNext
  BY <1>5 DEF BrokerNext, BrokerAccepts, PublicationLost, WindowCloses, Discard,
     AckWaitExpires, userVars
<1>6. ASSUME NEW o \in Operators, PageStarts(o) \/ PageRow(o) \/ PageFails(o)
      PROVE  consumer' = consumer
  BY <1>6 DEF PageStarts, PageRow, PageFails, userVars
<1> QED
  BY <1>1, <1>2, <1>3, <1>4, <1>5, <1>6 DEF Next

\* Every step keeps the last stage.
LEMMA UserOKStep ==
    ASSUME IInv, [Next]_vars PROVE UserOK'
<1>0. OutboxStep /\ UserStep
  BY OutboxSteps, UserSteps
<1>1. \A e \in Events : Known(e) => Known(e)'
  BY <1>0, RowsKept
<1>2. DOMAIN consumer' = Consumers
  BY ConsumerSteps DEF ConsumerEdit, Becomes, IInv, UserOK
<1>3. ASSUME NEW c \in Consumers, Working(c)'
      PROVE  /\ DOMAIN consumer'[c] = {"phase", "id", "n", "payload"}
             /\ consumer'[c].id \in Events
             /\ Known(consumer[c].id)'
             /\ consumer'[c].payload = Marshal(consumer'[c].id)
             /\ consumer'[c].phase = "applied" => profiles'[consumer'[c].id.subject] > 0
  <2>1. CASE consumer'[c] = consumer[c]
    <3>1. /\ DOMAIN consumer[c] = {"phase", "id", "n", "payload"}
          /\ consumer[c].id \in Events /\ consumer[c].id.subject \in Subjects
          /\ Known(consumer[c].id)
          /\ consumer[c].payload = Marshal(consumer[c].id)
          /\ consumer[c].phase = "applied" => profiles[consumer[c].id.subject] > 0
      BY <1>3, <2>1, EventSubject DEF IInv, UserOK, Working
    <3>2. profiles[consumer[c].id.subject] > 0 => profiles'[consumer[c].id.subject] > 0
      BY <1>0, <3>1 DEF UserStep, IInv, UserOK
    <3>3. outbox'[consumer[c].id.subject] # NoRow
          /\ outbox'[consumer[c].id.subject].id = consumer[c].id
      BY <1>1, <3>1 DEF Known, HasRow
    <3> QED
      BY <2>1, <3>1, <3>2, <3>3, Zenon DEF Known, HasRow
  <2>2. CASE \E st : /\ consumer'[c] = st
                     /\ st.phase \in {"handling", "applied", "rejected"} => Handles(st)
                     /\ st.phase = "applied" => profiles'[st.id.subject] > 0
    <3>1. PICK st : /\ consumer'[c] = st
                    /\ st.phase \in {"handling", "applied", "rejected"} => Handles(st)
                    /\ st.phase = "applied" => profiles'[st.id.subject] > 0
      BY <2>2
    <3>2. Handles(st)
      BY <1>3, <3>1 DEF Working
    <3>3. outbox'[st.id.subject] # NoRow /\ outbox'[st.id.subject].id = st.id
      BY <1>1, <3>2 DEF Handles, Known, HasRow
    <3> QED
      BY <3>1, <3>2, <3>3 DEF Handles, Known, HasRow
  <2> QED
    BY <2>1, <2>2, ConsumerSteps, Zenon DEF ConsumerEdit, Becomes, IInv, UserOK
<1>4. \A e \in DOMAIN inbox' : e \in Events /\ Known(e)' /\ inbox'[e] = Marshal(e)
  BY <1>0, <1>1 DEF UserStep, IInv, UserOK
<1> QED
  BY <1>0, <1>2, <1>3, <1>4 DEF UserOK, UserStep

----------------------------------------------------------------------------
\* A message may become pending or delivered at any time, acknowledged only with
\* its profile written, and gone only with its account discarded.
Moves(k, state) ==
    \/ state \in {"pending", "delivered"}
    \/ state = "acked" /\ profiles[k.id.subject] > 0
    \/ state = "gone" /\ k.id.subject \in discarded'

\* The message that a publication becomes.
Arrives(m, p) ==
    /\ DOMAIN m = {"id", "n", "payload", "state"}
    /\ m.id = p.id /\ m.payload = p.payload /\ m.state = "pending"

\* All that may happen to the stream: messages change state soundly, publications
\* arrive, and no event disappears from it.
StreamStep ==
    /\ \A m \in stream' :
          \/ m \in stream
          \/ \E k \in stream : \E state : m = [k EXCEPT !.state = state] /\ Moves(k, state)
          \/ \E p \in wire : Arrives(m, p)
    /\ \A k \in stream : \E m \in stream' : m.id = k.id

\* A change of state keeps the fact of a message.
LEMMA StateEdit ==
    ASSUME NEW m, Message(m), NEW state
    PROVE  LET k == [m EXCEPT !.state = state] IN
           Message(k) /\ k.id = m.id /\ k.state = state
  BY DEF Message

\* Moving one message is a stream step.
LEMMA OneMoves ==
    ASSUME IInv, NEW k \in stream, NEW state, Moves(k, state),
           stream' = (stream \ {k}) \cup {[k EXCEPT !.state = state]}
    PROVE  StreamStep
<1>1. [k EXCEPT !.state = state].id = k.id
  BY StateEdit DEF IInv, StreamOK
<1>2. \A m \in stream' : m \in stream \/ m = [k EXCEPT !.state = state]
  OBVIOUS
<1>3. \A j \in stream : \E m \in stream' : m.id = j.id
  BY <1>1, Zenon
<1> QED
  BY <1>2, <1>3 DEF StreamStep

\* An acknowledgement, a NAK or a termination that the consumer sends is a stream
\* step.
LEMMA SettledSteps ==
    ASSUME IInv, NEW c \in Consumers, NEW state, stream' = Settled(c, state),
           \A k \in stream : k.id = consumer[c].id => Moves(k, state)
    PROVE  StreamStep
<1> DEFINE Picks(k) == k.id = consumer[c].id /\ k.n = consumer[c].n
                       /\ k.state \notin {"acked", "gone"}
<1>1. \A m \in stream' : \E k \in stream : m = IF Picks(k) THEN [k EXCEPT !.state = state] ELSE k
  BY DEF Settled
<1>2. \A k \in stream : (IF Picks(k) THEN [k EXCEPT !.state = state] ELSE k) \in stream'
  BY Zenon DEF Settled
<1>3. \A k \in stream : [k EXCEPT !.state = state].id = k.id
  BY StateEdit DEF IInv, StreamOK
<1>4. ASSUME NEW m \in stream'
      PROVE  \/ m \in stream
             \/ \E k \in stream : \E st : m = [k EXCEPT !.state = st] /\ Moves(k, st)
  BY <1>1
<1>5. \A k \in stream : \E m \in stream' : m.id = k.id
  BY <1>2, <1>3, Zenon
<1> QED
  BY <1>4, <1>5 DEF StreamStep

\* Every step of the system is a stream step.
LEMMA StreamSteps ==
    ASSUME IInv, [Next]_vars PROVE StreamStep
<1>0. ASSUME stream' = stream PROVE StreamStep
  BY <1>0 DEF StreamStep
<1>1. CASE UNCHANGED vars
  BY <1>0, <1>1 DEF vars
<1>2. ASSUME NEW s \in Subjects,
             \/ CreateRegistration(s) \/ Create(s) \/ LeaseExpires(s) \/ RetryDue(s) \/ UpdateMe(s)
      PROVE  StreamStep
  BY <1>0, <1>2 DEF CreateRegistration, Create, LeaseExpires, RetryDue, UpdateMe, brokerVars
<1>3. ASSUME NEW w \in Workers, WorkerNext(w) PROVE StreamStep
  BY <1>0, <1>3, Zenon DEF WorkerNext, WorkerWorks, Claim, Publish, PublishTimesOut, MarkPublished,
     Retry, ClaimFails, PublishUnconnected, SettleFails, WorkerStops, brokerVars
<1>4. ASSUME NEW c \in Consumers, ConsumerNext(c) PROVE StreamStep
  <2>1. CASE Fetch(c)
    <3>1. PICK m \in stream : stream' = (stream \ {m}) \cup {[m EXCEPT !.state = "delivered"]}
      BY <2>1 DEF Fetch
    <3> QED
      BY <3>1, OneMoves DEF Moves
  <2>2. CASE Acknowledge(c)
    <3>1. profiles[consumer[c].id.subject] > 0
      BY <2>2 DEF Acknowledge, IInv, UserOK, Working
    <3>2. \A k \in stream : k.id = consumer[c].id => Moves(k, "acked")
      BY <3>1 DEF Moves
    <3> QED
      BY <2>2, <3>2, SettledSteps DEF Acknowledge
  <2>3. CASE NegativeAcknowledge(c)
    <3>1. \A k \in stream : Moves(k, "pending")
      BY DEF Moves
    <3> QED
      BY <2>3, <3>1, SettledSteps DEF NegativeAcknowledge
  <2>4. CASE \/ Connect(c) \/ Apply(c) \/ ApplyFails(c) \/ SettlementLost(c) \/ ConsumerStops(c)
    BY <1>0, <2>4 DEF Connect, Apply, ApplyFails, SettlementLost, ConsumerStops, brokerVars
  <2> QED
    BY <1>4, <2>1, <2>2, <2>3, <2>4 DEF ConsumerNext, ConsumerWorks
<1>5. CASE BrokerNext
  <2>1. ASSUME NEW p \in wire, BrokerAccepts(p) PROVE StreamStep
    <3> DEFINE m == [id |-> p.id, n |-> Cardinality(Copies(p.id)) + 1,
                     payload |-> p.payload, state |-> "pending"]
    <3>1. stream' = stream \/ stream' = stream \cup {m}
      BY <2>1 DEF BrokerAccepts
    <3>2. Arrives(m, p)
      BY DEF Arrives
    <3> QED
      BY <1>0, <3>1, <3>2 DEF StreamStep
  <2>2. ASSUME NEW p \in wire, PublicationLost(p) PROVE StreamStep
    BY <1>0, <2>2 DEF PublicationLost
  <2>3. ASSUME NEW id \in window, WindowCloses(id) PROVE StreamStep
    BY <1>0, <2>3 DEF WindowCloses
  <2>4. ASSUME NEW m \in stream, Discard(m) PROVE StreamStep
    BY <2>4, OneMoves DEF Discard, Moves
  <2>5. ASSUME NEW m \in stream, AckWaitExpires(m) PROVE StreamStep
    BY <2>5, OneMoves DEF AckWaitExpires, Redeliver, Moves
  <2> QED
    BY <1>5, <2>1, <2>2, <2>3, <2>4, <2>5 DEF BrokerNext
<1>6. ASSUME NEW o \in Operators, PageStarts(o) \/ PageRow(o) \/ PageFails(o)
      PROVE  StreamStep
  BY <1>0, <1>6 DEF PageStarts, PageRow, PageFails, brokerVars
<1> QED
  BY <1>1, <1>2, <1>3, <1>4, <1>5, <1>6 DEF Next

\* Every step keeps the messages sound, and so the acknowledgements.
LEMMA MessagesStep ==
    ASSUME IInv, [Next]_vars
    PROVE  /\ \A m \in stream' : Message(m) /\ Known(m.id)'
           /\ DeliveryOK'
<1>0. OutboxStep /\ UserStep /\ StreamStep
  BY OutboxSteps, UserSteps, StreamSteps
<1>1. \A e \in Events : Known(e) => Known(e)'
  BY <1>0, RowsKept
<1>2. ASSUME NEW e \in Events, profiles[e.subject] > 0 PROVE profiles'[e.subject] > 0
  BY <1>0, <1>2, EventSubject DEF UserStep, IInv, UserOK
<1>3. ASSUME NEW m \in stream'
      PROVE  /\ Message(m) /\ Known(m.id)'
             /\ m.state \in {"pending", "delivered", "acked", "gone"}
             /\ m.state = "acked" => profiles'[m.id.subject] > 0
             /\ m.state = "gone" => m.id.subject \in discarded'
  <2>1. CASE m \in stream
    BY <1>0, <1>1, <1>2, <2>1, Zenon DEF IInv, StreamOK, DeliveryOK, Message, UserStep
  <2>2. CASE \E k \in stream : \E state : m = [k EXCEPT !.state = state] /\ Moves(k, state)
    <3>0. PICK k \in stream : \E state : m = [k EXCEPT !.state = state] /\ Moves(k, state)
      BY <2>2
    <3>1. PICK state : m = [k EXCEPT !.state = state] /\ Moves(k, state)
      BY <3>0
    <3>2. Message(k) /\ Known(k.id) /\ k.id \in Events
      BY DEF IInv, StreamOK, Message
    <3>3. Message(m) /\ m.id = k.id /\ m.state = state
      BY <3>1, <3>2, StateEdit
    <3> QED
      BY <1>1, <1>2, <3>1, <3>2, <3>3 DEF Moves
  <2>3. CASE \E p \in wire : Arrives(m, p)
    <3>1. PICK p \in wire : Arrives(m, p)
      BY <2>3
    <3>2. p.id \in Events /\ Known(p.id) /\ p.payload = Marshal(p.id)
      BY DEF IInv, WorkersOK, Publications
    <3> QED
      BY <1>1, <3>1, <3>2 DEF Arrives, Message
  <2> QED
    BY <1>0, <2>1, <2>2, <2>3 DEF StreamStep
<1> QED
  BY <1>3 DEF DeliveryOK

\* What JetStream accepts is in the stream afterwards, also when the window of
\* duplicates swallowed it.
LEMMA AcceptedIsStored ==
    ASSUME IInv, NEW p \in wire, BrokerAccepts(p) PROVE \E m \in stream' : m.id = p.id
  BY Zenon DEF BrokerAccepts, IInv, StreamOK, Stored

\* The window grows and a worker learns of success only by an answer of JetStream.
LEMMA BrokerVerdicts ==
    ASSUME IInv, [Next]_vars
    PROVE  \/ \E p \in wire : BrokerAccepts(p)
           \/ /\ window' \subseteq window
              /\ \A w \in Workers : worker'[w].phase = "published" => worker'[w] = worker[w]
<1>0. worker \in [Workers -> WorkerStates]
  BY DEF IInv, WorkersOK
<1>1. CASE UNCHANGED vars
  BY <1>1 DEF vars
<1>2. ASSUME NEW s \in Subjects,
             \/ CreateRegistration(s) \/ Create(s) \/ LeaseExpires(s) \/ RetryDue(s) \/ UpdateMe(s)
      PROVE  UNCHANGED <<window, worker>>
  BY <1>2 DEF CreateRegistration, Create, LeaseExpires, RetryDue, UpdateMe, brokerVars
<1>3. ASSUME NEW w \in Workers, WorkerNext(w)
      PROVE  /\ window' = window
             /\ \A v \in Workers : worker'[v].phase = "published" => worker'[v] = worker[v]
  <2>1. CASE Claim(w) \/ ClaimFails(w)
    BY <1>0, <2>1 DEF Claim, ClaimFails, brokerVars
  <2>2. CASE Publish(w) \/ PublishTimesOut(w) \/ PublishUnconnected(w)
    BY <1>0, <2>2 DEF Publish, PublishTimesOut, PublishUnconnected, brokerVars, WorkerStates
  <2>3. CASE MarkPublished(w) \/ Retry(w) \/ SettleFails(w) \/ WorkerStops(w)
    BY <1>0, <2>3 DEF MarkPublished, Retry, SettleFails, WorkerStops, brokerVars, Idle
  <2> QED
    BY <1>3, <2>1, <2>2, <2>3, Zenon DEF WorkerNext, WorkerWorks
<1>4. ASSUME NEW c \in Consumers, ConsumerNext(c) PROVE UNCHANGED <<window, worker>>
  BY <1>4 DEF ConsumerNext, ConsumerWorks, Connect, Fetch, Apply, Acknowledge,
     NegativeAcknowledge, ApplyFails, SettlementLost, ConsumerStops, brokerVars
<1>5. CASE BrokerNext
  BY <1>5 DEF BrokerNext, PublicationLost, WindowCloses, Discard, AckWaitExpires
<1>6. ASSUME NEW o \in Operators, PageStarts(o) \/ PageRow(o) \/ PageFails(o)
      PROVE  UNCHANGED <<window, worker>>
  BY <1>6 DEF PageStarts, PageRow, PageFails, brokerVars
<1> QED
  BY <1>1, <1>2, <1>3, <1>4, <1>5, <1>6 DEF Next

\* Every step keeps the third stage.
LEMMA StreamOKStep ==
    ASSUME IInv, [Next]_vars PROVE StreamOK'
<1>0. OutboxStep /\ StreamStep
  BY OutboxSteps, StreamSteps
<1> DEFINE Later(e) == \E m \in stream' : m.id = e
<1>1. \A e : Stored(e) => Later(e)
  BY <1>0 DEF StreamStep, Stored
<1>2. \A s \in Subjects : HasRow(s) => outbox'[s].id = outbox[s].id
  BY <1>0, RowsKept
<1>3. ASSUME NEW w \in Workers, worker[w].phase = "published"
      PROVE  worker[w].row \in Subjects /\ Later(outbox'[worker[w].row].id)
  BY <1>1, <1>2, <1>3, Zenon DEF IInv, WorkersOK, StreamOK
<1>4. ASSUME NEW s \in Subjects, outbox'[s].published PROVE Later(outbox'[s].id)
  <2>1. CASE outbox[s].published
    BY <1>1, <1>2, <2>1, HasRowType, Zenon DEF IInv, StreamOK
  <2>2. CASE \E o \in Operators \cup {"register"} : outbox'[s] = Row(Event(s, o))
    BY <1>4, <2>2, FreshRow
  <2>3. CASE \E w \in Workers : worker[w].phase = "published" /\ worker[w].row = s
    BY <1>3, <2>3
  <2> QED
    BY <1>0, <1>4, <2>1, <2>2, <2>3 DEF OutboxStep, RowStep
<1>5. /\ window' \subseteq Events /\ \A e \in window' : Later(e)
      /\ \A w \in Workers : worker'[w].phase = "published" => Later(outbox'[worker'[w].row].id)
  <2>1. CASE /\ window' \subseteq window
             /\ \A w \in Workers : worker'[w].phase = "published" => worker'[w] = worker[w]
    BY <1>1, <1>3, <2>1 DEF IInv, StreamOK
  <2>2. ASSUME NEW p \in wire, BrokerAccepts(p)
        PROVE  /\ window' \subseteq Events /\ \A e \in window' : Later(e)
               /\ \A w \in Workers : worker'[w].phase = "published" =>
                     Later(outbox'[worker'[w].row].id)
    <3>1. p.id \in Events /\ p.id.subject \in Subjects /\ Known(p.id)
          /\ (p.from \in Workers => worker[p.from].row = p.id.subject)
      BY EventSubject DEF IInv, WorkersOK, Publications
    <3>2. Later(p.id)
      BY <2>2, AcceptedIsStored
    <3>3. window' = window \cup {p.id}
      BY <2>2 DEF BrokerAccepts
    <3>4. ASSUME NEW w \in Workers, worker'[w].phase = "published"
          PROVE  Later(outbox'[worker'[w].row].id)
      <4>1. CASE worker'[w] = worker[w]
        BY <1>3, <3>4, <4>1
      <4>2. CASE w = p.from /\ worker'[w] = [worker[w] EXCEPT !.phase = "published"]
        <5>1. worker'[w].row = p.id.subject
          BY <3>1, <4>2 DEF IInv, WorkersOK, WorkerStates
        <5>2. outbox'[p.id.subject].id = p.id
          BY <1>2, <3>1 DEF Known
        <5> QED
          BY <3>2, <5>1, <5>2
      <4> QED
        BY <2>2, <4>1, <4>2 DEF BrokerAccepts
    <3> QED
      BY <1>1, <3>1, <3>2, <3>3, <3>4 DEF IInv, StreamOK
  <2> QED
    BY <2>1, <2>2, BrokerVerdicts
<1> QED
  BY <1>4, <1>5, MessagesStep DEF StreamOK, Stored

\* The inductive invariant holds in every reachable state, for every number of
\* accounts, workers, consumers, operators and faults.
THEOREM Invariance == Spec => []IInv
<1>1. IInv /\ [Next]_vars => IInv'
  <2> SUFFICES ASSUME IInv, [Next]_vars PROVE IInv'
    OBVIOUS
  <2> QED
    BY RowsStep, WorkersStep, StreamOKStep, UserOKStep, MessagesStep DEF IInv
<1> QED
  BY <1>1, InitOK, PTL DEF Spec

\* NothingLost: until its account has a profile or was discarded on purpose, a
\* registration that is marked as published is in the stream and still due to be
\* delivered, whatever crashes, lost answers and expired leases there were.
THEOREM NothingLostCorrect == Spec => []NothingLost
<1>1. IInv => NothingLost
  <2> SUFFICES ASSUME IInv, NEW s \in Subjects, HasRow(s), s \notin discarded,
                      ~(profiles[s] > 0), outbox[s].published
               PROVE  \E m \in stream : m.id = outbox[s].id /\ m.state \in {"pending", "delivered"}
    BY DEF NothingLost
  <2>1. PICK m \in stream : m.id = outbox[s].id
    BY DEF IInv, StreamOK, Stored
  <2>2. m.id.subject = s
    BY <2>1 DEF IInv, RowsOK
  <2> QED
    BY <2>1, <2>2 DEF IInv, DeliveryOK
<1> QED
  BY <1>1, Invariance, PTL

\* OneFactPerAccount: whatever is on the wire, in the stream, in the window and in
\* the inbox is the one event of the account's outbox row, although registration
\* and several backfills race for it.
THEOREM OneFactCorrect == Spec => []OneFactPerAccount
<1>1. IInv => OneFactPerAccount
  BY Zenon DEF IInv, WorkersOK, StreamOK, UserOK, Known, OneFactPerAccount
<1> QED
  BY <1>1, Invariance, PTL

\* ProfileNeverReset: no step, a redelivery after the owner edited the profile in
\* particular, takes a profile back.
THEOREM ProfileCorrect == Spec => ProfileNeverReset
<1>1. IInv /\ [Next]_vars => [\A s \in Subjects : profiles'[s] >= profiles[s]]_vars
  BY UserSteps DEF UserStep
<1> QED
  BY <1>1, Invariance, PTL DEF Spec, ProfileNeverReset


----------------------------------------------------------------------------
\* A step that inserts no row keeps the set of captured registrations.
LEMMA CapturedKept ==
    ASSUME IInv, OutboxStep, \A t \in Subjects : outbox'[t] = outbox[t] \/ HasRow(t)
    PROVE  Captured' = Captured
  BY RowsKept DEF Captured, HasRow

\* An insert captures one registration.
LEMMA CapturesOne ==
    ASSUME IInv, OutboxStep, NEW s \in Subjects, NEW o \in Operators \cup {"register"},
           outbox' = [outbox EXCEPT ![s] = Row(Event(s, o))]
    PROVE  Captured' = Captured \cup {s}
<1>1. Row(Event(s, o)) # NoRow
  BY FreshRow, RowIsNotNoRow
<1> QED
  BY <1>1 DEF Captured, HasRow, IInv, RowsOK

\* The step is a step of Provisioning, or changes nothing it sees.
Maps == Provisioned!Next \/ UNCHANGED <<accounts, Captured, discarded, profiles>>

\* The backfill captures a registration or does nothing that Provisioning sees.
LEMMA ProcessRowMaps ==
    ASSUME IInv, OutboxStep, NEW o \in Operators, NEW row \in backfill[o].rows,
           ProcessRow(o, row), UNCHANGED <<accounts, discarded, profiles>>
    PROVE  Maps
<1>1. row.subject \in accounts /\ row.subject \in Subjects
  BY Zenon DEF IInv, RowsOK
<1>2. CASE Ensure(o, row)
  <2>1. CASE HasRow(row.subject)
    BY <1>2, <2>1, CapturedKept DEF Ensure, Maps
  <2>2. CASE ~HasRow(row.subject)
    <3>1. Captured' = Captured \cup {row.subject}
      BY <1>1, <1>2, <2>2, CapturesOne, Zenon DEF Ensure
    <3>2. row.subject \in accounts \ Captured
      BY <1>1, <2>2 DEF Captured
    <3>3. Provisioned!Recover(row.subject)
      BY <3>1, <3>2 DEF Provisioned!Recover
    <3> QED
      BY <1>1, <3>3 DEF Maps, Provisioned!Next
  <2> QED
    BY <2>1, <2>2
<1>3. CASE Replay(row)
  <2>1. \A t \in Subjects : outbox'[t] = outbox[t] \/ HasRow(t)
    BY <1>1, <1>3, HasRowType DEF Replay, IInv, RowsOK
  <2> QED
    BY <2>1, CapturedKept DEF Maps
<1>4. CASE UNCHANGED outbox
  BY <1>4, CapturedKept DEF Maps
<1> QED
  BY <1>2, <1>3, <1>4 DEF ProcessRow

\* Every step of the pipeline is a step of Provisioning or a stutter.
LEMMA StepMaps ==
    ASSUME IInv, [Next]_vars PROVE Maps
<1>0. OutboxStep
  BY OutboxSteps
<1>1. ASSUME UNCHANGED <<accounts, discarded, profiles>>,
             \A t \in Subjects : outbox'[t] = outbox[t] \/ HasRow(t)
      PROVE  Maps
  BY <1>0, <1>1, CapturedKept DEF Maps
<1>2. CASE UNCHANGED vars
  BY <1>1, <1>2 DEF vars
<1>3. ASSUME NEW s \in Subjects, CreateRegistration(s) PROVE Maps
  <2>1. CASE Taken(s)
    BY <1>1, <1>3, <2>1 DEF CreateRegistration, brokerVars, userVars
  <2>2. CASE ~Taken(s)
    <3>1. Captured' = Captured \cup {s}
      BY <1>0, <1>3, <2>2, CapturesOne, Zenon DEF CreateRegistration
    <3>2. s \notin accounts
      BY <1>3 DEF CreateRegistration, IInv, RowsOK
    <3>3. Provisioned!OpenAccount(s)
      BY <1>3, <2>2, <3>1, <3>2 DEF CreateRegistration, Provisioned!OpenAccount, brokerVars, userVars
    <3> QED
      BY <3>3 DEF Maps, Provisioned!Next
  <2> QED
    BY <2>1, <2>2
<1>4. ASSUME NEW s \in Subjects, Create(s) PROVE Maps
  <2>1. Captured' = Captured
    BY <1>0, <1>4, CapturedKept DEF Create
  <2>2. s \notin accounts
    BY <1>4 DEF Create, IInv, RowsOK
  <2>3. Provisioned!OpenAccount(s)
    BY <1>4, <2>1, <2>2 DEF Create, Provisioned!OpenAccount, brokerVars, userVars
  <2> QED
    BY <2>3 DEF Maps, Provisioned!Next
<1>5. ASSUME NEW s \in Subjects, UpdateMe(s) PROVE Maps
  <2>1. Captured' = Captured
    BY <1>0, <1>5, CapturedKept DEF UpdateMe
  <2>2. Provisioned!EditProfile(s)
    BY <1>5, <2>1, RegistrationAssumption
       DEF UpdateMe, Provisioned!EditProfile, authVars, brokerVars
  <2> QED
    BY <2>2 DEF Maps, Provisioned!Next
<1>6. ASSUME NEW s \in Subjects, LeaseExpires(s) \/ RetryDue(s) PROVE Maps
  <2>1. HasRow(s)
    BY <1>6, HasRowType DEF LeaseExpires, RetryDue, IInv
  <2>2. \A t \in Subjects : outbox'[t] = outbox[t] \/ HasRow(t)
    BY <1>6, <2>1 DEF LeaseExpires, RetryDue, IInv, RowsOK
  <2> QED
    BY <1>1, <1>6, <2>2 DEF LeaseExpires, RetryDue, authVars, brokerVars, userVars
<1>7. ASSUME NEW w \in Workers, WorkerNext(w) PROVE Maps
  <2>1. CASE Claim(w) \/ ClaimFails(w)
    <3>1. \A t \in Subjects : outbox'[t] = outbox[t] \/ HasRow(t)
      BY <2>1 DEF Claim, ClaimFails, Claimable, IInv, RowsOK
    <3> QED
      BY <1>1, <2>1, <3>1 DEF Claim, ClaimFails, authVars, brokerVars, userVars
  <2>2. CASE MarkPublished(w) \/ Retry(w)
    <3>1. worker[w].row \in Subjects /\ HasRow(worker[w].row)
      BY <2>2 DEF MarkPublished, Retry, IInv, WorkersOK
    <3>2. \A t \in Subjects : outbox'[t] = outbox[t] \/ HasRow(t)
      BY <2>2, <3>1, Zenon DEF MarkPublished, Retry, IInv, RowsOK
    <3> QED
      BY <1>1, <2>2, <3>2 DEF MarkPublished, Retry, authVars, brokerVars, userVars
  <2>3. CASE \/ Publish(w) \/ PublishTimesOut(w) \/ PublishUnconnected(w)
             \/ SettleFails(w) \/ WorkerStops(w)
    BY <1>1, <2>3 DEF Publish, PublishTimesOut, PublishUnconnected, SettleFails, WorkerStops,
       authVars, brokerVars, userVars
  <2> QED
    BY <1>7, <2>1, <2>2, <2>3 DEF WorkerNext, WorkerWorks
<1>8. ASSUME NEW c \in Consumers, ConsumerNext(c) PROVE Maps
  <2>1. CASE Apply(c) \/ ApplyFails(c)
    <3> DEFINE s == consumer[c].id.subject
    <3>1. s \in Subjects /\ Known(consumer[c].id) /\ consumer[c].payload.subject = s
      BY <2>1, WorkingConsumer DEF IInv, Apply, ApplyFails, Working
    <3>2. UNCHANGED <<accounts, outbox, discarded>>
      BY <2>1 DEF Apply, ApplyFails, authVars, brokerVars
    <3>3. Captured' = Captured /\ s \in Captured
      BY <1>0, <3>1, <3>2, CapturedKept DEF Captured, Known
    <3>4. \/ profiles' = profiles
          \/ profiles[s] = 0 /\ profiles' = [profiles EXCEPT ![s] = 1]
      BY <2>1, <3>1 DEF Apply, ApplyFails, Accept
    <3>5. CASE profiles' = profiles
      BY <3>2, <3>3, <3>5 DEF Maps
    <3>6. CASE profiles[s] = 0 /\ profiles' = [profiles EXCEPT ![s] = 1]
      <4>1. Provisioned!CreateProfile(s)
        BY <3>2, <3>3, <3>6 DEF Provisioned!CreateProfile
      <4> QED
        BY <3>1, <4>1 DEF Maps, Provisioned!Next
    <3> QED
      BY <3>4, <3>5, <3>6
  <2>2. CASE \/ Connect(c) \/ Fetch(c) \/ Acknowledge(c) \/ NegativeAcknowledge(c)
             \/ SettlementLost(c) \/ ConsumerStops(c)
    BY <1>1, <2>2 DEF Connect, Fetch, Acknowledge, NegativeAcknowledge, SettlementLost,
       ConsumerStops, authVars, brokerVars
  <2> QED
    BY <1>8, <2>1, <2>2 DEF ConsumerNext, ConsumerWorks
<1>9. CASE BrokerNext
  <2>1. ASSUME NEW m \in stream, Discard(m) PROVE Maps
    <3>1. m.id.subject \in Subjects /\ m.id.subject \in Captured
      BY EventSubject DEF IInv, StreamOK, Message, Known, Captured
    <3>2. Captured' = Captured
      BY <1>0, <2>1, CapturedKept DEF Discard
    <3>3. Provisioned!Discard(m.id.subject)
      BY <2>1, <3>1, <3>2 DEF Discard, Provisioned!Discard, authVars, userVars
    <3> QED
      BY <3>1, <3>3 DEF Maps, Provisioned!Next
  <2>2. CASE \/ \E p \in wire : BrokerAccepts(p) \/ PublicationLost(p)
             \/ \E id \in window : WindowCloses(id)
             \/ \E m \in stream : AckWaitExpires(m)
    BY <1>1, <2>2 DEF BrokerAccepts, PublicationLost, WindowCloses, AckWaitExpires,
       authVars, userVars
  <2> QED
    BY <1>9, <2>1, <2>2 DEF BrokerNext
<1>10. ASSUME NEW o \in Operators, PageStarts(o) \/ PageRow(o) \/ PageFails(o)
       PROVE  Maps
  <2>1. UNCHANGED <<accounts, discarded, profiles>>
    BY <1>10 DEF PageStarts, PageRow, PageFails, brokerVars, userVars
  <2>2. outbox' = outbox \/ \E row \in backfill[o].rows : ProcessRow(o, row)
    BY <1>10 DEF PageStarts, PageRow, PageFails
  <2> QED
    BY <1>0, <1>1, <2>1, <2>2, ProcessRowMaps, Zenon
<1> QED
  BY <1>2, <1>3, <1>4, <1>5, <1>6, <1>7, <1>8, <1>9, <1>10 DEF Next

\* The pipeline of outbox, stream, consumer and backfill implements Provisioning:
\* an account is captured once, provisioned only after that, and then only edited
\* by its owner.
THEOREM ProvisioningRefined == Spec => Provisioned!Steps
<1>1. Init => Provisioned!Init
  BY DEF Init, Provisioned!Init, Captured, HasRow
<1>2. IInv /\ [Next]_vars => [Provisioned!Next]_(Provisioned!provisioningVars)
  BY StepMaps DEF Maps, Provisioned!provisioningVars
<1> QED
  BY <1>1, <1>2, Invariance, PTL DEF Spec, Provisioned!Steps
=============================================================================
