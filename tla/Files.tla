------------------------------- MODULE Files -------------------------------
(***************************************************************************)
(* The Files service: upload sessions, the worker that scans, rebuilds and *)
(* replicates what was uploaded, and the reconciliation that removes what  *)
(* a finished file leaves in the object stores.                            *)
(*                                                                         *)
(* Every write of a file's row compares the version the writer has read,   *)
(* and every successful write but none of the failed ones increments it.   *)
(* So a version is represented by who still holds the last one: `snap[p]'  *)
(* is what process p has read, and snap[p].current says that nobody has    *)
(* written since. Content is a digest; the parts of an upload are checked  *)
(* by the store against the manifest, so a part is there or it is not.     *)
(* A file is named by its owner's idempotency key.                         *)
(***************************************************************************)
EXTENDS Inspection, FiniteSets

CONSTANTS FileKeys, Calls, Workers,
          Parts,           \* part numbers of the manifest
          Uploads,         \* what is uploaded, as module Inspection describes it
          Digests,         \* digests a reconstruction may have
          Delivery,        \* the delivery stores of the data centers, in their order
          None,            \* no file, no digest, no row
          Quota,           \* uploads of an owner that may be in progress together
          MaxFaults        \* bound: storage, scanner and database failures, and crashes

VARIABLES row,       \* files.uploads
          parts,     \* quarantine store: parts of each file
          caps,      \* parts for which a signed upload URL is still valid
          clean,     \* internal store: derivatives, by their digest
          copies,    \* delivery stores: the digest under the object key
          snap,      \* what a call or a worker has read, and where it stands
          faults

filesVars == <<row, parts, caps, clean, copies, snap, faults>>

DCs == 1..Len(Delivery)
Terminal == {"DELETED", "EXPIRED", "REJECTED"}
InProgress == {"UPLOADING", "SCANNING", "REPLICATING"}
States == InProgress \cup {"READY"} \cup Terminal
Procs == Calls \cup Workers

\* A call is not a worker, there is a delivery store, and None is nothing else.
ASSUME FilesAssumption ==
    /\ Calls \cap Workers = {}
    /\ Len(Delivery) \in Nat \ {0}
    /\ None \notin FileKeys \cup Digests \cup States

NoRow == [state |-> None, attached |-> FALSE, expired |-> FALSE, leased |-> FALSE,
          due |-> TRUE, clean |-> None, upload |-> None]

\* A process at rest has read nothing.
Idle == [pc |-> "idle", file |-> None, state |-> None, current |-> FALSE, digest |-> None,
         copied |-> 0]

Has(pc, f, state) ==
    [Idle EXCEPT !.pc = pc, !.file = f, !.state = state, !.current = TRUE]

Init ==
    /\ row = [f \in FileKeys |-> NoRow]
    /\ parts = [f \in FileKeys |-> {}]
    /\ caps = [f \in FileKeys |-> {}]
    /\ clean = [f \in FileKeys |-> {}]
    /\ copies = [f \in FileKeys |-> [d \in DCs |-> None]]
    /\ snap = [p \in Procs |-> Idle]
    /\ faults = 0

Stores == <<parts, caps, clean, copies>>

-----------------------------------------------------------------------------
(* Rows *)

\* CanTransition
CanTransition(from, to) ==
    \/ to = "DELETED" /\ from \in States \ {"DELETED"}
    \/ from = "UPLOADING" /\ to \in {"SCANNING", "EXPIRED", "REJECTED"}
    \/ from = "SCANNING" /\ to \in {"REPLICATING", "EXPIRED", "REJECTED"}
    \/ from = "REPLICATING" /\ to \in {"READY", "EXPIRED", "REJECTED"}

\* The row that p has read was written: nobody else holds its version any more, and p
\* goes on with what `next' says.
Written(p, f, next) ==
    snap' = [q \in Procs |-> IF q = p THEN next
                             ELSE IF snap[q].file = f THEN [snap[q] EXCEPT !.current = FALSE]
                             ELSE snap[q]]

Reads(p, f, pc) == snap' = [snap EXCEPT ![p] = Has(pc, f, row[f].state)]

Done(p) == snap' = [snap EXCEPT ![p] = Idle]

Step(p, pc) == snap' = [snap EXCEPT ![p].pc = pc]

\* The compare of owner, version and state in Repository.Transition.
Holds(p) == snap[p].current /\ row[snap[p].file].state = snap[p].state

\* Repository.Transition and the end of the call or the job; a lost comparison is a
\* conflict. Terminal states are cleaned up a little later.
Transition(p, to) ==
    LET f == snap[p].file IN
    IF Holds(p) /\ CanTransition(snap[p].state, to)
    THEN /\ row' = [row EXCEPT ![f].state = to, ![f].leased = FALSE,
                               ![f].due = IF to \in Terminal THEN FALSE ELSE @]
         /\ Written(p, f, Idle)
    ELSE Done(p) /\ UNCHANGED row

-----------------------------------------------------------------------------
(* Calls of the owner *)

\* files.check_upload_quota, under a lock of the owner: a repeated key is not counted. (The
\* limit of a hundred uploads a day is out of reach of a run.)
Admitted(f) ==
    \/ row[f].state # None
    \/ Cardinality({g \in FileKeys : row[g].state \in InProgress}) < Quota

\* Repository.Create: the row is inserted, or the one with that key is read, whose manifest
\* must be the same. A file past uploading is answered as it is, an expired one refused, as
\* is one over the quota (ErrLimit).
Create(c, f, u) ==
    /\ snap[c] = Idle
    /\ Admitted(f)
    /\ row[f].upload \in {None, u}
    /\ row' = [row EXCEPT ![f].state = IF @ = None THEN "UPLOADING" ELSE @, ![f].upload = u]
    /\ snap' = [snap EXCEPT ![c] =
           IF row'[f].state # "UPLOADING" \/ row'[f].expired THEN Idle
           ELSE Has(IF row'[f].attached THEN "capabilities" ELSE "attach", f, "UPLOADING")]
    /\ UNCHANGED <<Stores, faults>>

Attachable(c) == LET f == snap[c].file IN Holds(c) /\ ~row[f].attached /\ ~row[f].expired

Open(f) == row[f].state = "UPLOADING" /\ row[f].attached /\ ~row[f].expired

\* The row is read again: Create goes on if another attempt has attached the upload.
ReadAgain(c) == IF Open(snap[c].file) THEN Step(c, "capabilities") ELSE Done(c)

\* Repository.AttachUpload, and what follows a conflict.
AttachUpload(c) ==
    LET f == snap[c].file IN
    /\ snap[c].pc = "attach"
    /\ IF Attachable(c)
       THEN /\ row' = [row EXCEPT ![f].attached = TRUE]
            /\ Written(c, f, [snap[c] EXCEPT !.pc = "capabilities"])
       ELSE ReadAgain(c) /\ UNCHANGED row
    /\ UNCHANGED <<Stores, faults>>

\* Mutant: a creator whose attachment failed aborts the upload.
AttachFailsAborting(c) ==
    LET f == snap[c].file IN
    /\ snap[c].pc = "attach"
    /\ parts' = [parts EXCEPT ![f] = {}]
    /\ Done(c)
    /\ UNCHANGED <<row, caps, clean, copies, faults>>

\* AttachUpload fails without a commit. (One that commits and is not acknowledged is found
\* in the row that is read again, and goes on as AttachUpload does.)
AttachFails(c) ==
    /\ snap[c].pc = "attach"
    /\ ReadAgain(c)
    /\ UNCHANGED <<row, Stores, faults>>

\* Service.capabilities, of the row as it was read: a signed URL for every missing part.
Capabilities(c) ==
    LET f == snap[c].file IN
    /\ snap[c].pc = "capabilities"
    /\ caps' = [caps EXCEPT ![f] = @ \cup (Parts \ parts[f])]
    /\ Done(c)
    /\ UNCHANGED <<row, parts, clean, copies, faults>>

\* Service.Complete up to Storage.Completed: an upload in progress with every part there.
\* Anything else is answered without a change.
Complete(c, f) ==
    /\ snap[c] = Idle
    /\ Open(f)
    /\ parts[f] = Parts
    /\ Reads(c, f, "complete")
    /\ UNCHANGED <<row, Stores, faults>>

\* Service.advanceComplete
AdvanceComplete(c) ==
    /\ snap[c].pc = "complete"
    /\ Transition(c, "SCANNING")
    /\ UNCHANGED <<Stores, faults>>

\* Service.Delete reads the file, DeleteTransition marks it; the stores are left to the worker.
Delete(c, f) ==
    /\ snap[c] = Idle
    /\ row[f].state \notin {None, "DELETED"}
    /\ Reads(c, f, "delete")
    /\ UNCHANGED <<row, Stores, faults>>

DeleteTransition(c) ==
    /\ snap[c].pc = "delete"
    /\ Transition(c, "DELETED")
    /\ UNCHANGED <<Stores, faults>>

\* A store or the database is unavailable, or the caller has gone.
CallFails(c) ==
    /\ snap[c] # Idle
    /\ Done(c)
    /\ UNCHANGED <<row, Stores, faults>>

\* Service.Download and Store.SignDownload: a READY file is served from the first store
\* that answers and has the copy the row describes.
Downloadable(f, up) == row[f].state = "READY" /\ \E dc \in up : copies[f][dc] = row[f].clean

-----------------------------------------------------------------------------
(* Time and the browser's uploads *)

\* A signed URL puts its part, once: the store refuses a second object of that name.
UploadPart(f, n) ==
    /\ n \in caps[f]
    /\ n \notin parts[f]
    /\ parts' = [parts EXCEPT ![f] = @ \cup {n}]
    /\ UNCHANGED <<row, caps, clean, copies, snap, faults>>

CapabilitiesExpire(f) ==
    /\ caps[f] # {}
    /\ caps' = [caps EXCEPT ![f] = {}]
    /\ UNCHANGED <<row, parts, clean, copies, snap, faults>>

UploadExpires(f) ==
    /\ row[f].state = "UPLOADING" /\ ~row[f].expired
    /\ row' = [row EXCEPT ![f].expired = TRUE]
    /\ UNCHANGED <<Stores, snap, faults>>

\* cleanup_after is reached, minutes after it was set; a call that read the row before that
\* has ended, for it lives for seconds.
CleanupDue(f) ==
    /\ row[f].state \in Terminal \cup {"READY"} /\ ~row[f].due
    /\ \A c \in Calls : snap[c].file = f => snap[c].current
    /\ row' = [row EXCEPT ![f].due = TRUE]
    /\ UNCHANGED <<Stores, snap, faults>>

AtWork(f) == \E w \in Workers : snap[w].file = f /\ snap[w].current

\* lease_until is reached. JobTimeout is shorter than the lease, so the job has ended.
LeaseExpires(f) ==
    /\ row[f].leased
    /\ ~AtWork(f)
    /\ row' = [row EXCEPT ![f].leased = FALSE]
    /\ UNCHANGED <<Stores, snap, faults>>

\* Unless the process was suspended, and its timers with it. (While it processes a file:
\* a repeated cleanup is the same whoever does it.)
LeaseOverrun(f) ==
    /\ row[f].leased /\ row[f].state \in {"SCANNING", "REPLICATING"}
    /\ AtWork(f)
    /\ faults < MaxFaults
    /\ faults' = faults + 1
    /\ row' = [row EXCEPT ![f].leased = FALSE]
    /\ UNCHANGED <<Stores, snap>>

-----------------------------------------------------------------------------
(* The processing worker *)

Claimable(f) ==
    /\ ~row[f].leased
    /\ \/ row[f].state \in {"SCANNING", "REPLICATING"}
       \/ row[f].state = "UPLOADING" /\ row[f].expired
       \/ row[f].state \in Terminal \cup {"READY"} /\ row[f].due

Rank(f) == CASE row[f].state \in {"SCANNING", "REPLICATING"} -> 0
             [] row[f].state = "UPLOADING" -> 1
             [] OTHER -> 2

\* Repository.Claim fences earlier workers by incrementing the version.
Claim(w, f) ==
    /\ snap[w] = Idle
    /\ Claimable(f)
    /\ \A g \in FileKeys : Claimable(g) => Rank(f) <= Rank(g)
    /\ row' = [row EXCEPT ![f].leased = TRUE]
    /\ Written(w, f, [Has(row[f].state, f, row[f].state) EXCEPT !.digest = row[f].clean])
    /\ UNCHANGED <<Stores, faults>>

\* Worker.Step, stage expire: an upload that ran out, or a job older than ProcessingTTL.
Expire(w) ==
    /\ snap[w].pc \in {"UPLOADING", "SCANNING", "REPLICATING"}
    /\ Transition(w, "EXPIRED")
    /\ UNCHANGED <<Stores, faults>>

\* What an attempt may say of an upload, sound or not.
Said == [u \in Uploads |-> [sound \in BOOLEAN |-> Verdicts(u, sound)]]

\* Store.ReadUpload, the stages of Worker.scan and PutClean, which stores the derivative
\* under its digest.
Scan(w, d) ==
    LET f == snap[w].file IN
    /\ snap[w].pc = "SCANNING"
    /\ parts[f] = Parts
    /\ "ok" \in Said[row[f].upload][TRUE]
    /\ clean' = [clean EXCEPT ![f] = @ \cup {d}]
    /\ snap' = [snap EXCEPT ![w].pc = "mark_clean", ![w].digest = d]
    /\ UNCHANGED <<row, parts, caps, copies, faults>>

\* A stage says ErrRejected.
Reject(w) ==
    LET f == snap[w].file IN
    /\ snap[w].pc = "SCANNING"
    /\ parts[f] = Parts
    /\ "rejected" \in Said[row[f].upload][TRUE]
    /\ Transition(w, "REJECTED")
    /\ UNCHANGED <<Stores, faults>>

\* A stage says ErrRejected of its own failure.
RejectMistaken(w) ==
    LET f == snap[w].file IN
    /\ snap[w].pc = "SCANNING"
    /\ parts[f] = Parts
    /\ "rejected" \in Said[row[f].upload][FALSE]
    /\ faults < MaxFaults
    /\ faults' = faults + 1
    /\ Transition(w, "REJECTED")
    /\ UNCHANGED Stores

\* Mutant: the derivative is bound whoever has bound one since.
MarkCleanUnfenced(w) ==
    LET f == snap[w].file IN
    /\ snap[w].pc = "mark_clean"
    /\ row' = [row EXCEPT ![f].state = "REPLICATING", ![f].clean = snap[w].digest,
                          ![f].leased = FALSE]
    /\ Written(w, f, Idle)
    /\ UNCHANGED <<Stores, faults>>

\* Repository.MarkClean
MarkClean(w) ==
    LET f == snap[w].file IN
    /\ snap[w].pc = "mark_clean"
    /\ IF Holds(w)
       THEN /\ row' = [row EXCEPT ![f].state = "REPLICATING", ![f].clean = snap[w].digest,
                                  ![f].leased = FALSE]
            /\ Written(w, f, Idle)
       ELSE Done(w) /\ UNCHANGED row
    /\ UNCHANGED <<Stores, faults>>

\* Store.Replicate reads the derivative once.
ReadClean(w) ==
    /\ snap[w].pc = "REPLICATING"
    /\ snap[w].digest \in clean[snap[w].file]
    /\ snap' = [snap EXCEPT ![w].pc = "replicate"]
    /\ UNCHANGED <<row, Stores, faults>>

\* Mutant: the first delivery copy is enough.
ReplicateOnce(w) ==
    /\ snap[w].pc = "replicate"
    /\ copies' = [copies EXCEPT ![snap[w].file][1] = snap[w].digest]
    /\ Step(w, "mark_ready")
    /\ UNCHANGED <<row, parts, caps, clean, faults>>

\* The next delivery store: a put that an object already there refuses, read back either
\* way. Bytes that are not the derivative of the row are rejected.
Replicate(w) ==
    LET f == snap[w].file
        dc == snap[w].copied + 1
        there == IF copies[f][dc] = None THEN snap[w].digest ELSE copies[f][dc]
    IN  /\ snap[w].pc = "replicate"
        /\ copies' = [copies EXCEPT ![f][dc] = there]
        /\ IF there # snap[w].digest THEN Transition(w, "REJECTED")
           ELSE /\ snap' = [snap EXCEPT ![w].copied = IF dc = Len(Delivery) THEN 0 ELSE dc,
                                        ![w].pc = IF dc = Len(Delivery) THEN "mark_ready" ELSE @]
                /\ UNCHANGED row
        /\ UNCHANGED <<parts, caps, clean, faults>>

\* The derivative, or the copy that was put last, is read back with another length, digest
\* or key.
ReplicateMistaken(w) ==
    /\ snap[w].pc \in {"REPLICATING", "replicate", "mark_ready"}
    /\ faults < MaxFaults
    /\ faults' = faults + 1
    /\ Transition(w, "REJECTED")
    /\ UNCHANGED Stores

MarkReady(w) ==
    /\ snap[w].pc = "mark_ready"
    /\ Transition(w, "READY")
    /\ UNCHANGED <<Stores, faults>>

\* Store.Purge: parts of an attached upload, delivery copies, derivatives.
Purge(w) ==
    LET f == snap[w].file IN
    /\ snap[w].pc \in Terminal
    /\ parts' = [parts EXCEPT ![f] = IF row[f].attached THEN {} ELSE @]
    /\ copies' = [copies EXCEPT ![f] = [d \in DCs |-> None]]
    /\ clean' = [clean EXCEPT ![f] = {}]
    /\ Step(w, "defer_cleanup")
    /\ UNCHANGED <<row, caps, faults>>

\* Store.CleanupReady: the parts, and every derivative but the one the row refers to.
CleanupReady(w) ==
    LET f == snap[w].file IN
    /\ snap[w].pc = "READY"
    /\ parts' = [parts EXCEPT ![f] = {}]
    /\ clean' = [clean EXCEPT ![f] = @ \cap {snap[w].digest}]
    /\ Step(w, "defer_cleanup")
    /\ UNCHANGED <<row, caps, copies, faults>>

\* Repository.DeferCleanup: the file is due again in an hour, for what arrives late.
DeferCleanup(w) ==
    LET f == snap[w].file IN
    /\ snap[w].pc = "defer_cleanup"
    /\ IF Holds(w)
       THEN /\ row' = [row EXCEPT ![f].due = FALSE, ![f].leased = FALSE]
            /\ Written(w, f, Idle)
       ELSE Done(w) /\ UNCHANGED row
    /\ UNCHANGED <<Stores, faults>>

\* A dependency is unavailable, the job times out or the worker stops: the lease stays. A
\* purge that failed may have removed any of the three kinds of objects.
JobFails(w) ==
    LET f == snap[w].file IN
    /\ snap[w] # Idle
    /\ faults < MaxFaults
    /\ faults' = faults + 1
    /\ \E k \in SUBSET (IF snap[w].pc \in Terminal THEN {"parts", "copies", "clean"} ELSE {}) :
           /\ parts' = [parts EXCEPT ![f] = IF "parts" \in k /\ row[f].attached THEN {} ELSE @]
           /\ copies' = [copies EXCEPT ![f] = IF "copies" \in k THEN [d \in DCs |-> None] ELSE @]
           /\ clean' = [clean EXCEPT ![f] = IF "clean" \in k THEN {} ELSE @]
    /\ Done(w)
    /\ UNCHANGED <<row, caps>>

\* The source or the derivative is gone under a fenced worker: nothing to do but retry.
JobFindsNothing(w) ==
    LET f == snap[w].file IN
    /\ \/ snap[w].pc = "SCANNING" /\ parts[f] # Parts
       \/ snap[w].pc = "REPLICATING" /\ snap[w].digest \notin clean[f]
    /\ Done(w)
    /\ UNCHANGED <<row, Stores, faults>>
=============================================================================
