------------------------------ MODULE Avatars ------------------------------
(***************************************************************************)
(* A user's avatar: a file of the Files service that the User service      *)
(* refers to. The two services have their own databases. The User service  *)
(* asks Files whether the file is READY and then writes its own row, and a *)
(* file that is no longer the avatar is deleted by a queue of retirements, *)
(* whose worker calls Files and may lose the answer.                       *)
(***************************************************************************)
EXTENDS Files

CONSTANTS Users,       \* avatar calls of one subject, at most one step each at a time
          Retirers     \* retirement workers; each one's call to Files is a call of Files

ASSUME RetirersCall ==
    /\ Retirers \subseteq Calls
    /\ None \notin Retirers \cup {"queued", "retired"}

VARIABLES avatar,      \* users.profiles.avatar_file_id of the subject
          retirement,  \* users.avatar_retirements: queued, leased by a worker, or retired
          use,         \* an avatar call between its inspection and its transaction
          job          \* what a retirement worker is at

avatarVars == <<avatar, retirement, use, job>>
vars == <<filesVars, avatarVars>>

NoUse == [file |-> None, current |-> FALSE]
NoJob == [pc |-> "idle", file |-> None]

AvatarInit ==
    /\ Init
    /\ avatar = None
    /\ retirement = [f \in FileKeys |-> None]
    /\ use = [u \in Users |-> NoUse]
    /\ job = [r \in Retirers |-> NoJob]

\* InspectOwnedAvatar, called by Service.Set before its own transaction. The caller has
\* named the avatar version it has seen.
Inspect(u, f) ==
    /\ use[u] = NoUse
    /\ row[f].state = "READY"
    /\ use' = [use EXCEPT ![u] = [file |-> f, current |-> TRUE]]
    /\ UNCHANGED <<filesVars, avatar, retirement, job>>

\* The transaction of Repository.Set: the previous file is queued for retirement with the
\* change, and every other caller's version is now an old one.
Replace(u, id) ==
    /\ avatar' = id
    /\ retirement' = [f \in FileKeys |->
           IF f = avatar /\ f # id /\ retirement[f] = None THEN "queued" ELSE retirement[f]]
    /\ use' = [v \in Users |-> IF v = u THEN NoUse ELSE [use[v] EXCEPT !.current = FALSE]]

\* Mutant: a retired file may be set again.
SetReattaching(u) ==
    /\ use[u] # NoUse
    /\ IF use[u].current
       THEN Replace(u, use[u].file)
       ELSE use' = [use EXCEPT ![u] = NoUse] /\ UNCHANGED <<avatar, retirement>>
    /\ UNCHANGED <<filesVars, job>>

\* Repository.Set: refused for an old version, and for a file that was ever retired.
Set(u) ==
    /\ use[u] # NoUse
    /\ IF use[u].current /\ retirement[use[u].file] = None
       THEN Replace(u, use[u].file)
       ELSE use' = [use EXCEPT ![u] = NoUse] /\ UNCHANGED <<avatar, retirement>>
    /\ UNCHANGED <<filesVars, job>>

\* Service.Clear
Clear(u) ==
    /\ use[u] = NoUse
    /\ avatar # None
    /\ Replace(u, None)
    /\ UNCHANGED <<filesVars, job>>

-----------------------------------------------------------------------------
(* The retirement worker *)

ClaimRetirement(r, f) ==
    /\ job[r] = NoJob
    /\ retirement[f] = "queued"
    /\ retirement' = [retirement EXCEPT ![f] = r]
    /\ job' = [job EXCEPT ![r] = [pc |-> "retire", file |-> f]]
    /\ UNCHANGED <<filesVars, avatar, use>>

\* RetireOwnedAvatar is Service.Delete of Files; a file deleted already is a success.
RetireOwnedAvatar(r) ==
    LET f == job[r].file IN
    /\ job[r].pc = "retire"
    /\ snap[r] = Idle
    /\ IF row[f].state = "DELETED"
       THEN job' = [job EXCEPT ![r].pc = "finish"] /\ UNCHANGED filesVars
       ELSE Delete(r, f) /\ job' = [job EXCEPT ![r].pc = "called"]
    /\ UNCHANGED <<avatar, retirement, use>>

\* Files ends the call, which the worker may no longer wait for.
RetireDeletes(r) ==
    /\ DeleteTransition(r)
    /\ job' = IF job[r].pc # "called" THEN job
              ELSE [job EXCEPT ![r].pc = IF row'[snap[r].file].state = "DELETED"
                                         THEN "finish" ELSE "retry"]
    /\ UNCHANGED <<avatar, retirement, use>>

\* The five seconds of the call are over; what it does in Files is still to come.
RetireTimesOut(r) ==
    /\ job[r].pc = "called"
    /\ job' = [job EXCEPT ![r].pc = "retry"]
    /\ UNCHANGED <<filesVars, avatar, retirement, use>>

\* Queue.Finish and Queue.Retry write only under the lease the worker still has.
Finish(r) ==
    LET f == job[r].file IN
    /\ job[r].pc = "finish"
    /\ retirement' = [retirement EXCEPT ![f] = IF @ = r THEN "retired" ELSE @]
    /\ job' = [job EXCEPT ![r] = NoJob]
    /\ UNCHANGED <<filesVars, avatar, use>>

Retry(r) ==
    LET f == job[r].file IN
    /\ job[r].pc = "retry"
    /\ retirement' = [retirement EXCEPT ![f] = IF @ = r THEN "queued" ELSE @]
    /\ job' = [job EXCEPT ![r] = NoJob]
    /\ UNCHANGED <<filesVars, avatar, use>>

\* The lease runs out, under a worker that is slow or will never come back to it.
RetirementLeaseExpires(f) ==
    /\ retirement[f] \in Retirers
    /\ retirement' = [retirement EXCEPT ![f] = "queued"]
    /\ UNCHANGED <<filesVars, avatar, use, job>>

-----------------------------------------------------------------------------
(* Composition *)

CallStep(c) ==
    \/ \E f \in FileKeys : (\E u \in Uploads : Create(c, f, u)) \/ Complete(c, f) \/ Delete(c, f)
    \/ AttachUpload(c) \/ AttachFails(c) \/ Capabilities(c) \/ CallFails(c)
    \/ AdvanceComplete(c) \/ DeleteTransition(c)

Environment(f) ==
    \/ \E n \in Parts : UploadPart(f, n)
    \/ UploadExpires(f) \/ LeaseOverrun(f)

Clock(f) == CapabilitiesExpire(f) \/ CleanupDue(f) \/ LeaseExpires(f)

WorkerStep(w) ==
    \/ \E d \in Digests : Scan(w, d)
    \/ Replicate(w) \/ ReplicateMistaken(w) \/ MarkReady(w)
    \/ Expire(w) \/ Reject(w) \/ RejectMistaken(w) \/ MarkClean(w) \/ ReadClean(w)
    \/ Purge(w) \/ CleanupReady(w) \/ DeferCleanup(w) \/ JobFindsNothing(w)

FilesNext ==
    \/ \E c \in Calls \ Retirers : CallStep(c)
    \/ \E f \in FileKeys : Environment(f) \/ Clock(f)
    \/ \E w \in Workers : WorkerStep(w) \/ JobFails(w) \/ \E f \in FileKeys : Claim(w, f)

RetirerStep(r) ==
    \/ \E f \in FileKeys : ClaimRetirement(r, f)
    \/ RetireOwnedAvatar(r) \/ RetireDeletes(r) \/ Finish(r) \/ Retry(r)

AvatarNext ==
    \/ \E u \in Users : Set(u) \/ Clear(u) \/ \E f \in FileKeys : Inspect(u, f)
    \/ \E r \in Retirers : RetirerStep(r) \/ RetireTimesOut(r)
    \/ \E f \in FileKeys : RetirementLeaseExpires(f)

Next == (FilesNext /\ UNCHANGED avatarVars) \/ AvatarNext

Spec == AvatarInit /\ [][Next]_vars

-----------------------------------------------------------------------------
(* Properties *)

\* A READY file can be downloaded as long as either data center answers: MarkReady comes
\* after both copies were read back, and no fenced worker, repeated replication or cleanup
\* takes a copy away or leaves another one in its place (Store.Replicate, Worker.Step).
ReadyIsServed ==
    \A f \in FileKeys : row[f].state = "READY" => \A dc \in DCs : Downloadable(f, {dc})

\* What a scanner is to read is there: no creator that lost the race to attach the upload,
\* no late cleanup and no second completion removes a part of a completed upload before the
\* derivative is bound (Service.Create after a failed AttachUpload, Store.ReadUpload).
ScanningIsWhole == \A f \in FileKeys : row[f].state = "SCANNING" => parts[f] = Parts

\* The retirement queue never deletes the current avatar: neither a queued retirement nor
\* a deletion still under way in Files, whose caller may have given up on it, is of the
\* file the profile refers to (Repository.Set reserves retired ids for ever).
NeverRetiresCurrent ==
    avatar # None =>
        /\ retirement[avatar] = None
        /\ \A r \in Retirers : snap[r].file # avatar

\* What rejects an upload for ever is the document, or a failure in the same step of the
\* very attempt that rejects it, of the kinds Inspection's Sound lists. A sandbox that is
\* busy, a converter that is slow, a scanner that is out of date or unclear, a store that
\* does not answer, another worker's derivative or half done replication, and whatever
\* failed in an earlier attempt reject nothing (Worker.Step on ErrRejected).
RejectsOnlyUnacceptable ==
    [][\A f \in FileKeys :
          row'[f].state = "REJECTED" /\ row[f].state # "REJECTED" =>
              ~Acceptable(row[f].upload) \/ faults' > faults]_vars
=============================================================================
