--------------------------- MODULE AvatarsProofs ---------------------------
(***************************************************************************)
(* Proofs about Files and Avatars, for every set of files, calls, workers, *)
(* users and retirement workers and every number of delivery stores.       *)
(*                                                                         *)
(* A process knows something of the file it has read even after another    *)
(* one has fenced it: a file never leaves a terminal state, a derivative   *)
(* is bound once, and a delivery copy of a file that is not terminal is    *)
(* never taken away. ProcOK says what each stage may rely on, FileOK what  *)
(* a row says of the stores.                                               *)
(***************************************************************************)
EXTENDS Avatars, TLAPS

\* The stages after a derivative was bound.
Copying == {"REPLICATING", "replicate", "mark_ready"}

\* Where a call or a worker may stand.
PCs == {"idle", "attach", "capabilities", "complete", "delete", "mark_clean", "replicate",
        "mark_ready", "defer_cleanup"} \cup States

\* Rows of files.uploads.
Rows == [state : States \cup {None}, attached : BOOLEAN, expired : BOOLEAN,
         leased : BOOLEAN, due : BOOLEAN, clean : Digests \cup {None},
         upload : Uploads \cup {None}]

\* What a process has read.
Snaps == [pc : PCs, file : FileKeys \cup {None}, state : States \cup {None},
          current : BOOLEAN, digest : Digests \cup {None}, copied : Nat]

\* What a row r says of the parts ps and the delivery copies cs of its file.
FileOK(r, ps, cs) ==
    /\ r.state # None => r.upload \in Uploads
    /\ r.state = "SCANNING" => ps = Parts
    /\ r.state \in {"REPLICATING", "READY"} => r.clean \in Digests
    /\ r.state \in {None, "UPLOADING", "SCANNING"} => \A dc \in DCs : cs[dc] = None
    /\ r.state = "REPLICATING" => \A dc \in DCs : cs[dc] \in {None, r.clean}
    /\ r.state = "READY" => \A dc \in DCs : cs[dc] = r.clean

\* What a process that stands at s may rely on, of the row r of its file.
ProcOK(s, r, ps, cs) ==
    /\ r.state # None
    /\ s.current => r.state = s.state
    /\ s.pc = "complete" => s.state = "UPLOADING" /\ (s.current => ps = Parts)
    /\ s.pc \in {"SCANNING", "mark_clean"} => s.state = "SCANNING"
    /\ s.pc = "mark_clean" => s.digest \in Digests
    /\ s.pc = "REPLICATING" => s.copied = 0
    /\ s.pc = "replicate" => s.copied < Len(Delivery)
    /\ s.pc \in Copying =>
          /\ s.state = "REPLICATING"
          /\ r.state \in {"REPLICATING", "READY"} \cup Terminal
          /\ r.state \notin Terminal =>
                /\ s.digest = r.clean
                /\ \A dc \in DCs : (dc <= s.copied \/ s.pc = "mark_ready") => cs[dc] = s.digest
    /\ s.pc \in Terminal => r.state \in Terminal
    /\ s.pc = "READY" => r.state \in Terminal \cup {"READY"}

\* The types of what Files has.
FilesTyped ==
    /\ row \in [FileKeys -> Rows]
    /\ parts \in [FileKeys -> SUBSET Parts]
    /\ caps \in [FileKeys -> SUBSET Parts]
    /\ copies \in [FileKeys -> [DCs -> Digests \cup {None}]]
    /\ snap \in [Procs -> Snaps]
    /\ faults \in Nat

\* Every row is right about its stores, every process about its row.
FilesInv ==
    /\ FilesTyped
    /\ \A f \in FileKeys : FileOK(row[f], parts[f], copies[f])
    /\ \A p \in Procs :
          \/ snap[p] = Idle
          \/ /\ snap[p].pc # "idle"
             /\ \E f \in FileKeys :
                   snap[p].file = f /\ ProcOK(snap[p], row[f], parts[f], copies[f])

\* Avatar calls under way, and what a retirement worker is at.
Uses == [file : FileKeys \cup {None}, current : BOOLEAN]

Jobs == [pc : {"idle", "retire", "called", "finish", "retry"}, file : FileKeys \cup {None}]

\* A retirement is for ever, and whoever deletes a file for the User service has one: the
\* worker that claimed it, and the call at Files that outlived it.
AvatarInv ==
    /\ avatar \in FileKeys \cup {None}
    /\ retirement \in [FileKeys -> {None, "queued", "retired"} \cup Retirers]
    /\ use \in [Users -> Uses]
    /\ \A u \in Users : use[u] # NoUse => use[u].file \in FileKeys
    /\ job \in [Retirers -> Jobs]
    /\ \A r \in Retirers :
          job[r] # NoJob => job[r].file \in FileKeys /\ retirement[job[r].file] # None
    /\ \A r \in Retirers :
          snap[r].file # None => snap[r].file \in FileKeys /\ retirement[snap[r].file] # None
    /\ avatar # None => retirement[avatar] = None

\* The inductive invariant.
Inv == FilesInv /\ AvatarInv

-----------------------------------------------------------------------------
(* What the scanning stage says *)

\* The first of at most five checks that fails is one of them.
LEMMA Earliest ==
    ASSUME NEW S \in SUBSET (1..5), S # {}
    PROVE  (CHOOSE i \in S : \A j \in S : i <= j) \in S
<1>1. \E i \in S : \A j \in S : i <= j
  <2>1. CASE 1 \in S
    BY <2>1
  <2>2. CASE 1 \notin S /\ 2 \in S
    BY <2>2
  <2>3. CASE 1 \notin S /\ 2 \notin S /\ 3 \in S
    BY <2>3
  <2>4. CASE 1 \notin S /\ 2 \notin S /\ 3 \notin S /\ 4 \in S
    BY <2>4
  <2>5. CASE 1 \notin S /\ 2 \notin S /\ 3 \notin S /\ 4 \notin S
    <3>1. \A j \in S : j = 5
      BY <2>5
    <3>2. 5 \in S
      BY <3>1, Zenon
    <3>3. \A j \in S : 5 <= j
      BY <3>1
    <3> QED
      BY <3>2, <3>3
  <2> QED
    BY <2>1, <2>2, <2>3, <2>4, <2>5
<1> QED
  BY <1>1, Zenon

\* Checks none of which rejects do not reject.
LEMMA NoneRejects ==
    ASSUME NEW o, Len(o) \in 1..5, \A i \in 1..Len(o) : o[i] # "rejected"
    PROVE  FirstFailure(o) # "rejected"
<1> DEFINE F == {i \in 1..Len(o) : o[i] # "ok"}
           m == CHOOSE i \in F : \A j \in F : i <= j
<1>1. CASE F = {}
  BY <1>1 DEF FirstFailure
<1>2. CASE F # {}
  <2>1. F \in SUBSET (1..5)
    OBVIOUS
  <2>2. m \in F
    <3> HIDE DEF F
    <3> QED
      BY <1>2, <2>1, Earliest
  <2>3. o[m] # "rejected"
    <3> HIDE DEF m
    <3> QED
      BY <2>2, Zenon
  <2> QED
    BY <1>2, <2>3 DEF FirstFailure
<1> QED
  BY <1>1, <1>2

\* The same, of two to five checks.
LEMMA NoneOfThem ==
    ASSUME NEW a, NEW b, NEW c, NEW d, NEW e, a # "rejected", b # "rejected",
           c # "rejected", d # "rejected", e # "rejected"
    PROVE  /\ FirstFailure(<<a, b>>) # "rejected"
           /\ FirstFailure(<<a, b, c>>) # "rejected"
           /\ FirstFailure(<<a, b, c, d>>) # "rejected"
           /\ FirstFailure(<<a, b, c, d, e>>) # "rejected"
<1>1. Len(<<a, b>>) = 2 /\ \A i \in 1..2 : <<a, b>>[i] # "rejected"
  OBVIOUS
<1>2. Len(<<a, b, c>>) = 3 /\ \A i \in 1..3 : <<a, b, c>>[i] # "rejected"
  OBVIOUS
<1>3. Len(<<a, b, c, d>>) = 4 /\ \A i \in 1..4 : <<a, b, c, d>>[i] # "rejected"
  OBVIOUS
<1>4. Len(<<a, b, c, d, e>>) = 5 /\ \A i \in 1..5 : <<a, b, c, d, e>>[i] # "rejected"
  OBVIOUS
<1>5. 2 \in 1..5 /\ 3 \in 1..5 /\ 4 \in 1..5 /\ 5 \in 1..5
  OBVIOUS
<1> QED
  BY <1>1, <1>2, <1>3, <1>4, <1>5, NoneRejects, Zenon

\* No sound attempt rejects an acceptable upload: a converter that runs out of time, a busy
\* sandbox, old signatures and a scanner that ran into a limit are all "unavailable".
LEMMA AcceptableIsNotRejected ==
    ASSUME NEW u, Acceptable(u)
    PROVE  "rejected" \notin Verdicts(u, TRUE)
<1> SUFFICES ASSUME NEW c \in Chance, Sound(c)
             PROVE  Verdict(u, c) # "rejected"
  BY Zenon DEF Verdicts
<1>0. /\ c.copied /\ c.tool # "dies" /\ ~c.cut /\ c.readable /\ c.same
      /\ c.tool \in {"done", "times_out"}
  BY DEF Sound, Chance
<1>1. Header(1) = "ok"
  BY MaxPagesAssumption DEF Header
<1>2. /\ u.converts /\ u.fits /\ u.container /\ ~u.infected
      /\ u.format \notin Images => ~u.encrypted /\ Header(u.pages) = "ok"
  BY DEF Acceptable, Header
<1>3. Convert(u, c.tool) # "rejected"
  <2>1. CASE u.format \in Images
    <3>1. DecodeImage(u, c.tool) # "rejected" /\ Header(1) # "rejected"
      BY <1>0, <1>1, <1>2 DEF DecodeImage
    <3> QED
      BY <3>1, <2>1, NoneOfThem, Zenon DEF Convert
  <2>2. CASE u.format \notin Images
    <3>1. Run(u, c.tool) # "rejected"
      BY <1>0, <1>2 DEF Run
    <3>2. /\ (IF u.encrypted THEN "rejected" ELSE "ok") # "rejected"
          /\ Header(u.pages) # "rejected"
          /\ (IF u.fits THEN "ok" ELSE "rejected") # "rejected"
      BY <2>2, <1>2
    <3> QED
      BY <3>1, <3>2, <2>2, NoneOfThem, Zenon DEF Convert
  <2> QED
    BY <2>1, <2>2
<1>4. FirstFailure(<<IF c.copied THEN "ok" ELSE "rejected", Validate(u), Convert(u, c.tool)>>)
         # "rejected"
  <2>1. Validate(u) # "rejected" /\ (IF c.copied THEN "ok" ELSE "rejected") # "rejected"
    BY <1>0, <1>2 DEF Validate
  <2> QED
    BY <2>1, <1>3, NoneOfThem, Zenon
<1>5. ServeHTTP(u, c.busy, c.copied, c.tool) # 422
  BY <1>4 DEF ServeHTTP
<1>6. Reconstruct(u, c.cut) # "rejected"
  BY <1>0, <1>1, <1>2 DEF Reconstruct
<1>7. Clean(u, c) # "rejected"
  BY <1>5, <1>6 DEF Clean
<1>8. ASSUME NEW reply \in {"limit", "OK"}
      PROVE  Scanned(c.signatures, c.readable, reply) # "rejected"
  <2> DEFINE said == CASE reply = "OK" -> "ok"
                       [] reply = "FOUND" -> "rejected"
                       [] OTHER -> "unavailable"
  <2>1. Fresh(c.signatures) # "rejected" /\ (IF c.readable THEN "ok" ELSE "rejected") # "rejected"
    BY <1>0 DEF Fresh
  <2>2. said # "rejected"
    BY <1>8
  <2>3. FirstFailure(<<Fresh(c.signatures), IF c.readable THEN "ok" ELSE "rejected", said>>)
           # "rejected"
    <3> HIDE DEF said
    <3> QED
      BY <2>1, <2>2, NoneOfThem, Zenon
  <2> QED
    BY <2>3 DEF Scanned
<1>9. /\ Reply(u.infected, c.clear) \in {"limit", "OK"}
      /\ Reply(FALSE, c.clear) \in {"limit", "OK"}
  BY <1>2 DEF Reply
<1>10. Matching(c.same) # "rejected" /\ PutClean(c.readable, c.same) # "rejected"
  <2>1. Matching(c.same) # "rejected" /\ (IF c.readable THEN "ok" ELSE "rejected") # "rejected"
    BY <1>0 DEF Matching
  <2> QED
    BY <2>1, NoneOfThem, Zenon DEF PutClean
<1> QED
  BY <1>7, <1>8, <1>9, <1>10, NoneOfThem, Zenon DEF Verdict

-----------------------------------------------------------------------------
(* A step at one file *)

\* How a row may change: a terminal state stays one, a derivative is bound once.
Moves(r, r2) ==
    /\ r.state # None => r2.state # None
    /\ r.state \in Terminal => r2.state \in Terminal
    /\ r.state = "READY" => r2.state \in Terminal \cup {"READY"}
    /\ r.state = "REPLICATING" => r2.state \in {"REPLICATING", "READY"} \cup Terminal
    /\ r.state \in {"REPLICATING", "READY"} => r2.clean = r.clean

\* What stays in the stores while the file moves from row r to row r2.
StoresKept(r, r2, ps, ps2, cs, cs2) ==
    /\ r.state = "UPLOADING" /\ ps = Parts => ps2 = Parts
    /\ r2.state \notin Terminal => \A dc \in DCs : cs[dc] # None => cs2[dc] = cs[dc]

\* What RejectsOnlyUnacceptable says of one file.
Rejected(f) ==
    row'[f].state = "REJECTED" /\ row[f].state # "REJECTED" =>
        ~Acceptable(row[f].upload) \/ faults' > faults

\* A step of the processes P (one, or none) that is about file f only. Whoever else has
\* read f is fenced when its state changes.
At(P, f) ==
    /\ FilesTyped'
    /\ \A g \in FileKeys \ {f} :
          row'[g] = row[g] /\ parts'[g] = parts[g] /\ copies'[g] = copies[g]
    /\ Moves(row[f], row'[f])
    /\ StoresKept(row[f], row'[f], parts[f], parts'[f], copies[f], copies'[f])
    /\ Rejected(f)
    /\ FileOK(row'[f], parts'[f], copies'[f])
    /\ \A q \in Procs \ P :
          \/ snap'[q] = snap[q] /\ (snap[q].file = f => row'[f].state = row[f].state)
          \/ snap[q].file = f /\ snap'[q] = [snap[q] EXCEPT !.current = FALSE]
    /\ \A p \in P :
          \/ snap'[p] = Idle
          \/ /\ snap'[p].pc # "idle" /\ snap'[p].file = f
             /\ ProcOK(snap'[p], row'[f], parts'[f], copies'[f])

\* A process keeps what it may rely on, fenced or not, whatever others do to its file.
LEMMA ProcKept ==
    ASSUME NEW s \in Snaps, NEW r \in Rows, NEW r2 \in Rows, NEW ps, NEW ps2, NEW cs, NEW cs2,
           ProcOK(s, r, ps, cs), FileOK(r, ps, cs), Moves(r, r2),
           StoresKept(r, r2, ps, ps2, cs, cs2),
           NEW s2, (s2 = s /\ r2.state = r.state) \/ s2 = [s EXCEPT !.current = FALSE]
    PROVE  ProcOK(s2, r2, ps2, cs2)
<1>1. /\ s2.pc = s.pc /\ s2.state = s.state /\ s2.digest = s.digest /\ s2.copied = s.copied
      /\ s2.current => s.current /\ r2.state = r.state
  BY DEF Snaps
<1>2. /\ r2.state # None
      /\ s2.current => r2.state = s2.state
      /\ s2.pc = "complete" => s2.state = "UPLOADING"
      /\ s2.pc \in {"SCANNING", "mark_clean"} => s2.state = "SCANNING"
      /\ s2.pc = "mark_clean" => s2.digest \in Digests
      /\ s2.pc = "REPLICATING" => s2.copied = 0
      /\ s2.pc = "replicate" => s2.copied < Len(Delivery)
      /\ s2.pc \in Terminal => r2.state \in Terminal
      /\ s2.pc = "READY" => r2.state \in Terminal \cup {"READY"}
  BY <1>1 DEF ProcOK, Moves
<1>3. s2.pc = "complete" /\ s2.current => ps2 = Parts
  BY <1>1 DEF ProcOK, StoresKept
<1>4. ASSUME s2.pc \in Copying
      PROVE  /\ s2.state = "REPLICATING"
             /\ r2.state \in {"REPLICATING", "READY"} \cup Terminal
             /\ r2.state \notin Terminal =>
                   /\ s2.digest = r2.clean
                   /\ \A dc \in DCs :
                        (dc <= s2.copied \/ s2.pc = "mark_ready") => cs2[dc] = s2.digest
  <2>1. s.state = "REPLICATING" /\ r.state \in {"REPLICATING", "READY"} \cup Terminal
    BY <1>1, <1>4 DEF ProcOK
  <2>2. r2.state \in {"REPLICATING", "READY"} \cup Terminal
    BY <2>1 DEF Moves
  <2>3. ASSUME r2.state \notin Terminal
        PROVE  /\ s2.digest = r2.clean
               /\ \A dc \in DCs :
                     (dc <= s2.copied \/ s2.pc = "mark_ready") => cs2[dc] = s2.digest
    <3>1. r.state \notin Terminal
      BY <2>3 DEF Moves
    <3>2. s.digest = r.clean /\ r2.clean = r.clean /\ r.clean \in Digests
      BY <1>1, <1>4, <2>1, <3>1 DEF ProcOK, Moves, FileOK
    <3>3. ASSUME NEW dc \in DCs, dc <= s2.copied \/ s2.pc = "mark_ready"
          PROVE  cs2[dc] = s2.digest
      <4>1. cs[dc] = s.digest
        BY <1>1, <1>4, <3>1, <3>3 DEF ProcOK
      <4>2. cs[dc] # None
        BY <4>1, <3>2, FilesAssumption
      <4> QED
        BY <4>1, <4>2, <1>1, <2>3 DEF StoresKept
    <3> QED
      BY <3>2, <3>3, <1>1
  <2> QED
    BY <2>1, <2>2, <2>3, <1>1
<1> QED
  BY <1>2, <1>3, <1>4 DEF ProcOK

\* A step at one file keeps the invariant.
LEMMA AtKeeps ==
    ASSUME FilesInv, NEW P \in SUBSET Procs, NEW f \in FileKeys, At(P, f)
    PROVE  FilesInv'
<1>1. FilesTyped /\ FilesTyped'
  BY DEF FilesInv, At
<1>2. ASSUME NEW g \in FileKeys
      PROVE  FileOK(row'[g], parts'[g], copies'[g])
  <2>1. CASE g = f
    BY <2>1 DEF At
  <2>2. CASE g # f
    <3>1. FileOK(row[g], parts[g], copies[g])
      BY DEF FilesInv
    <3> QED
      BY <3>1, <2>2 DEF At
  <2> QED
    BY <2>1, <2>2
<1>3. ASSUME NEW q \in Procs
      PROVE  \/ snap'[q] = Idle
             \/ /\ snap'[q].pc # "idle"
                /\ \E g \in FileKeys :
                      snap'[q].file = g /\ ProcOK(snap'[q], row'[g], parts'[g], copies'[g])
  <2>1. CASE q \in P
    BY <2>1 DEF At
  <2>2. CASE q \notin P /\ snap[q] = Idle
    <3>1. snap[q].file # f
      BY <2>2, FilesAssumption DEF Idle
    <3> QED
      BY <2>2, <3>1, Zenon DEF At
  <2>3. CASE q \notin P /\ snap[q] # Idle
    <3>1. PICK g \in FileKeys : /\ snap[q].file = g
                                /\ ProcOK(snap[q], row[g], parts[g], copies[g])
      BY <2>3 DEF FilesInv
    <3>2. snap[q].pc # "idle"
      BY <2>3 DEF FilesInv
    <3>3. snap[q] \in Snaps /\ row[g] \in Rows /\ row'[g] \in Rows
      BY <1>1 DEF FilesTyped
    <3>4. snap'[q].pc # "idle" /\ snap'[q].file = g
      BY <2>3, <3>1, <3>2, <3>3, Zenon DEF At, Snaps
    <3>5. CASE g = f
      <4>1. \/ snap'[q] = snap[q] /\ row'[g].state = row[g].state
            \/ snap'[q] = [snap[q] EXCEPT !.current = FALSE]
        BY <2>3, <3>1, <3>5 DEF At
      <4>2. FileOK(row[g], parts[g], copies[g])
        BY DEF FilesInv
      <4>3. /\ Moves(row[g], row'[g])
            /\ StoresKept(row[g], row'[g], parts[g], parts'[g], copies[g], copies'[g])
        BY <3>5 DEF At
      <4>4. ProcOK(snap'[q], row'[g], parts'[g], copies'[g])
        BY <3>1, <3>3, <4>1, <4>2, <4>3, ProcKept
      <4> QED
        BY <4>4, <3>4
    <3>6. CASE g # f
      <4>1. snap'[q] = snap[q]
        BY <2>3, <3>1, <3>6, Zenon DEF At
      <4>2. row'[g] = row[g] /\ parts'[g] = parts[g] /\ copies'[g] = copies[g]
        BY <3>6 DEF At
      <4>3. ProcOK(snap'[q], row'[g], parts'[g], copies'[g])
        BY <4>1, <4>2, <3>1
      <4> QED
        BY <4>3, <3>4
    <3> QED
      BY <3>5, <3>6
  <2> QED
    BY <2>1, <2>2, <2>3
<1> QED
  BY <1>1, <1>2, <1>3 DEF FilesInv

-----------------------------------------------------------------------------
(* The two kinds of steps of a process *)

\* A process that is not idle has read a file.
LEMMA Standing ==
    ASSUME FilesInv, NEW p \in Procs, snap[p] # Idle
    PROVE  /\ snap[p] \in Snaps /\ snap[p].pc # "idle" /\ snap[p].file \in FileKeys
           /\ row[snap[p].file] \in Rows
           /\ FileOK(row[snap[p].file], parts[snap[p].file], copies[snap[p].file])
           /\ ProcOK(snap[p], row[snap[p].file], parts[snap[p].file], copies[snap[p].file])
<1>1. snap[p].pc # "idle" /\ \E f \in FileKeys :
         snap[p].file = f /\ ProcOK(snap[p], row[f], parts[f], copies[f])
  BY DEF FilesInv
<1>2. snap[p] \in Snaps /\ \A f \in FileKeys : row[f] \in Rows
  BY DEF FilesInv, FilesTyped
<1> QED
  BY <1>1, <1>2 DEF FilesInv

\* A write of the row, which fences every other process that has read it.
LEMMA WriteAt ==
    ASSUME FilesInv, NEW p \in Procs, NEW f \in FileKeys, NEW r \in Rows, NEW next \in Snaps,
           row' = [row EXCEPT ![f] = r], Written(p, f, next),
           parts' = parts, caps' = caps, copies' = copies, faults' \in Nat,
           Moves(row[f], r), FileOK(r, parts[f], copies[f]),
           (r.state = "REJECTED" /\ row[f].state # "REJECTED") =>
               (~Acceptable(row[f].upload) \/ faults' > faults),
           next = Idle \/ (/\ next.pc # "idle" /\ next.file = f
                           /\ ProcOK(next, r, parts[f], copies[f]))
    PROVE  At({p}, f)
<1>1. /\ row \in [FileKeys -> Rows] /\ snap \in [Procs -> Snaps] /\ caps \in [FileKeys -> SUBSET Parts]
      /\ parts \in [FileKeys -> SUBSET Parts] /\ copies \in [FileKeys -> [DCs -> Digests \cup {None}]]
  BY DEF FilesInv, FilesTyped
<1>2. /\ row' \in [FileKeys -> Rows] /\ row'[f] = r
      /\ \A g \in FileKeys \ {f} : row'[g] = row[g]
  BY <1>1
<1>3. ASSUME NEW q \in Procs
      PROVE  [snap[q] EXCEPT !.current = FALSE] \in Snaps
  <2>1. snap[q] \in Snaps
    BY <1>1
  <2> QED
    BY <2>1, Zenon DEF Snaps
<1>4. snap' \in [Procs -> Snaps] /\ snap'[p] = next
  BY <1>1, <1>3 DEF Written
<1>5. ASSUME NEW q \in Procs \ {p}
      PROVE  \/ snap'[q] = snap[q] /\ (snap[q].file = f => row'[f].state = row[f].state)
             \/ snap[q].file = f /\ snap'[q] = [snap[q] EXCEPT !.current = FALSE]
  BY DEF Written
<1>6. FilesTyped'
  BY <1>1, <1>2, <1>4 DEF FilesTyped
<1>7. StoresKept(row[f], row'[f], parts[f], parts'[f], copies[f], copies'[f])
  BY DEF StoresKept
<1>8. Rejected(f)
  BY <1>2 DEF Rejected
<1> QED
  BY <1>2, <1>4, <1>5, <1>6, <1>7, <1>8 DEF At

\* A step that leaves the row alone and may change what the stores have of the file.
LEMMA StayAt ==
    ASSUME FilesInv, NEW p \in Procs, NEW f \in FileKeys, NEW next \in Snaps,
           NEW ps \in SUBSET Parts, NEW cs \in [DCs -> Digests \cup {None}],
           row' = row, snap' = [snap EXCEPT ![p] = next],
           parts' = [parts EXCEPT ![f] = ps], copies' = [copies EXCEPT ![f] = cs],
           caps' \in [FileKeys -> SUBSET Parts], faults' \in Nat,
           StoresKept(row[f], row[f], parts[f], ps, copies[f], cs), FileOK(row[f], ps, cs),
           next = Idle \/ (next.pc # "idle" /\ next.file = f /\ ProcOK(next, row[f], ps, cs))
    PROVE  At({p}, f)
<1>1. /\ row \in [FileKeys -> Rows] /\ snap \in [Procs -> Snaps]
      /\ parts \in [FileKeys -> SUBSET Parts] /\ copies \in [FileKeys -> [DCs -> Digests \cup {None}]]
  BY DEF FilesInv, FilesTyped
<1>2. /\ parts' \in [FileKeys -> SUBSET Parts] /\ parts'[f] = ps
      /\ copies' \in [FileKeys -> [DCs -> Digests \cup {None}]] /\ copies'[f] = cs
      /\ \A g \in FileKeys \ {f} : parts'[g] = parts[g] /\ copies'[g] = copies[g]
  BY <1>1
<1>3. /\ snap' \in [Procs -> Snaps] /\ snap'[p] = next
      /\ \A q \in Procs \ {p} : snap'[q] = snap[q]
  BY <1>1
<1>4. FilesTyped'
  BY <1>1, <1>2, <1>3 DEF FilesTyped
<1>5. Moves(row[f], row'[f]) /\ Rejected(f)
  BY DEF Moves, Rejected
<1> QED
  BY <1>2, <1>3, <1>4, <1>5 DEF At

\* The same, for a step that changes nothing but what the process stands at.
LEMMA SnapAt ==
    ASSUME FilesInv, NEW p \in Procs, NEW f \in FileKeys, NEW next \in Snaps,
           snap' = [snap EXCEPT ![p] = next], row' = row, parts' = parts, copies' = copies,
           caps' \in [FileKeys -> SUBSET Parts], faults' \in Nat,
           next = Idle \/ (/\ next.pc # "idle" /\ next.file = f
                           /\ ProcOK(next, row[f], parts[f], copies[f]))
    PROVE  At({p}, f)
<1>1. FilesTyped
  BY DEF FilesInv
<1>2. /\ snap' \in [Procs -> Snaps] /\ snap'[p] = next
      /\ \A q \in Procs \ {p} : snap'[q] = snap[q]
  BY <1>1 DEF FilesTyped
<1>3. FilesTyped'
  BY <1>1, <1>2 DEF FilesTyped
<1>4. Moves(row[f], row'[f]) /\ Rejected(f)
  BY DEF Moves, Rejected
<1>5. StoresKept(row[f], row'[f], parts[f], parts'[f], copies[f], copies'[f])
  BY DEF StoresKept
<1>6. FileOK(row'[f], parts'[f], copies'[f])
  BY DEF FilesInv
<1> QED
  BY <1>2, <1>3, <1>4, <1>5, <1>6 DEF At

\* A process at rest.
LEMMA IdleTyped == Idle \in Snaps
  BY DEF Idle, Snaps, PCs

\* A call or a job that ends without a write.
LEMMA DoneAt ==
    ASSUME FilesInv, NEW p \in Procs, snap[p] # Idle, Done(p),
           row' = row, parts' = parts, copies' = copies,
           caps' \in [FileKeys -> SUBSET Parts], faults' \in Nat
    PROVE  At({p}, snap[p].file)
  BY Standing, IdleTyped, SnapAt, Zenon DEF Done

\* The types of what most steps leave alone.
LEMMA Unchanged ==
    ASSUME FilesInv
    PROVE  faults \in Nat /\ caps \in [FileKeys -> SUBSET Parts]
  BY DEF FilesInv, FilesTyped

\* Repository.Transition, given what the new state says.
LEMMA TransitionAt ==
    ASSUME FilesInv, NEW p \in Procs, snap[p] # Idle,
           NEW to \in {"SCANNING", "READY"} \cup Terminal, Transition(p, to),
           parts' = parts, caps' = caps, copies' = copies, faults' \in Nat,
           to = "SCANNING" /\ snap[p].current => parts[snap[p].file] = Parts,
           to = "READY" => snap[p].pc = "mark_ready",
           to = "REJECTED" /\ Holds(p) =>
               (~Acceptable(row[snap[p].file].upload) \/ faults' > faults)
    PROVE  At({p}, snap[p].file)
<1> DEFINE f == snap[p].file
           r == row[f]
<1>1. /\ snap[p] \in Snaps /\ f \in FileKeys /\ r \in Rows
      /\ FileOK(r, parts[f], copies[f]) /\ ProcOK(snap[p], r, parts[f], copies[f])
  BY Standing
<1>2. CASE ~(Holds(p) /\ CanTransition(snap[p].state, to))
  <2>1. Done(p) /\ row' = row
    BY <1>2 DEF Transition
  <2> QED
    BY <2>1, DoneAt, Unchanged
<1>3. CASE Holds(p) /\ CanTransition(snap[p].state, to)
  <2> DEFINE r2 == [r EXCEPT !.state = to, !.leased = FALSE,
                             !.due = IF to \in Terminal THEN FALSE ELSE r.due]
  <2>1. row \in [FileKeys -> Rows]
    BY DEF FilesInv, FilesTyped
  <2>2. row' = [row EXCEPT ![f] = r2] /\ Written(p, f, Idle)
    BY <1>1, <1>3, <2>1, Zenon DEF Transition
  <2>3. /\ r2 \in Rows /\ r2.state = to /\ r2.clean = r.clean /\ r2.upload = r.upload
    BY <1>1, Zenon DEF Rows, States, InProgress
  <2> HIDE DEF r2
  <2>4. r.state = snap[p].state /\ snap[p].current
    BY <1>3 DEF Holds
  <2>5. Moves(r, r2)
    BY <1>1, <1>3, <2>3, <2>4, FilesAssumption DEF Moves, CanTransition, States, InProgress, Terminal
  <2>6. /\ r.state # None => r.upload \in Uploads
        /\ r.state # None
        /\ to # None /\ to # "UPLOADING" /\ to # "REPLICATING"
    BY <1>1, FilesAssumption, Zenon DEF FileOK, ProcOK, States, InProgress, Terminal
  <2>7. ASSUME to = "SCANNING"
        PROVE  parts[f] = Parts /\ \A dc \in DCs : copies[f][dc] = None
    BY <1>1, <1>3, <2>4, <2>7, Zenon DEF CanTransition, FileOK, Terminal
  <2>8. ASSUME to = "READY"
        PROVE  r.clean \in Digests /\ \A dc \in DCs : copies[f][dc] = r.clean
    <3>1. snap[p].pc = "mark_ready" /\ r.state = "REPLICATING"
      BY <1>3, <2>4, <2>8 DEF CanTransition, Terminal
    <3> QED
      BY <1>1, <3>1, Zenon DEF FileOK, ProcOK, Copying, Terminal
  <2>9. FileOK(r2, parts[f], copies[f])
    BY <2>3, <2>6, <2>7, <2>8, Zenon DEF FileOK
  <2> QED
    BY <1>1, <1>3, <2>2, <2>3, <2>5, <2>9, IdleTyped, WriteAt, Zenon
<1> QED
  BY <1>2, <1>3

\* A step of process p at one file.
Acts(p) == \E f \in FileKeys : At({p}, f)

-----------------------------------------------------------------------------
(* Calls *)

\* Repository.Create: a row that is inserted was read by nobody.
LEMMA CreateActs ==
    ASSUME FilesInv, NEW c \in Procs, NEW f \in FileKeys, NEW u \in Uploads, Create(c, f, u)
    PROVE  Acts(c)
<1> DEFINE r == row[f]
           r2 == [r EXCEPT !.state = IF r.state = None THEN "UPLOADING" ELSE r.state, !.upload = u]
           next == IF r2.state # "UPLOADING" \/ r2.expired THEN Idle
                   ELSE Has(IF r2.attached THEN "capabilities" ELSE "attach", f, "UPLOADING")
<1>1. FilesTyped /\ r \in Rows /\ FileOK(r, parts[f], copies[f])
  BY DEF FilesInv, FilesTyped
<1>2. row' = [row EXCEPT ![f] = r2] /\ parts' = parts /\ caps' = caps /\ copies' = copies
      /\ faults' = faults
  BY <1>1, Zenon DEF Create, FilesTyped, Stores
<1>3. r2 \in Rows /\ r2.clean = r.clean /\ r2.upload = u
      /\ r2.state = IF r.state = None THEN "UPLOADING" ELSE r.state
  BY <1>1, Zenon DEF Rows, States, InProgress
<1>4. row' \in [FileKeys -> Rows] /\ row'[f] = r2 /\ \A g \in FileKeys \ {f} : row'[g] = row[g]
  BY <1>1, <1>2, <1>3 DEF FilesTyped
<1>5. snap' = [snap EXCEPT ![c] = next]
  BY <1>4 DEF Create
<1>6. next \in Snaps
  <2>1. Has(IF r2.attached THEN "capabilities" ELSE "attach", f, "UPLOADING") \in Snaps
    BY Zenon DEF Has, Idle, Snaps, PCs, States, InProgress
  <2> QED
    BY <2>1, IdleTyped
<1>7. next = Idle \/ (/\ next.pc # "idle" /\ next.file = f
                      /\ ProcOK(next, r2, parts[f], copies[f]))
  <2>1. CASE r2.state # "UPLOADING" \/ r2.expired
    BY <2>1
  <2>2. CASE ~(r2.state # "UPLOADING" \/ r2.expired)
    <3>1. /\ next.pc \in {"capabilities", "attach"} /\ next.file = f
          /\ next.state = "UPLOADING"
      BY <2>2 DEF Has, Idle
    <3>2. r2.state = "UPLOADING"
      BY <2>2
    <3> HIDE DEF next, r2
    <3> QED
      BY <3>1, <3>2, FilesAssumption DEF ProcOK, Copying, Terminal, States, InProgress
  <2> QED
    BY <2>1, <2>2
<1> HIDE DEF r2, next
<1>8. FilesTyped'
  BY <1>1, <1>2, <1>4, <1>5, <1>6 DEF FilesTyped
<1>9. Moves(r, r2) /\ StoresKept(r, r2, parts[f], parts[f], copies[f], copies[f])
  BY <1>3, FilesAssumption DEF Moves, StoresKept, Terminal, States, InProgress
<1>10. FileOK(r2, parts[f], copies[f])
  BY <1>1, <1>3, FilesAssumption DEF FileOK, States, InProgress
<1>11. Rejected(f)
  BY <1>3, <1>4 DEF Rejected
<1>12. ASSUME NEW q \in Procs \ {c}
       PROVE  snap'[q] = snap[q] /\ (snap[q].file = f => row'[f].state = row[f].state)
  <2>1. snap'[q] = snap[q]
    BY <1>1, <1>5 DEF FilesTyped
  <2>2. ASSUME snap[q].file = f
        PROVE  r.state # None
    <3>1. Idle.file = None /\ f # None
      BY FilesAssumption DEF Idle
    <3>2. snap[q] # Idle
      BY <2>2, <3>1, Zenon
    <3> QED
      BY <2>2, <3>2, Standing, Zenon DEF ProcOK
  <2> QED
    BY <2>1, <2>2, <1>3, <1>4
<1>13. snap'[c] = next
  BY <1>1, <1>5 DEF FilesTyped
<1> QED
  BY <1>2, <1>4, <1>7, <1>8, <1>9, <1>10, <1>11, <1>12, <1>13 DEF At, Acts

\* The row is read again after an attachment that failed: the call goes on or ends.
LEMMA ReadAgainActs ==
    ASSUME FilesInv, NEW c \in Procs, snap[c].pc = "attach", ReadAgain(c),
           row' = row, UNCHANGED <<Stores, faults>>
    PROVE  Acts(c)
<1> DEFINE f == snap[c].file
           next == [snap[c] EXCEPT !.pc = "capabilities"]
<1>0. snap[c] # Idle
  BY DEF Idle
<1>1. /\ snap[c] \in Snaps /\ f \in FileKeys /\ FilesTyped
      /\ ProcOK(snap[c], row[f], parts[f], copies[f])
  BY <1>0, Standing DEF FilesInv
<1>2. CASE Open(f)
  <2>1. snap' = [snap EXCEPT ![c] = next]
    BY <1>1, <1>2 DEF ReadAgain, Step, FilesTyped
  <2>2. /\ next \in Snaps /\ next.pc = "capabilities" /\ next.file = f
        /\ next.state = snap[c].state /\ next.current = snap[c].current
    BY <1>1 DEF Snaps, PCs
  <2> HIDE DEF next
  <2>3. ProcOK(next, row[f], parts[f], copies[f])
    BY <1>1, <2>2 DEF ProcOK, Copying, Terminal
  <2>4. At({c}, f)
    BY <1>1, <2>1, <2>2, <2>3, SnapAt, Unchanged, Zenon DEF Stores
  <2> QED
    BY <1>1, <2>4 DEF Acts
<1>3. CASE ~Open(f)
  <2>1. Done(c)
    BY <1>3 DEF ReadAgain
  <2>2. At({c}, f)
    BY <1>0, <2>1, DoneAt, Unchanged DEF Stores
  <2> QED
    BY <1>1, <2>2 DEF Acts
<1> QED
  BY <1>2, <1>3

\* Repository.AttachUpload
LEMMA AttachUploadActs ==
    ASSUME FilesInv, NEW c \in Procs, AttachUpload(c)
    PROVE  Acts(c)
<1> DEFINE f == snap[c].file
           next == [snap[c] EXCEPT !.pc = "capabilities"]
           r == row[f]
           r2 == [r EXCEPT !.attached = TRUE]
<1>0. snap[c].pc = "attach" /\ snap[c] # Idle
  BY DEF AttachUpload, Idle
<1>1. /\ snap[c] \in Snaps /\ f \in FileKeys /\ FilesTyped /\ r \in Rows
      /\ ProcOK(snap[c], r, parts[f], copies[f]) /\ FileOK(r, parts[f], copies[f])
  BY <1>0, Standing DEF FilesInv
<1>2. CASE Attachable(c)
  <2>1. row' = [row EXCEPT ![f] = r2] /\ Written(c, f, next)
    BY <1>1, <1>2 DEF AttachUpload, FilesTyped
  <2>2. /\ next \in Snaps /\ next.pc = "capabilities" /\ next.file = f
        /\ next.state = snap[c].state /\ next.current = snap[c].current
    BY <1>1 DEF Snaps, PCs
  <2>3. r2 \in Rows /\ r2.state = r.state /\ r2.clean = r.clean /\ r2.upload = r.upload
    BY <1>1, Zenon DEF Rows
  <2> HIDE DEF next, r2
  <2>4. ProcOK(next, r2, parts[f], copies[f])
    BY <1>1, <2>2, <2>3, Zenon DEF ProcOK, Copying, Terminal
  <2>5. Moves(r, r2) /\ FileOK(r2, parts[f], copies[f])
    BY <1>1, <2>3, Zenon DEF Moves, FileOK
  <2>6. At({c}, f)
    BY <1>1, <2>1, <2>2, <2>3, <2>4, <2>5, WriteAt, Unchanged, Zenon DEF AttachUpload, Stores
  <2> QED
    BY <1>1, <2>6 DEF Acts
<1>3. CASE ~Attachable(c)
  BY <1>0, <1>3, ReadAgainActs DEF AttachUpload
<1> QED
  BY <1>2, <1>3

\* Every step of a call of the owner is at one file.
LEMMA CallActs ==
    ASSUME FilesInv, NEW c \in Procs, CallStep(c)
    PROVE  Acts(c)
<1> DEFINE f == snap[c].file
<1>1. ASSUME NEW g \in FileKeys, NEW pc \in {"complete", "delete"},
             row[g].state # None, Reads(c, g, pc), row' = row, UNCHANGED <<Stores, faults>>,
             pc = "complete" => row[g].state = "UPLOADING" /\ parts[g] = Parts
      PROVE  Acts(c)
  <2> DEFINE next == Has(pc, g, row[g].state)
  <2>1. row[g] \in Rows
    BY DEF FilesInv, FilesTyped
  <2>2. /\ next \in Snaps /\ next.pc = pc /\ next.file = g /\ next.state = row[g].state
    BY <1>1, <2>1, Zenon DEF Has, Idle, Snaps, PCs, Rows
  <2>3. snap' = [snap EXCEPT ![c] = next]
    BY <1>1 DEF Reads
  <2> HIDE DEF next
  <2>4. ProcOK(next, row[g], parts[g], copies[g])
    BY <1>1, <2>2 DEF ProcOK, Copying, Terminal
  <2>5. At({c}, g)
    BY <1>1, <2>2, <2>3, <2>4, SnapAt, Unchanged, Zenon DEF Stores
  <2> QED
    BY <2>5 DEF Acts
<1>2. ASSUME NEW g \in FileKeys, Complete(c, g)
      PROVE  Acts(c)
  <2>1. row[g].state = "UPLOADING" /\ "UPLOADING" # None
    BY <1>2, FilesAssumption DEF Complete, Open, States, InProgress
  <2> QED
    BY <2>1, <1>1, <1>2 DEF Complete
<1>3. ASSUME NEW g \in FileKeys, Delete(c, g)
      PROVE  Acts(c)
  BY <1>1, <1>3 DEF Delete
<1>4. ASSUME snap[c] # Idle, Done(c), row' = row, parts' = parts, copies' = copies,
             caps' \in [FileKeys -> SUBSET Parts], faults' = faults
      PROVE  Acts(c)
  BY <1>4, DoneAt, Standing, Unchanged DEF Acts
<1>5. CASE AttachFails(c)
  BY <1>5, ReadAgainActs DEF AttachFails
<1>6. CASE Capabilities(c)
  <2>1. snap[c] # Idle
    BY <1>6 DEF Capabilities, Idle
  <2>2. caps' = [caps EXCEPT ![f] = caps[f] \cup (Parts \ parts[f])]
    BY <1>6 DEF Capabilities
  <2>3. caps' \in [FileKeys -> SUBSET Parts]
    BY <2>2, Unchanged, Zenon
  <2> QED
    BY <2>1, <2>3, <1>4, <1>6 DEF Capabilities
<1>7. CASE CallFails(c)
  BY <1>4, <1>7, Unchanged DEF CallFails, Stores
<1>8. CASE AdvanceComplete(c)
  <2>1. snap[c] # Idle /\ snap[c].pc = "complete"
    BY <1>8 DEF AdvanceComplete, Idle
  <2>2. snap[c].current => parts[f] = Parts
    BY <2>1, Standing DEF ProcOK
  <2>3. At({c}, f)
    BY <1>8, <2>1, <2>2, TransitionAt, Unchanged DEF AdvanceComplete, Stores, Terminal
  <2> QED
    BY <2>1, <2>3, Standing DEF Acts
<1>9. CASE DeleteTransition(c)
  <2>1. snap[c] # Idle
    BY <1>9 DEF DeleteTransition, Idle
  <2>2. At({c}, f)
    BY <1>9, <2>1, TransitionAt, Unchanged DEF DeleteTransition, Stores, Terminal
  <2> QED
    BY <2>1, <2>2, Standing DEF Acts
<1> QED
  BY <1>2, <1>3, <1>5, <1>6, <1>7, <1>8, <1>9, CreateActs, AttachUploadActs DEF CallStep

-----------------------------------------------------------------------------
(* Workers *)

\* Repository.Claim
LEMMA ClaimActs ==
    ASSUME FilesInv, NEW w \in Procs, NEW f \in FileKeys, Claim(w, f)
    PROVE  Acts(w)
<1> DEFINE r == row[f]
           r2 == [r EXCEPT !.leased = TRUE]
           next == [Has(r.state, f, r.state) EXCEPT !.digest = r.clean]
<1>1. FilesTyped /\ r \in Rows /\ FileOK(r, parts[f], copies[f])
  BY DEF FilesInv, FilesTyped
<1>2. row' = [row EXCEPT ![f] = r2] /\ Written(w, f, next)
  BY <1>1 DEF Claim, FilesTyped
<1>3. r.state \in States
  BY DEF Claim, Claimable, States, InProgress
<1>4. r2 \in Rows /\ r2.state = r.state /\ r2.clean = r.clean /\ r2.upload = r.upload
  BY <1>1, Zenon DEF Rows
<1>5. /\ next \in Snaps /\ next.pc = r.state /\ next.file = f /\ next.state = r.state
      /\ next.digest = r.clean /\ next.copied = 0
  BY <1>1, <1>3, Zenon DEF Has, Idle, Snaps, PCs, Rows
<1> HIDE DEF r2, next
<1>6. ProcOK(next, r2, parts[f], copies[f]) /\ next.pc # "idle"
  <2>1. next.pc # "idle" /\ r2.state # None /\ \A dc \in DCs : ~(dc <= next.copied)
    BY <1>3, <1>4, <1>5, FilesAssumption DEF States, InProgress, Terminal, DCs
  <2> QED
    BY <2>1, <1>3, <1>4, <1>5 DEF ProcOK, Copying, States, InProgress, Terminal
<1>7. Moves(r, r2) /\ FileOK(r2, parts[f], copies[f])
  BY <1>1, <1>4 DEF Moves, FileOK
<1>8. At({w}, f)
  BY <1>2, <1>4, <1>5, <1>6, <1>7, WriteAt, Unchanged, Zenon DEF Claim, Stores
<1> QED
  BY <1>8 DEF Acts

\* Worker.scan binds no derivative yet.
LEMMA ScanActs ==
    ASSUME FilesInv, NEW w \in Procs, NEW d \in Digests, Scan(w, d)
    PROVE  Acts(w)
<1> DEFINE f == snap[w].file
           next == [snap[w] EXCEPT !.pc = "mark_clean", !.digest = d]
<1>0. snap[w].pc = "SCANNING" /\ snap[w] # Idle
  BY DEF Scan, Idle
<1>1. /\ snap[w] \in Snaps /\ f \in FileKeys /\ FilesTyped
      /\ ProcOK(snap[w], row[f], parts[f], copies[f])
  BY <1>0, Standing DEF FilesInv
<1>2. snap' = [snap EXCEPT ![w] = next]
  BY <1>1, Zenon DEF Scan, FilesTyped
<1>3. /\ next \in Snaps /\ next.pc = "mark_clean" /\ next.file = f /\ next.digest = d
      /\ next.state = snap[w].state /\ next.current = snap[w].current
  BY <1>1, Zenon DEF Snaps, PCs
<1> HIDE DEF next
<1>4. ProcOK(next, row[f], parts[f], copies[f])
  BY <1>0, <1>1, <1>3 DEF ProcOK, Copying, Terminal
<1>5. At({w}, f)
  BY <1>1, <1>2, <1>3, <1>4, SnapAt, Unchanged, Zenon DEF Scan
<1> QED
  BY <1>1, <1>5 DEF Acts

\* Repository.MarkClean: nothing was delivered before.
LEMMA MarkCleanActs ==
    ASSUME FilesInv, NEW w \in Procs, MarkClean(w)
    PROVE  Acts(w)
<1> DEFINE f == snap[w].file
           r == row[f]
           r2 == [r EXCEPT !.state = "REPLICATING", !.clean = snap[w].digest, !.leased = FALSE]
<1>0. snap[w].pc = "mark_clean" /\ snap[w] # Idle
  BY DEF MarkClean, Idle
<1>1. /\ snap[w] \in Snaps /\ f \in FileKeys /\ FilesTyped /\ r \in Rows
      /\ ProcOK(snap[w], r, parts[f], copies[f]) /\ FileOK(r, parts[f], copies[f])
  BY <1>0, Standing, Zenon DEF FilesInv
<1>2. CASE Holds(w)
  <2>1. row' = [row EXCEPT ![f] = r2] /\ Written(w, f, Idle)
    BY <1>1, <1>2, Zenon DEF MarkClean, FilesTyped
  <2>2. r.state = "SCANNING" /\ snap[w].digest \in Digests
    BY <1>0, <1>1, <1>2, Zenon DEF Holds, ProcOK
  <2>3. /\ r2 \in Rows /\ r2.state = "REPLICATING" /\ r2.clean \in Digests
        /\ r2.upload = r.upload
    BY <1>1, <2>2, Zenon DEF Rows, States, InProgress
  <2> HIDE DEF r2
  <2>4. Moves(r, r2) /\ FileOK(r2, parts[f], copies[f])
    BY <1>1, <2>2, <2>3, FilesAssumption, Zenon DEF Moves, FileOK, Terminal, States, InProgress
  <2>5. At({w}, f)
    BY <1>1, <2>1, <2>3, <2>4, IdleTyped, WriteAt, Unchanged, Zenon DEF MarkClean, Stores
  <2> QED
    BY <1>1, <2>5 DEF Acts
<1>3. CASE ~Holds(w)
  <2>1. At({w}, f)
    BY <1>0, <1>3, DoneAt, Unchanged DEF MarkClean, Stores
  <2> QED
    BY <1>1, <2>1 DEF Acts
<1> QED
  BY <1>2, <1>3

\* Store.Replicate, one delivery store: what is there is the derivative, unless the file
\* is terminal, and a put that finds it there changes nothing.
LEMMA ReplicateActs ==
    ASSUME FilesInv, NEW w \in Procs, Replicate(w)
    PROVE  Acts(w)
<1> DEFINE f == snap[w].file
           r == row[f]
           s == snap[w]
           dc == s.copied + 1
           there == IF copies[f][dc] = None THEN s.digest ELSE copies[f][dc]
<1>0. s.pc = "replicate" /\ s # Idle
  BY DEF Replicate, Idle
<1>1. /\ s \in Snaps /\ f \in FileKeys /\ FilesTyped /\ r \in Rows
      /\ ProcOK(s, r, parts[f], copies[f]) /\ FileOK(r, parts[f], copies[f])
  BY <1>0, Standing, Zenon DEF FilesInv
<1>2. dc \in DCs /\ dc \in Nat /\ s.copied \in Nat /\ Len(Delivery) \in Nat \ {0}
  <2>1. s.copied \in Nat /\ s.copied < Len(Delivery)
    BY <1>0, <1>1, Zenon DEF Snaps, ProcOK
  <2> QED
    BY <2>1, FilesAssumption DEF DCs
<1>3. /\ r.state \in {"REPLICATING", "READY"} \cup Terminal /\ s.state = "REPLICATING"
      /\ r.state \notin Terminal =>
            /\ s.digest = r.clean /\ r.clean \in Digests
            /\ copies[f][dc] \in {None, s.digest}
            /\ \A d \in DCs : d <= s.copied => copies[f][d] = s.digest
  BY <1>0, <1>1, <1>2, Zenon DEF ProcOK, FileOK, Copying
<1>4. copies[f] \in [DCs -> Digests \cup {None}] /\ s.digest \in Digests \cup {None}
  BY <1>1 DEF FilesTyped, Snaps
<1>5. CASE there # s.digest
  <2>1. copies' = copies
    BY <1>1, <1>2, <1>4, <1>5 DEF Replicate, FilesTyped
  <2>2. Transition(w, "REJECTED") /\ parts' = parts /\ caps' = caps /\ faults' = faults
    BY <1>5 DEF Replicate
  <2>3. ~Holds(w)
    <3>1. r.state \in Terminal
      BY <1>3, <1>5
    <3> QED
      BY <1>3, <3>1 DEF Holds, Terminal
  <2>4. At({w}, f)
    BY <1>0, <2>1, <2>2, <2>3, TransitionAt, Unchanged DEF Terminal
  <2> QED
    BY <1>1, <2>4 DEF Acts
<1>6. CASE there = s.digest
  <2> DEFINE cs == [copies[f] EXCEPT ![dc] = s.digest]
             k == IF dc = Len(Delivery) THEN 0 ELSE dc
             pc == IF dc = Len(Delivery) THEN "mark_ready" ELSE s.pc
             next == [s EXCEPT !.copied = k, !.pc = pc]
  <2>1. copies' = [copies EXCEPT ![f] = cs]
    BY <1>1, <1>6, Zenon DEF Replicate, FilesTyped
  <2>2. row' = row /\ snap' = [snap EXCEPT ![w] = next]
    BY <1>1, <1>6, Zenon DEF Replicate, FilesTyped
  <2>3. /\ cs \in [DCs -> Digests \cup {None}] /\ cs[dc] = s.digest
        /\ \A d \in DCs : d # dc => cs[d] = copies[f][d]
    <3> HIDE DEF dc, s, f
    <3> QED
      BY <1>2, <1>4
  <2>4. /\ next \in Snaps /\ next.file = f /\ next.state = s.state /\ next.digest = s.digest
        /\ next.current = s.current
        /\ next.copied = IF dc = Len(Delivery) THEN 0 ELSE dc
        /\ next.pc = IF dc = Len(Delivery) THEN "mark_ready" ELSE "replicate"
    <3>1. k \in Nat /\ pc \in PCs
      BY <1>0, <1>2 DEF PCs
    <3>2. pc = IF dc = Len(Delivery) THEN "mark_ready" ELSE "replicate"
      BY <1>0
    <3>3. s \in Snaps
      BY <1>1
    <3> HIDE DEF dc, s, k, pc
    <3>4. /\ next \in Snaps /\ next.file = s.file /\ next.state = s.state
          /\ next.digest = s.digest /\ next.current = s.current
          /\ next.copied = k /\ next.pc = pc
      BY <3>1, <3>3, Zenon DEF Snaps
    <3> HIDE DEF next
    <3> QED
      BY <3>2, <3>4 DEF s, k
  <2> HIDE DEF cs, next
  <2>5. FileOK(r, parts[f], cs)
    <3>1. r.state \notin {None, "UPLOADING", "SCANNING"}
      BY <1>3, FilesAssumption DEF States, InProgress, Terminal
    <3>2. ASSUME r.state \in {"REPLICATING", "READY"}, NEW d \in DCs
          PROVE  /\ cs[d] \in {None, r.clean}
                 /\ r.state = "READY" => cs[d] = r.clean
      <4>1. s.digest = r.clean
        BY <1>3, <3>2 DEF Terminal
      <4>2. /\ copies[f][d] \in {None, r.clean}
            /\ r.state = "READY" => copies[f][d] = r.clean
        BY <1>1, <3>2, Zenon DEF FileOK
      <4>3. cs[d] = copies[f][d] \/ cs[d] = s.digest
        BY <2>3
      <4> QED
        BY <4>1, <4>2, <4>3
    <3>3. /\ r.state # None => r.upload \in Uploads
          /\ r.state \in {"REPLICATING", "READY"} => r.clean \in Digests
      BY <1>1, Zenon DEF FileOK
    <3> QED
      BY <3>1, <3>2, <3>3, Zenon DEF FileOK
  <2>6. StoresKept(r, r, parts[f], parts[f], copies[f], cs)
    BY <1>3, <1>6, <2>3, Zenon DEF StoresKept
  <2>7. r.state \notin Terminal =>
            \A d \in DCs : (d <= next.copied \/ next.pc = "mark_ready") => cs[d] = s.digest
    <3> SUFFICES ASSUME r.state \notin Terminal, NEW d \in DCs,
                        d <= next.copied \/ next.pc = "mark_ready"
                 PROVE  cs[d] = s.digest
      OBVIOUS
    <3>1. d \in Nat /\ d <= dc
      BY <1>2, <2>4 DEF DCs
    <3>2. CASE d = dc
      BY <2>3, <3>2
    <3>3. CASE d # dc
      <4>1. d <= s.copied
        BY <1>2, <3>1, <3>3
      <4>2. copies[f][d] = s.digest
        BY <1>3, <4>1, Zenon
      <4> QED
        BY <2>3, <3>3, <4>2, Zenon
    <3> QED
      BY <3>2, <3>3
  <2>8. next.pc = "replicate" => next.copied < Len(Delivery)
    BY <1>2, <2>4 DEF DCs
  <2>9. ProcOK(next, r, parts[f], cs)
    <3>1. r.state # None /\ (next.current => r.state = next.state)
      BY <1>1, <2>4, Zenon DEF ProcOK
    <3> QED
      BY <3>1, <1>3, <2>4, <2>7, <2>8, Zenon DEF ProcOK, Copying, Terminal
  <2>10. parts[f] \in SUBSET Parts /\ parts' = [parts EXCEPT ![f] = parts[f]]
    BY <1>1 DEF Replicate, FilesTyped
  <2>11. caps' \in [FileKeys -> SUBSET Parts] /\ faults' \in Nat /\ next.pc # "idle"
    BY <2>4, Unchanged DEF Replicate
  <2>12. At({w}, f)
    BY <1>1, <2>1, <2>2, <2>3, <2>4, <2>5, <2>6, <2>9, <2>10, <2>11, StayAt, Zenon
  <2> QED
    BY <1>1, <2>12 DEF Acts
<1> QED
  BY <1>5, <1>6, Zenon

\* A worker moves on: only the stage it is at changes, and the stores of a file that is
\* terminal, or READY with its delivery copies left alone.
LEMMA CleanupActs ==
    ASSUME FilesInv, NEW w \in Procs, snap[w] # Idle, NEW next \in Snaps,
           NEW ps \in SUBSET Parts, NEW cs \in [DCs -> Digests \cup {None}],
           row' = row, caps' = caps, faults' \in Nat,
           parts' = [parts EXCEPT ![snap[w].file] = ps],
           copies' = [copies EXCEPT ![snap[w].file] = cs],
           \/ snap[w].pc \in Terminal
           \/ snap[w].pc = "READY" /\ cs = copies[snap[w].file],
           snap' = [snap EXCEPT ![w] = next],
           next = Idle \/ next = [snap[w] EXCEPT !.pc = "defer_cleanup"]
    PROVE  Acts(w)
<1> DEFINE f == snap[w].file
           r == row[f]
<1>1. /\ snap[w] \in Snaps /\ f \in FileKeys /\ r \in Rows
      /\ ProcOK(snap[w], r, parts[f], copies[f]) /\ FileOK(r, parts[f], copies[f])
  BY Standing
<1>2. \/ r.state \in Terminal
      \/ r.state = "READY" /\ cs = copies[f]
  BY <1>1 DEF ProcOK
<1>3. StoresKept(r, r, parts[f], ps, copies[f], cs)
  BY <1>2 DEF StoresKept, Terminal
<1>4. FileOK(r, ps, cs)
  <2>1. r.state \notin {None, "UPLOADING", "SCANNING", "REPLICATING"}
    BY <1>2, FilesAssumption DEF States, InProgress, Terminal
  <2>2. r.state = "READY" => cs = copies[f]
    BY <1>2 DEF Terminal
  <2> QED
    BY <1>1, <2>1, <2>2, Zenon DEF FileOK
<1>5. next = Idle \/ (next.pc # "idle" /\ next.file = f /\ ProcOK(next, r, ps, cs))
  <2> SUFFICES ASSUME next = [snap[w] EXCEPT !.pc = "defer_cleanup"]
               PROVE  next.pc # "idle" /\ next.file = f /\ ProcOK(next, r, ps, cs)
    OBVIOUS
  <2>1. /\ next.pc = "defer_cleanup" /\ next.file = f
        /\ next.state = snap[w].state /\ next.current = snap[w].current
    BY <1>1 DEF Snaps
  <2> QED
    BY <1>1, <2>1, Zenon DEF ProcOK, Copying, Terminal
<1>6. At({w}, f)
  BY <1>1, <1>3, <1>4, <1>5, StayAt, Unchanged, Zenon
<1> QED
  BY <1>1, <1>6 DEF Acts

\* Store.Purge
LEMMA PurgeActs ==
    ASSUME FilesInv, NEW w \in Procs, Purge(w)
    PROVE  Acts(w)
<1> DEFINE f == snap[w].file
           ps == IF row[f].attached THEN {} ELSE parts[f]
           cs == [d \in DCs |-> None]
           next == [snap[w] EXCEPT !.pc = "defer_cleanup"]
<1>0. snap[w].pc \in Terminal
  BY DEF Purge
<1>1. snap[w].pc \in Terminal /\ snap[w] # Idle
  <2>1. Idle.pc = "idle" /\ "idle" \notin Terminal
    BY DEF Idle, Terminal
  <2> QED
    BY <1>0, <2>1
<1>2. snap[w] \in Snaps /\ f \in FileKeys /\ FilesTyped
  BY <1>1, Standing, Zenon DEF FilesInv
<1>3. next \in Snaps
  BY <1>2 DEF Snaps, PCs
<1>4. ps \in SUBSET Parts /\ cs \in [DCs -> Digests \cup {None}]
  BY <1>2 DEF FilesTyped
<1>5. /\ parts' = [parts EXCEPT ![f] = ps] /\ copies' = [copies EXCEPT ![f] = cs]
      /\ snap' = [snap EXCEPT ![w] = next]
      /\ row' = row /\ caps' = caps /\ faults' = faults
  BY <1>2 DEF Purge, Step, FilesTyped
<1> HIDE DEF ps, cs
<1> QED
  BY <1>1, <1>3, <1>4, <1>5, CleanupActs, Unchanged, Zenon

\* Store.CleanupReady
LEMMA CleanupReadyActs ==
    ASSUME FilesInv, NEW w \in Procs, CleanupReady(w)
    PROVE  Acts(w)
<1> DEFINE f == snap[w].file
           next == [snap[w] EXCEPT !.pc = "defer_cleanup"]
<1>1. snap[w].pc = "READY" /\ snap[w] # Idle
  BY DEF CleanupReady, Idle
<1>2. snap[w] \in Snaps /\ f \in FileKeys /\ FilesTyped
  BY <1>1, Standing, Zenon DEF FilesInv
<1>3. next \in Snaps
  BY <1>2 DEF Snaps, PCs
<1>4. PICK ps \in SUBSET Parts : ps = {}
  BY Zenon
<1>5. PICK cs \in [DCs -> Digests \cup {None}] : cs = copies[f]
  BY <1>2 DEF FilesTyped
<1>6. /\ parts' = [parts EXCEPT ![f] = ps] /\ copies' = [copies EXCEPT ![f] = cs]
      /\ snap' = [snap EXCEPT ![w] = next]
      /\ row' = row /\ caps' = caps /\ faults' = faults
  BY <1>2, <1>4, <1>5 DEF CleanupReady, Step, FilesTyped
<1> QED
  BY <1>1, <1>3, <1>5, <1>6, CleanupActs, Unchanged, Zenon

\* A job that fails, in the middle of a purge or anywhere else.
LEMMA JobFailsActs ==
    ASSUME FilesInv, NEW w \in Procs, JobFails(w)
    PROVE  Acts(w)
<1> DEFINE f == snap[w].file
<1>1. snap[w] # Idle /\ Done(w) /\ row' = row /\ caps' = caps /\ faults' \in Nat
  BY Unchanged DEF JobFails
<1>2. f \in FileKeys /\ FilesTyped
  BY <1>1, Standing, Zenon DEF FilesInv
<1>3. PICK k \in SUBSET (IF snap[w].pc \in Terminal THEN {"parts", "copies", "clean"} ELSE {}) :
        /\ parts' = [parts EXCEPT ![f] = IF "parts" \in k /\ row[f].attached THEN {} ELSE @]
        /\ copies' = [copies EXCEPT ![f] = IF "copies" \in k THEN [d \in DCs |-> None] ELSE @]
  BY Zenon DEF JobFails
<1>4. CASE snap[w].pc \notin Terminal
  <2>1. k = {}
    BY <1>3, <1>4
  <2>2. parts' = parts /\ copies' = copies
    BY <1>2, <1>3, <2>1 DEF FilesTyped
  <2>3. At({w}, f)
    BY <1>1, <2>2, DoneAt, Unchanged
  <2> QED
    BY <1>2, <2>3 DEF Acts
<1>5. CASE snap[w].pc \in Terminal
  <2> DEFINE ps == IF "parts" \in k /\ row[f].attached THEN {} ELSE parts[f]
             cs == IF "copies" \in k THEN [d \in DCs |-> None] ELSE copies[f]
  <2>1. ps \in SUBSET Parts /\ cs \in [DCs -> Digests \cup {None}]
    BY <1>2 DEF FilesTyped
  <2>2. parts' = [parts EXCEPT ![f] = ps] /\ copies' = [copies EXCEPT ![f] = cs]
    BY <1>2, <1>3 DEF FilesTyped
  <2> HIDE DEF ps, cs
  <2> QED
    BY <1>1, <1>5, <2>1, <2>2, IdleTyped, CleanupActs, Zenon DEF Done
<1> QED
  BY <1>4, <1>5

\* Repository.DeferCleanup
LEMMA DeferCleanupActs ==
    ASSUME FilesInv, NEW w \in Procs, DeferCleanup(w)
    PROVE  Acts(w)
<1> DEFINE f == snap[w].file
           r == row[f]
           r2 == [r EXCEPT !.due = FALSE, !.leased = FALSE]
<1>0. snap[w] # Idle
  BY DEF DeferCleanup, Idle
<1>1. f \in FileKeys /\ FilesTyped /\ r \in Rows /\ FileOK(r, parts[f], copies[f])
  BY <1>0, Standing, Zenon DEF FilesInv
<1>2. CASE Holds(w)
  <2>1. row' = [row EXCEPT ![f] = r2] /\ Written(w, f, Idle)
    BY <1>1, <1>2, Zenon DEF DeferCleanup, FilesTyped
  <2>2. r2 \in Rows /\ r2.state = r.state /\ r2.clean = r.clean /\ r2.upload = r.upload
    BY <1>1, Zenon DEF Rows
  <2> HIDE DEF r2
  <2>3. Moves(r, r2) /\ FileOK(r2, parts[f], copies[f])
    BY <1>1, <2>2, Zenon DEF Moves, FileOK
  <2>4. At({w}, f)
    BY <1>1, <2>1, <2>2, <2>3, IdleTyped, WriteAt, Unchanged, Zenon DEF DeferCleanup, Stores
  <2> QED
    BY <1>1, <2>4 DEF Acts
<1>3. CASE ~Holds(w)
  <2>1. At({w}, f)
    BY <1>0, <1>3, DoneAt, Unchanged DEF DeferCleanup, Stores
  <2> QED
    BY <1>1, <2>1 DEF Acts
<1> QED
  BY <1>2, <1>3

\* Every step of a processing worker is at one file, and rejects it only for what the
\* checks found, or with a failure of its own.
LEMMA WorkerActs ==
    ASSUME FilesInv, NEW w \in Procs, WorkerStep(w)
    PROVE  Acts(w)
<1> DEFINE f == snap[w].file
<1>1. ASSUME snap[w].pc # "idle"
      PROVE  /\ snap[w] # Idle /\ snap[w] \in Snaps /\ f \in FileKeys
             /\ ProcOK(snap[w], row[f], parts[f], copies[f])
  <2>1. snap[w] # Idle
    BY <1>1 DEF Idle
  <2> QED
    BY <2>1, Standing
<1>2. CASE Expire(w)
  <2>1. snap[w].pc # "idle"
    BY <1>2 DEF Expire
  <2>2. At({w}, f)
    BY <1>1, <1>2, <2>1, TransitionAt, Unchanged, Zenon DEF Expire, Stores, Terminal
  <2> QED
    BY <1>1, <2>1, <2>2 DEF Acts
<1>3. CASE Reject(w)
  <2>1. snap[w].pc # "idle"
    BY <1>3 DEF Reject
  <2>2. row[f].upload \in Uploads
    BY <1>1, <2>1, Standing, Zenon DEF FileOK, ProcOK
  <2>3. "rejected" \in Verdicts(row[f].upload, TRUE)
    BY <1>3, <2>2, Zenon DEF Reject, Said
  <2>4. ~Acceptable(row[f].upload)
    BY <2>3, AcceptableIsNotRejected, Zenon
  <2>5. At({w}, f)
    BY <1>1, <1>3, <2>1, <2>4, TransitionAt, Unchanged, Zenon DEF Reject, Stores, Terminal
  <2> QED
    BY <1>1, <2>1, <2>5 DEF Acts
<1>4. CASE RejectMistaken(w) \/ ReplicateMistaken(w)
  <2>1. /\ snap[w].pc # "idle" /\ Transition(w, "REJECTED")
        /\ parts' = parts /\ caps' = caps /\ copies' = copies
    BY <1>4 DEF RejectMistaken, ReplicateMistaken, Stores
  <2>5. faults' = faults + 1
    BY <1>4, Zenon DEF RejectMistaken, ReplicateMistaken
  <2>2. faults' \in Nat /\ faults' > faults
    BY <2>5, Unchanged
  <2>3. At({w}, f)
    BY <1>1, <2>1, <2>2, TransitionAt, Zenon DEF Terminal
  <2> QED
    BY <1>1, <2>1, <2>3 DEF Acts
<1>5. CASE ReadClean(w)
  <2> DEFINE next == [snap[w] EXCEPT !.pc = "replicate"]
  <2>1. snap[w].pc = "REPLICATING"
    BY <1>5 DEF ReadClean
  <2>2. FilesTyped
    BY DEF FilesInv
  <2>3. snap' = [snap EXCEPT ![w] = next]
    BY <1>5, <2>2 DEF ReadClean, FilesTyped
  <2>4. /\ next \in Snaps /\ next.pc = "replicate" /\ next.file = f
        /\ next.state = snap[w].state /\ next.current = snap[w].current
        /\ next.digest = snap[w].digest /\ next.copied = snap[w].copied
    BY <1>1, <2>1 DEF Snaps, PCs
  <2> HIDE DEF next
  <2>5. next.copied = 0 /\ next.copied < Len(Delivery)
    <3>1. next.copied = 0
      BY <1>1, <2>1, <2>4, Zenon DEF ProcOK
    <3> QED
      BY <3>1, FilesAssumption
  <2>6. ProcOK(next, row[f], parts[f], copies[f])
    BY <1>1, <2>1, <2>4, <2>5, Zenon DEF ProcOK, Copying, Terminal
  <2>7. At({w}, f)
    BY <1>1, <1>5, <2>1, <2>3, <2>4, <2>6, SnapAt, Unchanged, Zenon DEF ReadClean, Stores
  <2> QED
    BY <1>1, <2>1, <2>7 DEF Acts
<1>6. CASE MarkReady(w)
  <2>1. snap[w].pc = "mark_ready"
    BY <1>6 DEF MarkReady
  <2>2. At({w}, f)
    BY <1>1, <1>6, <2>1, TransitionAt, Unchanged, Zenon DEF MarkReady, Stores, Terminal
  <2> QED
    BY <1>1, <2>1, <2>2, Zenon DEF Acts
<1>7. CASE JobFindsNothing(w)
  <2>1. snap[w].pc # "idle"
    BY <1>7 DEF JobFindsNothing
  <2>2. At({w}, f)
    BY <1>1, <1>7, <2>1, DoneAt, Unchanged, Zenon DEF JobFindsNothing, Stores
  <2> QED
    BY <1>1, <2>1, <2>2 DEF Acts
<1> QED
  BY <1>2, <1>3, <1>4, <1>5, <1>6, <1>7, ScanActs, ReplicateActs, MarkCleanActs, PurgeActs,
     CleanupReadyActs, DeferCleanupActs DEF WorkerStep

-----------------------------------------------------------------------------
(* Time and uploads *)

\* A flag of a row changes.
LEMMA FlagAt ==
    ASSUME FilesInv, NEW f \in FileKeys, NEW r \in Rows, row' = [row EXCEPT ![f] = r],
           r.state = row[f].state, r.clean = row[f].clean, r.upload = row[f].upload,
           UNCHANGED <<Stores, snap>>, faults' \in Nat
    PROVE  At({}, f)
<1>1. FilesTyped /\ FileOK(row[f], parts[f], copies[f])
  BY DEF FilesInv
<1>2. /\ row' \in [FileKeys -> Rows] /\ row'[f] = r
      /\ \A g \in FileKeys \ {f} : row'[g] = row[g]
  BY <1>1 DEF FilesTyped
<1>3. FilesTyped'
  BY <1>1, <1>2 DEF FilesTyped, Stores
<1>4. Moves(row[f], r) /\ FileOK(r, parts[f], copies[f]) /\ Rejected(f)
  BY <1>1, <1>2, Zenon DEF Moves, FileOK, Rejected
<1>5. StoresKept(row[f], r, parts[f], parts'[f], copies[f], copies'[f])
  BY DEF StoresKept, Stores
<1> QED
  BY <1>2, <1>3, <1>4, <1>5 DEF At, Stores

\* What time and the browser do is at one file as well.
LEMMA EnvironmentActs ==
    ASSUME FilesInv, NEW f \in FileKeys, Environment(f) \/ Clock(f)
    PROVE  At({}, f)
<1>1. FilesTyped /\ row[f] \in Rows /\ FileOK(row[f], parts[f], copies[f])
  BY DEF FilesInv, FilesTyped
<1>2. ASSUME NEW n \in Parts, UploadPart(f, n)
      PROVE  At({}, f)
  <2>1. /\ parts' = [parts EXCEPT ![f] = parts[f] \cup {n}]
        /\ row' = row /\ caps' = caps /\ copies' = copies /\ snap' = snap /\ faults' = faults
    BY <1>2 DEF UploadPart
  <2>2. /\ parts' \in [FileKeys -> SUBSET Parts] /\ parts'[f] = parts[f] \cup {n}
        /\ \A g \in FileKeys \ {f} : parts'[g] = parts[g]
    BY <1>1, <2>1 DEF FilesTyped
  <2>3. FilesTyped'
    BY <1>1, <2>1, <2>2 DEF FilesTyped
  <2>4. parts[f] = Parts => parts'[f] = Parts
    BY <2>2
  <2>5. FileOK(row[f], parts'[f], copies[f])
    BY <1>1, <2>4, Zenon DEF FileOK
  <2>6. /\ Moves(row[f], row[f]) /\ Rejected(f)
        /\ StoresKept(row[f], row[f], parts[f], parts'[f], copies[f], copies[f])
    BY <2>1, <2>4, Zenon DEF Moves, StoresKept, Rejected
  <2> QED
    BY <2>1, <2>2, <2>3, <2>5, <2>6 DEF At
<1>3. CASE CapabilitiesExpire(f)
  <2>1. /\ caps' \in [FileKeys -> SUBSET Parts]
        /\ row' = row /\ parts' = parts /\ copies' = copies /\ snap' = snap /\ faults' = faults
    BY <1>1, <1>3 DEF CapabilitiesExpire, FilesTyped
  <2>2. FilesTyped'
    BY <1>1, <2>1 DEF FilesTyped
  <2>3. /\ Moves(row[f], row[f]) /\ Rejected(f)
        /\ StoresKept(row[f], row[f], parts[f], parts[f], copies[f], copies[f])
    BY <2>1 DEF Moves, StoresKept, Rejected
  <2> QED
    BY <1>1, <2>1, <2>2, <2>3 DEF At
<1>4. CASE UploadExpires(f)
  <2> DEFINE r == [row[f] EXCEPT !.expired = TRUE]
  <2>1. row' = [row EXCEPT ![f] = r]
    BY <1>1, <1>4 DEF UploadExpires, FilesTyped
  <2>2. /\ r \in Rows /\ r.state = row[f].state /\ r.clean = row[f].clean
        /\ r.upload = row[f].upload
    BY <1>1, Zenon DEF Rows
  <2> HIDE DEF r
  <2> QED
    BY <1>4, <2>1, <2>2, FlagAt, Unchanged, Zenon DEF UploadExpires
<1>5. CASE CleanupDue(f)
  <2> DEFINE r == [row[f] EXCEPT !.due = TRUE]
  <2>1. row' = [row EXCEPT ![f] = r]
    BY <1>1, <1>5 DEF CleanupDue, FilesTyped
  <2>2. /\ r \in Rows /\ r.state = row[f].state /\ r.clean = row[f].clean
        /\ r.upload = row[f].upload
    BY <1>1, Zenon DEF Rows
  <2> HIDE DEF r
  <2> QED
    BY <1>5, <2>1, <2>2, FlagAt, Unchanged, Zenon DEF CleanupDue
<1>6. CASE LeaseExpires(f) \/ LeaseOverrun(f)
  <2> DEFINE r == [row[f] EXCEPT !.leased = FALSE]
  <2>1. row' = [row EXCEPT ![f] = r]
    BY <1>1, <1>6 DEF LeaseExpires, LeaseOverrun, FilesTyped
  <2>2. /\ r \in Rows /\ r.state = row[f].state /\ r.clean = row[f].clean
        /\ r.upload = row[f].upload
    BY <1>1, Zenon DEF Rows
  <2>3. faults' \in Nat
    BY <1>6, Unchanged DEF LeaseExpires, LeaseOverrun
  <2> HIDE DEF r
  <2> QED
    BY <1>6, <2>1, <2>2, <2>3, FlagAt, Zenon DEF LeaseExpires, LeaseOverrun
<1> QED
  BY <1>2, <1>3, <1>4, <1>5, <1>6 DEF Environment, Clock

-----------------------------------------------------------------------------
(* The avatar and its retirements *)

\* A step of Files that is nobody's retirement leaves the deletions under way alone.
LEMMA FilesStep ==
    ASSUME Inv, FilesNext
    PROVE  \E f \in FileKeys, P \in SUBSET (Procs \ Retirers) : At(P, f)
<1>0. FilesInv
  BY DEF Inv
<1>1. ASSUME NEW c \in Calls \ Retirers, CallStep(c)
      PROVE  \E f \in FileKeys, P \in SUBSET (Procs \ Retirers) : At(P, f)
  <2>1. c \in Procs \ Retirers /\ {c} \in SUBSET (Procs \ Retirers)
    BY <1>1 DEF Procs
  <2>2. Acts(c)
    BY <1>0, <1>1, <2>1, CallActs
  <2> QED
    BY <2>1, <2>2 DEF Acts
<1>2. ASSUME NEW w \in Workers,
             WorkerStep(w) \/ JobFails(w) \/ \E f \in FileKeys : Claim(w, f)
      PROVE  \E f \in FileKeys, P \in SUBSET (Procs \ Retirers) : At(P, f)
  <2>1. w \in Procs \ Retirers /\ {w} \in SUBSET (Procs \ Retirers)
    BY <1>2, FilesAssumption, RetirersCall DEF Procs
  <2>2. Acts(w)
    BY <1>0, <1>2, <2>1, WorkerActs, JobFailsActs, ClaimActs
  <2> QED
    BY <2>1, <2>2 DEF Acts
<1>3. ASSUME NEW f \in FileKeys, Environment(f) \/ Clock(f)
      PROVE  \E g \in FileKeys, P \in SUBSET (Procs \ Retirers) : At(P, g)
  <2>1. At({}, f) /\ {} \in SUBSET (Procs \ Retirers)
    BY <1>0, <1>3, EnvironmentActs
  <2> QED
    BY <2>1
<1> QED
  BY <1>1, <1>2, <1>3 DEF FilesNext

\* Whoever does not act at a file still has the file it had.
LEMMA SameFile ==
    ASSUME FilesInv, NEW f \in FileKeys, NEW P \in SUBSET Procs, At(P, f),
           NEW q \in Procs \ P
    PROVE  snap'[q].file = snap[q].file
<1>1. snap[q] \in Snaps
  BY DEF FilesInv, FilesTyped
<1> QED
  BY <1>1, Zenon DEF At, Snaps

\* A step at one file rejects only that one.
LEMMA AtRejects ==
    ASSUME NEW P, NEW f \in FileKeys, At(P, f)
    PROVE  \A g \in FileKeys : Rejected(g)
<1> TAKE g \in FileKeys
<1>1. CASE g = f
  BY <1>1 DEF At
<1>2. CASE g # f
  BY <1>2 DEF At, Rejected
<1> QED
  BY <1>1, <1>2

\* What a retirement worker does at Files is at the file it retires, and reads or marks
\* that one only.
LEMMA RetirementAt ==
    ASSUME Inv, NEW r \in Retirers, RetireOwnedAvatar(r) \/ RetireDeletes(r)
    PROVE  \/ UNCHANGED filesVars
           \/ \E f \in FileKeys : At({r}, f) /\ retirement[f] # None
                                  /\ snap'[r].file \in {None, f}
<1>0. FilesInv /\ r \in Procs /\ FilesTyped
  BY RetirersCall, Zenon DEF Inv, FilesInv, Procs
<1>1. CASE RetireOwnedAvatar(r)
  <2> DEFINE f == job[r].file
             next == Has("delete", f, row[f].state)
  <2>1. job[r] # NoJob
    BY <1>1 DEF RetireOwnedAvatar, NoJob
  <2>2. f \in FileKeys /\ retirement[f] # None
    BY <2>1, Zenon DEF Inv, AvatarInv
  <2>3. CASE row[f].state # "DELETED"
    <3>1. Delete(r, f)
      BY <1>1, <2>3 DEF RetireOwnedAvatar
    <3>2. snap' = [snap EXCEPT ![r] = next] /\ row[f].state # None
      BY <3>1 DEF Delete, Reads
    <3>3. row[f] \in Rows
      BY <1>0, <2>2 DEF FilesTyped
    <3>4. /\ next \in Snaps /\ next.pc = "delete" /\ next.file = f
          /\ next.state = row[f].state
      BY <2>2, <3>3, Zenon DEF Has, Idle, Snaps, PCs, Rows
    <3> HIDE DEF next
    <3>5. ProcOK(next, row[f], parts[f], copies[f])
      BY <3>2, <3>4, Zenon DEF ProcOK, Copying, Terminal
    <3>6. At({r}, f)
      BY <1>0, <2>2, <3>1, <3>2, <3>4, <3>5, SnapAt, Unchanged, Zenon DEF Delete, Stores
    <3>7. snap'[r].file = f
      BY <1>0, <3>2, <3>4, Zenon DEF FilesTyped
    <3> QED
      BY <2>2, <3>6, <3>7
  <2> QED
    BY <1>1, <2>3 DEF RetireOwnedAvatar
<1>2. CASE RetireDeletes(r)
  <2> DEFINE f == snap[r].file
  <2>1. DeleteTransition(r) /\ snap[r] # Idle
    BY <1>2 DEF RetireDeletes, DeleteTransition, Idle
  <2>2. f \in FileKeys
    BY <1>0, <2>1, Standing, Zenon
  <2>3. retirement[f] # None
    BY <2>2, FilesAssumption DEF Inv, AvatarInv
  <2>4. At({r}, f)
    BY <1>0, <2>1, TransitionAt, Unchanged, Zenon DEF DeleteTransition, Stores, Terminal
  <2>5. snap'[r].file \in {None, f}
    BY <2>4 DEF At, Idle
  <2> QED
    BY <2>2, <2>3, <2>4, <2>5
<1> QED
  BY <1>1, <1>2

\* Every step is a step of Files at one file, or leaves Files alone.
LEMMA NextAt ==
    ASSUME Inv, [Next]_vars
    PROVE  \/ UNCHANGED filesVars
           \/ \E f \in FileKeys, P \in SUBSET Procs : At(P, f)
<1>1. CASE FilesNext
  BY <1>1, FilesStep
<1>2. ASSUME NEW r \in Retirers, RetireOwnedAvatar(r) \/ RetireDeletes(r)
      PROVE  \/ UNCHANGED filesVars
             \/ \E f \in FileKeys, P \in SUBSET Procs : At(P, f)
  <2>1. {r} \in SUBSET Procs
    BY <1>2, RetirersCall DEF Procs
  <2> QED
    BY <1>2, <2>1, RetirementAt, Zenon
<1>3. CASE UNCHANGED vars
  BY <1>3 DEF vars
<1> QED
  BY <1>1, <1>2, <1>3 DEF Next, AvatarNext, RetirerStep, Set, Clear, Inspect, ClaimRetirement,
     Finish, Retry, RetireTimesOut, RetirementLeaseExpires

\* Nothing is retired that the profile refers to, and no retirement is ever taken back.
RetirementsKept == \A f \in FileKeys : retirement[f] # None => retirement'[f] # None

\* What the deletions under way in Files need after a step that only adds retirements.
LEMMA DeletionsKept ==
    ASSUME AvatarInv, RetirementsKept, NEW r \in Retirers, snap'[r].file \in {None, snap[r].file}
    PROVE  snap'[r].file # None =>
               snap'[r].file \in FileKeys /\ retirement'[snap'[r].file] # None
<1>1. snap[r].file # None => snap[r].file \in FileKeys /\ retirement[snap[r].file] # None
  BY DEF AvatarInv
<1> QED
  BY <1>1 DEF RetirementsKept

\* Steps of Files, and of a retirement worker at Files.
LEMMA FilesKeepAvatar ==
    ASSUME Inv, NEW f \in FileKeys, NEW P \in SUBSET Procs, At(P, f),
           \A r \in P \cap Retirers : snap'[r].file \in {None, f} /\ retirement[f] # None,
           UNCHANGED <<avatar, retirement, use>>,
           job' \in [Retirers -> Jobs],
           \A r \in Retirers : job'[r] # job[r] => job[r] # NoJob /\ job'[r].file = job[r].file
    PROVE  AvatarInv'
<1>1. ASSUME NEW r \in Retirers
      PROVE  snap'[r].file # None =>
                 snap'[r].file \in FileKeys /\ retirement'[snap'[r].file] # None
  <2>1. CASE r \in P
    BY <2>1
  <2>2. CASE r \notin P
    <3>1. r \in Procs \ P
      BY <2>2, RetirersCall DEF Procs
    <3>2. snap'[r].file = snap[r].file
      BY <3>1, SameFile DEF Inv
    <3> QED
      BY <3>2 DEF Inv, AvatarInv
  <2> QED
    BY <2>1, <2>2
<1>2. ASSUME NEW r \in Retirers
      PROVE  job'[r] # NoJob => job'[r].file \in FileKeys /\ retirement'[job'[r].file] # None
  <2>1. job[r] # NoJob => job[r].file \in FileKeys /\ retirement[job[r].file] # None
    BY DEF Inv, AvatarInv
  <2> QED
    BY <2>1
<1> QED
  BY <1>1, <1>2, Zenon DEF Inv, AvatarInv

\* Steps of the User service that leave Files alone.
LEMMA UserKeepsAvatar ==
    ASSUME Inv, UNCHANGED filesVars,
           \/ \E u \in Users : Set(u) \/ Clear(u) \/ \E f \in FileKeys : Inspect(u, f)
           \/ \E r \in Retirers : \/ \E f \in FileKeys : ClaimRetirement(r, f)
                                  \/ Finish(r) \/ Retry(r) \/ RetireTimesOut(r)
           \/ \E f \in FileKeys : RetirementLeaseExpires(f)
    PROVE  AvatarInv'
<1>0. AvatarInv /\ snap' = snap
  BY DEF Inv, filesVars
<1>1. ASSUME NEW r \in Retirers
      PROVE  snap'[r].file = snap[r].file
  BY <1>0
<1>2. ASSUME NEW u \in Users, NEW id \in FileKeys \cup {None}, Replace(u, id), job' = job,
             id # None => retirement[id] = None
      PROVE  AvatarInv'
  <2>1. /\ retirement' \in [FileKeys -> {None, "queued", "retired"} \cup Retirers]
        /\ \A f \in FileKeys : retirement'[f] = IF f = avatar /\ f # id /\ retirement[f] = None
                                               THEN "queued" ELSE retirement[f]
    BY <1>0, <1>2 DEF Replace, AvatarInv
  <2>2. RetirementsKept
    BY <2>1, RetirersCall DEF RetirementsKept
  <2>3. avatar' # None => avatar' \in FileKeys /\ retirement'[avatar'] = None
    BY <1>2, <2>1 DEF Replace
  <2>4. ASSUME NEW v \in Users
        PROVE  /\ use'[v] \in Uses
               /\ use'[v] # NoUse => use'[v].file \in FileKeys
    <3>1. use[v] \in Uses
      BY <1>0, Zenon DEF AvatarInv
    <3>2. CASE v = u
      BY <1>2, <3>2 DEF Replace, NoUse, Uses
    <3>3. CASE v # u
      <4>1. use'[v] = [use[v] EXCEPT !.current = FALSE]
        BY <1>2, <3>3 DEF Replace
      <4>2. /\ use'[v] \in Uses
            /\ use'[v].file = use[v].file /\ use'[v].current = FALSE
        BY <3>1, <4>1, Zenon DEF Uses
      <4>3. use[v] = NoUse => use'[v] = NoUse
        <5>1. use'[v] = [file |-> use'[v].file, current |-> use'[v].current]
          BY <4>2, Zenon DEF Uses
        <5>2. NoUse.file = None
          BY DEF NoUse
        <5> QED
          BY <4>2, <5>1, <5>2, Zenon DEF NoUse
      <4>4. use[v] # NoUse => use[v].file \in FileKeys
        BY <1>0, Zenon DEF AvatarInv
      <4> QED
        BY <4>2, <4>3, <4>4, Zenon
    <3> QED
      BY <3>2, <3>3
  <2>5. use' \in [Users -> Uses]
    BY <1>2, <2>4 DEF Replace
  <2>6. \A r \in Retirers : snap'[r].file # None =>
             snap'[r].file \in FileKeys /\ retirement'[snap'[r].file] # None
    BY <1>0, <1>1, <2>2, DeletionsKept, Zenon
  <2>7. \A r \in Retirers : job'[r] # NoJob =>
             job'[r].file \in FileKeys /\ retirement'[job'[r].file] # None
    BY <1>0, <1>2, <2>2, Zenon DEF AvatarInv, RetirementsKept
  <2> QED
    BY <1>0, <1>2, <2>1, <2>3, <2>4, <2>5, <2>6, <2>7 DEF AvatarInv, Replace
<1>3. ASSUME NEW u \in Users,
             \/ use' = [use EXCEPT ![u] = NoUse]
             \/ \E f \in FileKeys : use' = [use EXCEPT ![u] = [file |-> f, current |-> TRUE]],
             UNCHANGED <<avatar, retirement, job>>
      PROVE  AvatarInv'
  <2>1. use \in [Users -> Uses]
    BY <1>0, Zenon DEF AvatarInv
  <2>2. /\ use' \in [Users -> Uses]
        /\ \A v \in Users : \/ use'[v] = use[v] \/ use'[v] = NoUse
                             \/ use'[v].file \in FileKeys
    <3>1. PICK n \in Uses :
            use' = [use EXCEPT ![u] = n] /\ (n = NoUse \/ n.file \in FileKeys)
      <4>1. CASE use' = [use EXCEPT ![u] = NoUse]
        BY <4>1, Zenon DEF NoUse, Uses
      <4>2. CASE \E f \in FileKeys : use' = [use EXCEPT ![u] = [file |-> f, current |-> TRUE]]
        <5>1. PICK f \in FileKeys : use' = [use EXCEPT ![u] = [file |-> f, current |-> TRUE]]
          BY <4>2, Zenon
        <5> DEFINE n == [file |-> f, current |-> TRUE]
        <5>2. n \in Uses /\ n.file \in FileKeys
          BY DEF Uses
        <5>3. use' = [use EXCEPT ![u] = n]
          BY <5>1
        <5> HIDE DEF n
        <5> QED
          BY <5>2, <5>3, Zenon
      <4> QED
        BY <1>3, <4>1, <4>2
    <3> QED
      BY <2>1, <3>1
  <2>3. \A v \in Users : use'[v] # NoUse => use'[v].file \in FileKeys
    BY <1>0, <2>2, Zenon DEF AvatarInv
  <2>4. NoUse' = NoUse /\ NoJob' = NoJob
    BY DEF NoUse, NoJob
  <2> QED
    BY <1>0, <1>1, <1>3, <2>2, <2>3, <2>4, Zenon DEF AvatarInv
<1>4. ASSUME NEW u \in Users, Set(u)
      PROVE  AvatarInv'
  <2>1. use[u].file \in FileKeys
    BY <1>0, <1>4, Zenon DEF Set, AvatarInv
  <2>2. CASE use[u].current /\ retirement[use[u].file] = None
    BY <1>2, <1>4, <2>1, <2>2, Zenon DEF Set
  <2>3. CASE ~(use[u].current /\ retirement[use[u].file] = None)
    BY <1>3, <1>4, <2>3, Zenon DEF Set
  <2> QED
    BY <2>2, <2>3, Zenon
<1>5. ASSUME NEW u \in Users, Clear(u)
      PROVE  AvatarInv'
  BY <1>2, <1>5, Zenon DEF Clear
<1>6. ASSUME NEW u \in Users, NEW f \in FileKeys, Inspect(u, f)
      PROVE  AvatarInv'
  BY <1>3, <1>6, Zenon DEF Inspect
<1>7. ASSUME NEW f \in FileKeys, NEW x \in {"queued", "retired"} \cup Retirers,
             retirement[f] # None,
             retirement' = [retirement EXCEPT ![f] = x] \/ retirement' = retirement,
             UNCHANGED <<avatar, use>>,
             NEW j \in Jobs,
             j = NoJob \/ j.file = f,
             NEW r \in Retirers, job' = [job EXCEPT ![r] = j] \/ job' = job
      PROVE  AvatarInv'
  <2>1. /\ retirement' \in [FileKeys -> {None, "queued", "retired"} \cup Retirers]
        /\ retirement'[f] # None
        /\ \A g \in FileKeys : g # f => retirement'[g] = retirement[g]
    BY <1>0, <1>7, RetirersCall, Zenon DEF AvatarInv
  <2>2. RetirementsKept
    BY <2>1 DEF RetirementsKept
  <2>3. avatar' # None => retirement'[avatar'] = None
    BY <1>0, <1>7, <2>1, Zenon DEF AvatarInv
  <2>4. \A q \in Retirers : snap'[q].file # None =>
             snap'[q].file \in FileKeys /\ retirement'[snap'[q].file] # None
    BY <1>0, <1>1, <2>2, DeletionsKept, Zenon
  <2>5. /\ job' \in [Retirers -> Jobs]
        /\ \A q \in Retirers : job'[q] = job[q] \/ job'[q] = j
    BY <1>0, <1>7, Zenon DEF AvatarInv
  <2>6. ASSUME NEW q \in Retirers, job'[q] # NoJob
        PROVE  job'[q].file \in FileKeys /\ retirement'[job'[q].file] # None
    <3>1. CASE job'[q] = job[q]
      <4>1. job[q].file \in FileKeys /\ retirement[job[q].file] # None
        BY <1>0, <2>6, <3>1, Zenon DEF AvatarInv
      <4> QED
        BY <3>1, <4>1, <2>2, Zenon DEF RetirementsKept
    <3>2. CASE job'[q] = j
      BY <1>7, <2>1, <2>6, <3>2
    <3> QED
      BY <2>5, <3>1, <3>2, Zenon
  <2> QED
    BY <1>0, <1>7, <2>1, <2>3, <2>4, <2>5, <2>6, Zenon DEF AvatarInv
<1>8. NoJob \in Jobs
  BY DEF NoJob, Jobs
<1>9. ASSUME NEW r \in Retirers, NEW f \in FileKeys, ClaimRetirement(r, f)
      PROVE  AvatarInv'
  <2> DEFINE j == [pc |-> "retire", file |-> f]
  <2>1. j \in Jobs
        /\ j.file = f
    BY DEF Jobs
  <2>2. retirement[f] # None /\ retirement' = [retirement EXCEPT ![f] = r]
        /\ job' = [job EXCEPT ![r] = j] /\ UNCHANGED <<avatar, use>>
    BY <1>9, RetirersCall DEF ClaimRetirement
  <2> HIDE DEF j
  <2> QED
    BY <1>7, <1>9, <2>1, <2>2, Zenon
<1>10. ASSUME NEW r \in Retirers, Finish(r) \/ Retry(r)
       PROVE  AvatarInv'
  <2> DEFINE f == job[r].file
  <2>1. job[r] # NoJob
    <3>1. NoJob.pc = "idle" /\ "idle" \notin {"finish", "retry"}
      BY DEF NoJob
    <3>2. job[r].pc \in {"finish", "retry"}
      BY <1>10, Zenon DEF Finish, Retry
    <3> QED
      BY <3>1, <3>2, Zenon
  <2>2. /\ f \in FileKeys /\ retirement[f] # None
        /\ retirement \in [FileKeys -> {None, "queued", "retired"} \cup Retirers]
    BY <1>0, <2>1, Zenon DEF AvatarInv
  <2>3. \E x \in {"queued", "retired"} \cup Retirers :
            retirement' = [retirement EXCEPT ![f] = x] \/ retirement' = retirement
    <3>1. CASE retirement[f] = r
      BY <1>10, <2>2, <3>1, Zenon DEF Finish, Retry
    <3>2. CASE retirement[f] # r
      <4>1. retirement' = [retirement EXCEPT ![f] = retirement[f]]
        BY <1>10, <3>2, Zenon DEF Finish, Retry
      <4>2. retirement' = retirement
        BY <2>2, <4>1
      <4> QED
        BY <4>2, Zenon
    <3> QED
      BY <3>1, <3>2
  <2>4. job' = [job EXCEPT ![r] = NoJob] /\ UNCHANGED <<avatar, use>>
    BY <1>10, Zenon DEF Finish, Retry
  <2> HIDE DEF f
  <2> QED
    BY <1>7, <1>8, <1>10, <2>2, <2>3, <2>4, Zenon
<1>11. ASSUME NEW r \in Retirers, RetireTimesOut(r)
       PROVE  AvatarInv'
  <2> DEFINE j == [job[r] EXCEPT !.pc = "retry"]
             f == job[r].file
  <2>1. job[r] # NoJob
    BY <1>11 DEF RetireTimesOut, NoJob
  <2>2. f \in FileKeys /\ retirement[f] # None
    BY <1>0, <2>1, Zenon DEF AvatarInv
  <2>3. job[r] \in Jobs
    BY <1>0, Zenon DEF AvatarInv
  <2>4. j \in Jobs
        /\ j.file = f
    BY <2>3 DEF Jobs
  <2>5. job' = [job EXCEPT ![r] = j] /\ UNCHANGED <<avatar, use, retirement>>
    BY <1>0, <1>11 DEF RetireTimesOut, AvatarInv
  <2> HIDE DEF j, f
  <2> QED
    BY <1>7, <1>11, <2>2, <2>4, <2>5, Zenon
<1>12. ASSUME NEW f \in FileKeys, RetirementLeaseExpires(f)
       PROVE  AvatarInv'
  <2>1. PICK r \in Retirers : retirement[f] = r
    BY <1>12 DEF RetirementLeaseExpires
  <2>2. retirement[f] # None /\ retirement' = [retirement EXCEPT ![f] = "queued"]
        /\ UNCHANGED <<avatar, use, job>>
    BY <1>12, <2>1, RetirersCall DEF RetirementLeaseExpires
  <2> QED
    BY <1>7, <1>8, <2>1, <2>2, Zenon
<1> QED
  BY <1>4, <1>5, <1>6, <1>9, <1>10, <1>11, <1>12

\* Every step keeps the invariant.
LEMMA InvNext == Inv /\ [Next]_vars => Inv'
<1> SUFFICES ASSUME Inv, [Next]_vars
             PROVE  Inv'
  OBVIOUS
<1>1. FilesInv'
  <2>1. CASE UNCHANGED filesVars
    BY <2>1 DEF filesVars, Inv, FilesInv, FilesTyped
  <2>2. CASE \E f \in FileKeys, P \in SUBSET Procs : At(P, f)
    BY <2>2, AtKeeps DEF Inv
  <2> QED
    BY <2>1, <2>2, NextAt
<1>2. job \in [Retirers -> Jobs]
  BY Zenon DEF Inv, AvatarInv
<1>3. CASE FilesNext /\ UNCHANGED avatarVars
  <2>1. PICK f \in FileKeys, P \in SUBSET (Procs \ Retirers) : At(P, f)
    BY <1>3, FilesStep
  <2>2. P \in SUBSET Procs /\ P \cap Retirers = {}
    OBVIOUS
  <2>3. AvatarInv'
    BY <1>2, <1>3, <2>1, <2>2, FilesKeepAvatar, Zenon DEF avatarVars
  <2> QED
    BY <1>1, <2>3 DEF Inv
<1>4. ASSUME NEW r \in Retirers, RetireOwnedAvatar(r) \/ RetireDeletes(r)
      PROVE  AvatarInv'
  <2>1. UNCHANGED <<avatar, retirement, use>>
    BY <1>4 DEF RetireOwnedAvatar, RetireDeletes
  <2>2. job' = job \/ \E pc \in {"finish", "called", "retry"} :
            job[r].pc # "idle" /\ job' = [job EXCEPT ![r].pc = pc]
    BY <1>4 DEF RetireOwnedAvatar, RetireDeletes
  <2>3. /\ job' \in [Retirers -> Jobs]
        /\ \A q \in Retirers : job'[q] # job[q] => job[q] # NoJob /\ job'[q].file = job[q].file
    BY <1>2, <2>2 DEF NoJob, Jobs
  <2>4. CASE UNCHANGED filesVars
    <3>1. snap' = snap
      BY <2>4 DEF filesVars
    <3>2. \A q \in Retirers : job'[q] # NoJob =>
               job'[q].file \in FileKeys /\ retirement'[job'[q].file] # None
      BY <2>1, <2>3, Zenon DEF Inv, AvatarInv
    <3> QED
      BY <2>1, <2>3, <3>1, <3>2, Zenon DEF Inv, AvatarInv
  <2>5. CASE \E f \in FileKeys : At({r}, f) /\ retirement[f] # None
                                  /\ snap'[r].file \in {None, f}
    <3>1. PICK f \in FileKeys : At({r}, f) /\ retirement[f] # None
                                /\ snap'[r].file \in {None, f}
      BY <2>5
    <3>2. {r} \in SUBSET Procs
      BY RetirersCall DEF Procs
    <3> QED
      BY <2>1, <2>3, <3>1, <3>2, FilesKeepAvatar
  <2> QED
    BY <1>4, <2>4, <2>5, RetirementAt, Zenon
<1>5. CASE \/ \E u \in Users : Set(u) \/ Clear(u) \/ \E f \in FileKeys : Inspect(u, f)
           \/ \E r \in Retirers : \/ \E f \in FileKeys : ClaimRetirement(r, f)
                                  \/ Finish(r) \/ Retry(r) \/ RetireTimesOut(r)
           \/ \E f \in FileKeys : RetirementLeaseExpires(f)
  <2>1. UNCHANGED filesVars
    BY <1>5 DEF Set, Clear, Inspect, ClaimRetirement, Finish, Retry, RetireTimesOut,
                RetirementLeaseExpires
  <2> QED
    BY <1>1, <1>5, <2>1, UserKeepsAvatar DEF Inv
<1>6. CASE UNCHANGED vars
  BY <1>1, <1>6, Zenon DEF vars, avatarVars, filesVars, Inv, AvatarInv, NoUse, NoJob
<1> QED
  BY <1>1, <1>3, <1>4, <1>5, <1>6 DEF Next, AvatarNext, RetirerStep, Inv

\* The invariant holds before anything is uploaded.
LEMMA InvInit == AvatarInit => Inv
<1> SUFFICES ASSUME AvatarInit
             PROVE  Inv
  OBVIOUS
<1>1. NoRow \in Rows /\ Idle \in Snaps
  BY IdleTyped DEF NoRow, Rows
<1>2. FilesTyped
  BY <1>1 DEF AvatarInit, Init, FilesTyped
<1>3. ASSUME NEW f \in FileKeys
      PROVE  FileOK(row[f], parts[f], copies[f])
  <2>1. row[f].state = None /\ \A dc \in DCs : copies[f][dc] = None
    BY DEF AvatarInit, Init, NoRow
  <2> QED
    BY <2>1, FilesAssumption DEF FileOK, States, InProgress
<1>4. \A p \in Procs : snap[p] = Idle
  BY DEF AvatarInit, Init
<1>5. FilesInv
  BY <1>2, <1>3, <1>4 DEF FilesInv
<1>6. \A r \in Retirers : snap[r].file = None
  BY <1>4, RetirersCall DEF Procs, Idle
<1>7. AvatarInv
  BY <1>6, Zenon DEF AvatarInit, AvatarInv, NoUse, NoJob, Uses, Jobs
<1> QED
  BY <1>5, <1>7 DEF Inv

\* A READY file is served by every data center: the delivery copies its row describes are
\* all there, for any number of stores and any interleaving of fenced workers, repeated
\* replications and purges.
THEOREM ServedCorrect == Spec => []ReadyIsServed
<1>1. Inv => ReadyIsServed
  BY Zenon DEF Inv, FilesInv, FileOK, ReadyIsServed, Downloadable
<1> QED
  BY <1>1, InvInit, InvNext, PTL DEF Spec

\* A file that is to be scanned has all of its parts (Service.Create, Worker.Step and the
\* cleanups remove none of them before).
THEOREM ScanningCorrect == Spec => []ScanningIsWhole
<1>1. Inv => ScanningIsWhole
  BY Zenon DEF Inv, FilesInv, FileOK, ScanningIsWhole
<1> QED
  BY <1>1, InvInit, InvNext, PTL DEF Spec

\* No retirement is of the current avatar (Repository.Set of the User service, the
\* retirement queue and the deletions that outlive their caller).
THEOREM RetirementCorrect == Spec => []NeverRetiresCurrent
<1>1. Inv => NeverRetiresCurrent
  BY Zenon DEF Inv, AvatarInv, NeverRetiresCurrent
<1> QED
  BY <1>1, InvInit, InvNext, PTL DEF Spec

\* An acceptable upload is rejected by a step that fails in one of the ways the checks take
\* for the document's, and by nothing else (Worker.Step on ErrRejected, Store.Replicate).
THEOREM RejectionCorrect == Spec => RejectsOnlyUnacceptable
<1>1. Inv /\ [Next]_vars =>
        [\A f \in FileKeys :
            row'[f].state = "REJECTED" /\ row[f].state # "REJECTED" =>
                ~Acceptable(row[f].upload) \/ faults' > faults]_vars
  <2> SUFFICES ASSUME Inv, [Next]_vars, NEW f \in FileKeys,
                      row'[f].state = "REJECTED", row[f].state # "REJECTED"
               PROVE  ~Acceptable(row[f].upload) \/ faults' > faults
    OBVIOUS
  <2>1. ~UNCHANGED filesVars
    BY DEF filesVars
  <2>2. PICK g \in FileKeys, P \in SUBSET Procs : At(P, g)
    BY <2>1, NextAt
  <2> QED
    BY <2>2, AtRejects DEF Rejected
<1> QED
  BY <1>1, InvInit, InvNext, PTL DEF Spec, RejectsOnlyUnacceptable
=============================================================================
