----------------------------- MODULE SessionKeys -----------------------------
(***************************************************************************)
(* sessionkeys.Manager: the key file that an operator rewrites is read and *)
(* validated as a whole for every operation; what earlier snapshots said   *)
(* about a key is remembered for as long as the process lives.             *)
(***************************************************************************)
EXTENDS Naturals, FiniteSets

CONSTANT MaxTTL     \* longest life of an assertion

Active(keys, now) == {k \in keys : k.from <= now /\ now < k.until}

\* One entry of the file on its own: its periods, and a private half for as long
\* as it may still have to sign.
ValidKey(k, now) ==
    /\ k.from < k.until
    /\ k.verify >= k.until + MaxTTL
    /\ k.private \/ k.until <= now

\* Mutant: a key may be removed as soon as another one signs.
ConsistentForgets(keys, seen, now) ==
    \A old \in seen : \A k \in keys : k.kid = old.kid => k.verify >= old.verify

\* What remains known of the keys of earlier snapshots: a key may not be trusted
\* for less long than it was, nor disappear while it is trusted. (An id stands for its
\* public key: an id whose fingerprint changes is refused like a shortened one.)
Consistent(keys, seen, now) ==
    \A old \in seen :
        LET same == {k \in keys : k.kid = old.kid} IN
        IF same = {} THEN old.verify <= now
        ELSE \A k \in same : k.verify >= old.verify

\* Manager.load accepts the snapshot: valid entries under distinct names, one key
\* that signs now, signing periods that do not overlap, nothing taken back.
Load(keys, seen, now) ==
    /\ \A k \in keys : ValidKey(k, now)
    /\ \A k, l \in keys : k # l => k.kid # l.kid /\ (k.until <= l.from \/ l.until <= k.from)
    /\ Cardinality(Active(keys, now)) = 1
    /\ Consistent(keys, seen, now)

\* m.seen after a successful load.
Remember(keys, seen) ==
    {old \in seen : \A k \in keys : k.kid # old.kid}
        \cup {[kid |-> k.kid, verify |-> k.verify] : k \in keys}

\* PublicKeys and Key: the keys that are still trusted.
Trusted(keys, now) == {k \in keys : now < k.verify}

=============================================================================
