---------------------------- MODULE Provisioning ----------------------------
(***************************************************************************)
(* What the registration pipeline promises, without outbox, broker or      *)
(* inbox: an account whose registration fact was recorded gets exactly one *)
(* profile, and gets it in the end unless the broker's retention limits    *)
(* removed the fact before the User service saw it. A profile is created   *)
(* once at version 1; later versions are the owner's own updates.          *)
(***************************************************************************)
EXTENDS Naturals

CONSTANT Subjects

VARIABLES accounts, captured, discarded, profiles

provisioningVars == <<accounts, captured, discarded, profiles>>

Init ==
    /\ accounts = {}
    /\ captured = {}
    /\ discarded = {}
    /\ profiles = [s \in Subjects |-> 0]

\* A credential is stored, with or without its registration fact.
OpenAccount(s) ==
    /\ s \notin accounts
    /\ accounts' = accounts \cup {s}
    /\ captured' \in {captured, captured \cup {s}}
    /\ UNCHANGED <<discarded, profiles>>

\* The fact of an account that had none is recorded afterwards.
Recover(s) ==
    /\ s \in accounts \ captured
    /\ captured' = captured \cup {s}
    /\ UNCHANGED <<accounts, discarded, profiles>>

Discard(s) ==
    /\ s \in captured
    /\ discarded' = discarded \cup {s}
    /\ UNCHANGED <<accounts, captured, profiles>>

CreateProfile(s) ==
    /\ s \in captured
    /\ profiles[s] = 0
    /\ profiles' = [profiles EXCEPT ![s] = 1]
    /\ UNCHANGED <<accounts, captured, discarded>>

EditProfile(s) ==
    /\ profiles[s] > 0
    /\ profiles' = [profiles EXCEPT ![s] = @ + 1]
    /\ UNCHANGED <<accounts, captured, discarded>>

Next ==
    \E s \in Subjects : \/ OpenAccount(s) \/ Recover(s) \/ Discard(s)
                        \/ CreateProfile(s) \/ EditProfile(s)

\* What may happen.
Steps == Init /\ [][Next]_provisioningVars

\* And what must.
Spec ==
    /\ Steps
    /\ \A s \in Subjects :
          WF_provisioningVars(s \notin discarded /\ CreateProfile(s))

=============================================================================
