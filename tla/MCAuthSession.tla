---------------------------- MODULE MCAuthSession ----------------------------
(* A small instance of AuthSession: two keys; two contents of the key file. *)
EXTENDS AuthSession, TLC

CONSTANTS c1, c2

Key1 == [kid |-> 1, from |-> 1, until |-> 3, verify |-> 5, private |-> TRUE]
Key2 == [kid |-> 2, from |-> 3, until |-> 9, verify |-> 11, private |-> TRUE]

MCKeyFiles == << {Key1, Key2}, {Key2} >>

Symmetry == Permutations(Calls)

=============================================================================
