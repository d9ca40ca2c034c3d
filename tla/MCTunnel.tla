------------------------------ MODULE MCTunnel ------------------------------
(***************************************************************************)
(* Instances of Tunnel for TLC.                                            *)
(***************************************************************************)
EXTENDS Tunnel

CONSTANTS r1, r2

\* One call with a payload of two frames and a response of three.
One == {r1}
OneBody == [r \in One |-> 2]
OneReply == [r \in One |-> 3]

\* A call with one frame each way and one that is empty.
Two == {r1, r2}
TwoBody == [r \in Two |-> IF r = r1 THEN 1 ELSE 0]
TwoReply == [r \in Two |-> IF r = r1 THEN 1 ELSE 0]

Both == {"in", "out"}
Out == {"out"}
Nobody == {}

=============================================================================
