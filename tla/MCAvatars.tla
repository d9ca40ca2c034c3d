----------------------------- MODULE MCAvatars -----------------------------
(* One file, two calls of its owner, two processing workers, one retirement worker. *)
EXTENDS Avatars, TLC

\* A picture, a document with too many pages, and a picture a signature matches.
Picture == [format |-> "PNG", container |-> TRUE, pages |-> 1, encrypted |-> FALSE,
            converts |-> TRUE, fits |-> TRUE, infected |-> FALSE]
MCUploads == {Picture, [Picture EXCEPT !.format = "PDF", !.pages = 2],
              [Picture EXCEPT !.infected = TRUE]}

MCDelivery == <<"dc1", "dc2">>

OwnerCalls == Calls \ Retirers
Symmetry == Permutations(OwnerCalls) \cup Permutations(Workers) \cup Permutations(Digests)
=============================================================================
