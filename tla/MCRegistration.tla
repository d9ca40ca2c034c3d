--------------------------- MODULE MCRegistration ---------------------------
(* One account with a login of its own; RegistrationProofs has any number. *)
EXTENDS Registration

MCIdentifier == [s \in Subjects |-> s]

=============================================================================
