----------------------------- MODULE MCAccount -----------------------------
(* Instances of Account. One procedure of each kind of handler is called:  *)
(* every kind of version, the commands of the address book, a read, a file *)
(* route, and the two Auth procedures whose routes are named after others. *)
EXTENDS Account

SomeProcedures ==
    {"GetMe", "UpdateMe", "UpdateSettings", "SetAvatar", "CreateAddress", "UpdateAddress", "DeleteAddress",
     "SetDefaultAddress", "CreateUpload", "Logout", "RevokeSession"}

Symmetry == Permutations(Calls) \cup Permutations(AddressIds)
============================================================================
