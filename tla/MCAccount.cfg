SPECIFICATION Spec
CONSTANTS
  Calls = {c1, c2}
  Asked <- SomeProcedures
  AddressIds = {a1, a2, a3}
  MaxAddresses = 2
  MaxVersion = 2
  None = None
INVARIANTS AnswersAreTrue NoLostUpdate
SYMMETRY Symmetry
CHECK_DEADLOCK FALSE
