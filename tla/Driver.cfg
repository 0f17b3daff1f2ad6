\* Up to three delegated tasks, any text at the end of every call.
CONSTANTS
  Texts <- SomeTexts
  MaxDelegations = 3
SPECIFICATION Spec
INVARIANTS CallsBounded RolesConfined WorkReviewed
PROPERTY ContractSpec
CHECK_DEADLOCK FALSE
