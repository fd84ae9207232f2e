SPECIFICATION Spec
CONSTANTS
  Rules <- SomeRules
  MaxRules = 3
  Spellings <- SomeSpellings
  Fold <- LowerCase
INVARIANTS TypeOK ValidateExact FirstFault DefaultDeny
CHECK_DEADLOCK FALSE
