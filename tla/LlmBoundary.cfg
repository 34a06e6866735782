\* One webhook, every kind of response, keys of up to five characters.
SPECIFICATION Spec
CONSTANTS
  MaxLength = 5
  MaxAttempts = 2
  MaxFaults = 1
INVARIANTS OnlySoundEvents ProvidersAgree UnusableIsNotRetried ReviewKeepsEvidence KeyIsWhatSurvives
PROPERTY ImplementsQueue
CHECK_DEADLOCK FALSE
