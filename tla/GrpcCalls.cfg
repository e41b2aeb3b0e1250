SPECIFICATION Spec
CONSTANTS
  RecursionLimit = 15
  Text <- MCText
  Keys <- MCKeys
  Nesting = 9
  Sent <- MCSent
INVARIANTS CallsArriveIntact DeliveredIfAccepted JsonAndPartialKeep RetriesAsAsked
CHECK_DEADLOCK FALSE
