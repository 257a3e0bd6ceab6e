SPECIFICATION Spec
CONSTANTS
  MaxKeys = 3
  MaxAttempts = 3
  MaxGestures = 2
  MaxAmount = 2
  MaxCash = 1
  Sold = 2
  Debt = 2
INVARIANTS TypeOK OneGestureOneRow OneVisitOneReturn ExpenseIsAsAsked CancelledOrReturned
