SPECIFICATION Spec
CONSTANTS
  MaxSteps = 3
  MaxCalls = 2
  MaxBudget = 4
INVARIANTS
  NoUnapprovedResponse
  WithinBudgets
PROPERTY DisabledForGood
