SPECIFICATION Spec
CONSTANTS
  Keys <- MCKeys
  Geneses <- MCGeneses
  Blocks <- MCRegular
  MaxHeight = 9
  ValHeight = 3
  MaxVals = 2
  MaxRestarts = 1
INVARIANT
  GetCurrentValidators
CHECK_DEADLOCK FALSE
