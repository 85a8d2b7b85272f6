SPECIFICATION Spec
CONSTANTS
  Names = {"x", "y", "z", "g", "u"}
  RECURSION_LIMIT = 5
  Programs <- SwapPrograms
INVARIANT ArgumentsMeanTheSameUnderAnyNames
