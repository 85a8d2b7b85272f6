SPECIFICATION Spec
CONSTANTS
  Names = {"a", "b", "d"}
  RECURSION_LIMIT = 4
  Sources <- RstSources
  MaxLines = 3
  BufferSize = 20
PROPERTY DeferredArgumentsAccepted
