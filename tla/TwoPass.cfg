SPECIFICATION Spec
CONSTANTS
  Names = {"a", "b", "d"}
  RECURSION_LIMIT = 4
  Sources <- AllSources
  MaxLines = 5
  BufferSize = 70
INVARIANT TypeOK MeansWhatItSays JumpsLand FileIsWhole SlotsReserved DanglingReported MessagesAsSaid
PROPERTY FillsOnlySlots
