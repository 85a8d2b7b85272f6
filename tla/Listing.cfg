SPECIFICATION Spec
CONSTANTS
  Programs <- MCPrograms
  PrefixWidth = 3
  HexColumns = 2
INVARIANT TypeOK LinesShowOutput LinesListed NoPrefixLeft
PROPERTY OverwritesColumns
