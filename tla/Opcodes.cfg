SPECIFICATION Spec
CONSTANTS
  OpcodesZ80 <- MCOpcodesZ80
  OpcodesEZ80 <- MCOpcodesEZ80
  Sources <- MCSources
  Value <- MCValue
INVARIANT TypeOK WrittenAsRead LegalAccepted BytesCounted NewestFormWins
CHECK_DEADLOCK FALSE
