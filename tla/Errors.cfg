SPECIFICATION Spec
CONSTANTS
  Errors <- MCErrors
  Warnings <- MCWarnings
  Recoverable <- MCRecoverable
  Clients <- BalancedClients
  MaxFrames = 4
  MaxRaised = 2
  MaxJunk = 0
INVARIANT TypeOK Discipline FatalStopsAssembly ExitIsExplained
PROPERTY ImplementsErrorStack
