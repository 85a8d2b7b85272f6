SPECIFICATION Spec
CONSTANTS
  Errors <- MCErrors
  Warnings <- MCWarnings
  Recoverable <- MCRecoverable
  Clients <- OptionalClients
  MaxFrames = 3
  MaxRaised = 1
  MaxJunk = 1
INVARIANT NoSessionLeak
