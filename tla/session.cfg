SPECIFICATION FairSpec
CONSTANTS
  None = None
  Cmds <- MCAllCmds
  Parts = {0, 2}
  Zeroed = {FALSE, TRUE}
  FallOff = {FALSE, TRUE}
  MaxRequests = 3
INVARIANT TypeOK
INVARIANT OneChain
INVARIANT InStep
INVARIANT AnswersInOrder
INVARIANT NeverStuck
 
PROPERTY HandlersRunOut
PROPERTY Served
PROPERTY GoneIsNoticed
PROPERTY LivesOnOrGoesDown
CHECK_DEADLOCK FALSE
