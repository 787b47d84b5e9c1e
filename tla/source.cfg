SPECIFICATION Spec
CONSTANTS
  InitSize = 4
  HeaderSize = 0
  RecordSizes = {3, 5}
  BodySizes = {0, 2, 6}
  MaxBytes = 10
  LocalSize = 2
  SocketSize = 4
  MaxRequests = 3
INVARIANT TypeOK
INVARIANT InBounds
 
 
CHECK_DEADLOCK FALSE
