SPECIFICATION FairSpec
CONSTANTS
  Threads = {t1, t2, t3}
  MaxSessions = 3
  MaxPosted = 2
INVARIANT TypeOK
INVARIANT OneAcceptor
INVARIANT OneRun
PROPERTY Polled
PROPERTY Welcomed
PROPERTY LivesOnce
CHECK_DEADLOCK FALSE
