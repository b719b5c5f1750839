SPECIFICATION FairSpec
CHECK_DEADLOCK FALSE
CONSTANTS
  Commands = {c1, c2}
  MaxStarts = 2
  MaxSignals = 2
  MaxRefused = 2
INVARIANTS
  TypeOK
  QuitTerminatesPostgres
  UpMeansRecorded
  DaemonInv
PROPERTIES
  SignalledDaemonEnds
  StartsEnd
  
