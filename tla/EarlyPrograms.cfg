CONSTANT BUF_SIZE = 5
SPECIFICATION FairSpec
INVARIANTS EarlyInv AlarmIsSet OneSetPerAlarm Resynchronises SilenceIsNotResent
PROPERTY LoopEnds
CHECK_DEADLOCK FALSE
