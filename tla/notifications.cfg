SPECIFICATION FairSpec
CONSTANTS
  Event = {e1, e2}
  MaxAttempts = 2
  CallsPerAttempt = 1
  Dispatcher = {d1, d2}
  MaxFaults = 1
  NoEvent = NoEvent
INVARIANTS TypeOK NoNeedlessDuplicate
PROPERTIES ImplementsOutbox EventsSettle
