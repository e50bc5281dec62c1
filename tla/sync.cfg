\* Liveness and safety, refusals, lost connections and discarded answers included.
SPECIFICATION FairSpec
CONSTANTS
  Task = {t1, t2, t3}
  NoTask = NoTask
  MaxResyncs = 1
  MaxChanges = 1
  MaxFaults = 1
  MaxDrops = 2
INVARIANTS TypeOK LockInv DevicesSettle EntitiesSettle EngineSettle AnnouncedSettle TrackerSettle
PROPERTIES NoRegress EventuallyCoherent
CHECK_DEADLOCK FALSE
