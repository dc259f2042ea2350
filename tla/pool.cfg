SPECIFICATION FairSpec
CONSTANTS
  Workers = {w1, w2, w3}
  NbJobs = 4
  Rounds = 2
  Nobody = Nobody
INVARIANTS TypeOK CallOutlivesItsJobs BusyWhileWorking
PROPERTIES BarrierSpec PoolStops
