CONSTANTS
    Thread = {t1, t2}
    Nil = Nil
    Half = 4
    Capacities <- MCCapacities
    Deltas <- MCDeltas
    Mins <- MCMins
    MaxEntries = 2
    MaxId = 1
SYMMETRY Threads
SPECIFICATION Spec
INVARIANTS ShardsFollow IdleWithinCapacity ReportedCapacityWasSet
PROPERTIES AdjustIsExact
