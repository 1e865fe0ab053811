SPECIFICATION SurfaceSpec
INVARIANTS
    ReachesAsMeant
    TellsFailures
CHECK_DEADLOCK FALSE
