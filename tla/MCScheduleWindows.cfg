\* Eight stops and one short shift.
CONSTANTS
    Places <- MCPlaces
    Minutes <- MCMinutes
    Bearing <- MCBearing
    Batches <- HalfHourBatch
    Fleets <- HalfHourFleet
    Solvers = {"greedy2opt", "none"}
    SERVICE_MINUTES = 15
    REPLAN_DAYS = 5
SPECIFICATION Spec
INVARIANT StopsInTheirWindow
\* The planner stops when it has returned or raised.
CHECK_DEADLOCK FALSE
