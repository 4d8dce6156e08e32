\* Weeks of up to five stops for five fleets, with 2-opt and without it.
CONSTANTS
    Places <- MCPlaces
    Minutes <- MCMinutes
    Bearing <- MCBearing
    Batches <- MCBatches
    Fleets <- MCFleets
    Solvers = {"greedy2opt", "none"}
    SERVICE_MINUTES = 15
    REPLAN_DAYS = 5
SPECIFICATION Spec
INVARIANTS
    TypeOK
    EveryStopOnce
    NoTriedReversalHelps
    ShiftHolds
PROPERTY Terminates
\* The planner stops when it has returned or raised.
CHECK_DEADLOCK FALSE
