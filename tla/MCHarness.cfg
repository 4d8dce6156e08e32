\* Two runs of the scripts on two ports.
SPECIFICATION Spec
CONSTANTS
    r1 = r1
    r2 = r2
    Runs = {r1, r2}
    Lineups <- SmallLineups
    Ports = {p1, p2}
    Weeks = {"plannable", "infeasible"}
    HistoryLimit = 2
    Earlier = Earlier
    None = None
    Torn = Torn
INVARIANTS
    TypeOK
    HermeticUnlessPortIsShared
    EvidenceIsOfAWholeRun
    HistoryKept
PROPERTY TearsDown
\* Every run is over.
CHECK_DEADLOCK FALSE
