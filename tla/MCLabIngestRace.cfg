\* One upload on one worker against one manual reading.
CONSTANTS
    u1 = u1  u2 = u2  u3 = u3
    m1 = m1  m2 = m2
    w1 = w1  w2 = w2
    p1 = p1  p2 = p2
    Uploads = {u1}
    Posts = {m1}
    Workers = {w1}
    Points = {p1, p2}
    Registered = {p1}
    Walls = {1, 2}
    Offsets = {0, 1}
    Values = {40, 60, 80, 900}
    Files <- MCFiles
    ManualRows <- MCManualRows
    Blank = Blank
    NoUpload = NoUpload
SPECIFICATION Spec
INVARIANT DuplicatesNeverError
\* Every request may have been answered.
CHECK_DEADLOCK FALSE
