\* One tab on one sampling point, with one reading, one alert and two changes of
\* the session or the server; a session lasts one tick of two.
SPECIFICATION Spec
CONSTANTS
    Operators = {"ann", "operator"}
    Tokens = {"t1", "t2", "t3"}
    LegacyOperator = "operator"
    Ttl = 1
    Second = 1
    None = None
    Malformed = Malformed
    Refused = Refused
    Points <- OnePoint
    Envs <- SmallEnvs
    MaxReadings = 1
    MaxNow = 2
    MaxEras = 2
INVARIANT TypeOK
PROPERTIES
    AcknowledgedAsShown
    AckWithinShift
    InboxConverges
    UploadReachesTrend
