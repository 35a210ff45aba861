CONSTANTS
    Requests = {r1, r2, r3}
    Percents = {0, 10, 50, 7}
    Allowed = {0, 10, 50}
    Prepared = {0, 10}
    Default = 0
    Custom = Custom
    Torn = Torn
    None = None
    MaxUpsets = 1
SPECIFICATION Spec
INVARIANTS TypeOK ReportTrue
PROPERTIES PolicySpec LockReleased SuccessTakesEffect
CHECK_DEADLOCK FALSE
