SPECIFICATION Spec
CONSTANTS
    Request = {q1, q2}
    Package = {p1, p2}
    NoPackage = NoPackage
    MaxVersion = 2
    Failures = {}
    MaxFailures = 0
INVARIANTS
    FailedPushInSync
