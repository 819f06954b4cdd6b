SPECIFICATION Spec
CONSTANTS
    Request = {q1, q2}
    Package = {p1, p2}
    NoPackage = NoPackage
    MaxVersion = 2
    Failures = {"db", "rename", "request"}
    MaxFailures = 2
INVARIANTS
    AloneIsAtomic
    NoLeftovers
