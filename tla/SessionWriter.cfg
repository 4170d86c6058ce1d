SPECIFICATION Spec
CONSTANTS
    Senders = {s1, s2, s3}
    Messages = {m1, m2}
    Capacity = 3
    MaxTaken = 5
CHECK_DEADLOCK FALSE
INVARIANTS
    OneWriter
PROPERTIES
    KeepsPromise
