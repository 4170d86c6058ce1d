SPECIFICATION Spec
CONSTANTS
    None = None
    Sessions = {s1, s2, s3}
    Requests = {r1, r2}
    MaxFailures = 2
    MaxOutbox = 2
INVARIANTS
    NoHiddenCapture
    ScreenAsRequested
    ServerAgrees
    NoSharingUnasked
