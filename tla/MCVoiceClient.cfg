SPECIFICATION Spec
CONSTANTS
    None = None
    s1 = s1
    s2 = s2
    s3 = s3
    m1 = m1
    Sessions = {s1, s2, s3}
    Mids = {m1}
    Peers = {p1}
    Scenes <- MCScenes
INVARIANTS
    NoOrphanSession
    SessionAsRequested
    SettingsTakeEffect
PROPERTIES
    VoiceHeals
