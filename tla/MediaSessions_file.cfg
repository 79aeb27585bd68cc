SPECIFICATION FairSpec
CONSTANTS
    Media = {m1, m2, m3, m4}
    Sessions = {s1, s2}
    NumTracks = 2
    None = None
    fReclamationSeconds = 1
    MaxNested = 2
INVARIANTS ReferencesExact NotLeaked
PROPERTIES Reclaimed
