SPECIFICATION LibrarySpec
CONSTANTS
    Savers = {"s1", "s2"}
    MaxVersions = 2
    Uploads = {"u1", "u2"}
    Digests = {"logo"}
    Projects = {"p1", "p2"}
INVARIANTS
    OneActiveVersion
    BlobFileWhole
    ReferenceHasSidecar
PROPERTY ActiveIsKept
CHECK_DEADLOCK FALSE
