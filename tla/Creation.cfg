SPECIFICATION Spec
CONSTANTS
    h1 = h1
    h2 = h2
    Forms = {"ui"}
    Scripts = {"script"}
    Handlers = {h1, h2}
    Bodies = {"post", "report"}
    Branded = {"post"}
    Savers = {"s1"}
    MaxVersions = 2
    MaxKeys = 2
SYMMETRY Symmetry
INVARIANTS
    OneRunPerIntent
    AnswerIsOwnRun
    BrandIsNamed
CHECK_DEADLOCK FALSE
