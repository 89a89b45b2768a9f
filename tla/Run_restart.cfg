CONSTANTS
    NSteps = 2
    EnabledSteps <- BothSteps
    Checkpoints <- BothSteps
    HumanSteps <- FirstStep
    MaxIterations = 1
    MaxLLM = 2
    MaxTries = 1
    Clients = {c1}
    Forcing = {}
    MaxCrashes = 1
    Model = Model
    Revised = Revised
    NoOutput = NoOutput
SPECIFICATION Spec
INVARIANTS RestartKeepsWait
CHECK_DEADLOCK FALSE
