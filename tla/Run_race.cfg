CONSTANTS
    NSteps = 2
    EnabledSteps <- BothSteps
    Checkpoints <- BothSteps
    HumanSteps <- FirstStep
    MaxIterations = 1
    MaxLLM = 2
    MaxTries = 1
    Clients = {c1, c2}
    Forcing = {c1, c2}
    MaxCrashes = 0
    Model = Model
    Revised = Revised
    NoOutput = NoOutput
SPECIFICATION Spec
SYMMETRY ClientSymmetry
INVARIANTS HumanGate CompletedMeansReviewed WaitHasResult FreshAttempt
PROPERTIES ApprovalMatchesWait
CHECK_DEADLOCK FALSE
