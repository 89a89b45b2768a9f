CONSTANTS
    NSteps = 4
    EnabledSteps <- LongEnabled
    Checkpoints <- LongCheckpoints
    HumanSteps <- LongHuman
    MaxIterations = 2
    MaxLLM = 4
    MaxTries = 2
    Clients = {c1}
    Forcing = {c1}
    MaxCrashes = 2
    Model = Model
    Revised = Revised
    NoOutput = NoOutput
SPECIFICATION FairSpec
INVARIANTS TypeOK HumanGate CompletedMeansReviewed WaitHasResult FreshAttempt PaidFor ArtifactShowsOutput WaitIsActionable FeedbackHonoured
PROPERTIES CursorNeverRewinds RunningSettles QueuedIsTaken KeepsProtocol
CHECK_DEADLOCK FALSE
