SPECIFICATION ExecutionSpec
CONSTANTS
    local = local
    fast = fast
    grounded = grounded
    openai = openai
    fixture = fixture
    none = none
    Ollama <- MCOllama
    Gemini <- MCGemini
    OpenAI <- MCOpenAI
    WebModels <- MCWebModels
    Structured <- MCStructured
    Served <- MCServed
    LocalModel = local
    CloudModel = fast
    GroundedModel = grounded
    Fixture = fixture
    NoModel = none
    Tasks <- MCTasks
    MaxRetries = 1
    MaxLLM = 4
    MaxTasks = 3
    Files <- MCFiles
    Requests <- MCRequests
    WorkflowId = "flow"
    Identifiers <- MCIdentifiers
    Agents = {"writer"}
    InactiveAgents = {"retired"}
    Contracts <- MCContracts
    Resources = {"prompt"}
    MaxEdits = 2
INVARIANTS
    SensitiveStaysLocal
    OneCallAfterCancel
    RetriesRepair
    FailuresAreRecorded
    WebIsGrounded
    AcceptedModelsFit
PROPERTIES
    KeepsCallBudget
    DecidedIsNotRepeated
CHECK_DEADLOCK FALSE
