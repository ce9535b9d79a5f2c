CONSTANTS
    Thread = {"t1", "t2"}
    Command = {"c1"}
    Plans <- AllPlans
    MaxBegun = 2
    Line <- SomeLines
    Char = {"x", " ", ":", "#", "-", "'"}
    fa = fa
    fb = fb
    Threads = {"t1", "t2"}
    Commands = {"c1"}
    Folders = {fa, fb}
    None = None
    Lists <- OneListed
    Held <- TwoFolders
    MaxCalls = 2
    MaxStarts = 2
    Tab = {"page"}
    Room = 2
    MaxCommits = 3
    Tool = {"hub", "cli"}
    Lasting = {"hub"}
    SpecId = {"a", "b"}
    Unusable = {}
    Serves <- Servers
    Environ = {"default", "pm", "pm-2"}
    ImportNames <- FreeNames
    Host = {"h1", "h2", "h3"}
    Variable = {"v", "w", "ci"}
    Pipeline <- Pipelines
    HeadFiles = {"kept"}
    Task <- Tasks
    Nil = None
    MaxTasks = 3
    MaxByHand = 1
    MaxFaults = 1
SPECIFICATION BenchSpec
CONSTRAINT Bounded
INVARIANTS
    AnswersAreTrue
    QuietPagesAreCurrent
    ListIsSound
    ServedIsListed
    EditsAreSurgical
    WorkbenchIsSafe
PROPERTIES
    OthersEntriesStay
    StopsBetweenRequests
CHECK_DEADLOCK FALSE
