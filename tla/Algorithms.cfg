CONSTANTS
    Process = {r1, r2}
    Path = {"p", "q"}
    Name = {"n"}
    Blob = {"b1", "b2"}
    Says <- MCSays
    MaxChanges = 1
    MaxUpgrades = 1
    MaxCrashes = 1
    Issue = {"i", "j"}
    Comment = {"c", "d"}
    Release = {"r"}
    Page = {"p", "q"}
    Text = {"x", "y"}
    Flow = {"f", "g"}
    Status = {"todo", "done"}
    Finished = {"done"}
    Gone = Gone
    Keys = {"status", "claimed_by", "labels", "updated"}
    Legal <- MCLegal
    Documents <- MCDocuments
    GitShows = {{}, {"MERGE_HEAD"}, {"MERGE_HEAD", "stage1"}}
    Kinds = {"doc", "broken", "unreadable"}
    MaxLines = 3
    MaxTokens = 7
    MaxSteps = 3
    MaxTouches = 3
    MaxImports = 3
    MaxPieces = 4
    MaxTrees = 3
    MaxRun = 3
INIT Init
NEXT Next
SYMMETRY Symmetry
CONSTRAINT Bounded
INVARIANTS
    
    RefreshIsARebuild
    ChainsAreJudgedAsTheyRun
    BoardsAreTrue
    CodeIsToldTruly
    TextsAreKept
    MergesAreRight
CHECK_DEADLOCK FALSE
