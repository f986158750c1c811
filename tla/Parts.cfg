SPECIFICATION FairSpec
CONSTANTS
    Requests <- TwoRequests
    Tools <- SomeTools
    Exec = "workspace.exec"
    UnknownTool = "unknown"
    PermissionOf <- Permissions
    Setups <- AllSetups
    MaxRequests = 3
    MaxLines = 3
    Artifacts <- TwoArtifacts
    Keys <- TwoKeys
    MaxPerWindow = 2
    WindowMs = 2
    MaxTime = 3
    MaxChecks = 3
    ToolCalls <- TwoToolCalls
    TextSizes <- NoneOrSome
    Budgets <- SomeBudgets
    PageLimit = 2
    MaxLog = 4
    MaxExport = 6
CHECK_DEADLOCK FALSE
INVARIANTS
    RunsOnlyAllowed
    DockerRunEnds
    CallersSettledOnce
    ArtifactsWhole
    RateWindows
    BundleExact
    InputExact
PROPERTIES
    CallersAnswered
