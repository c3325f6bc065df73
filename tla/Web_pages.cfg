SPECIFICATION Spec
CONSTANTS
    None = None
    Administrator = "admin"
    Contestants = {"u", "v"}
    ContestProblems = {"p", "q"}
    FirstProblems <- TwoProblems
    MaxForms = 2
    MaxClicks = 2
    FirstTests = 1
    MaxTests = 2
    TestTexts = {"", "a"}
    EmptyText = ""
    StoredText = "a"
    MaxEdits = 1
    MaxRemovals = 2
    MaxFaults = 1
    PageLength = 2
    FoundRows = 2
    MaxRecords = 10
    MaxDraws = 2
    MaxChanges = 1
    Solutions = {"x", "y"}
    RunAll = {"y"}
    Judged = {"x"}
    Viewers = {1, 2}
    Wanted <- TwoWanted
    Results = {"SUCCESS"}
    MaxEvents = 3
    TextAreas = {"description"}
    Described <- OneDescription
    Descriptions = {"a", "b", "c"}
    UndoLimit = 3
    KeysLimit = 2
    MaxUses = 4
    Listening = {"f", "g"}
    ListenerPriorities = {1, 10}
    MaxListeners = 2
    MaxFires = 2
INVARIANTS
    PagesTyped
    
    
    ContestTrue
    SubmittedIsSeen
    ContentKept
    DialogsTrue
PROPERTIES
    AskedForIsRemoved
    OnlyStaleSavesTakeBack
    
    Settles
CHECK_DEADLOCK FALSE
