CONSTANTS
    Tokens <- MCMonitorTokens
    MaxWord = 15
    NScratch = 2
    LineSize = 60
    ResponseSize = 30
    BufferWords = 3
    SlotWords = 3
    ScriptTokens <- MCScriptTokens
    ScriptMaxWord = 3
    StateWords = 2
    UnitBytes = 2
    Names = {1, 2}
SPECIFICATION SessionSpec
INVARIANTS SessionTypeOK MonitorContext OnlyRequestedCode NoFileLeft
PROPERTIES AnswersItsRequest Answered SignalEnds
