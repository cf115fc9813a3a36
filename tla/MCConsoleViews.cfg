CONSTANTS
    Apps = {a, b}
    Items = {x, y}
    NoApp = NoApp
    NoItem = NoItem
    OpSlots = {1, 2}
    MaxOps = 2
    MaxTurns = 1
    Texts = {0, 1}
    Selections = {"start"}
    Start = "start"
    HistoryLimit = 2
    Names = {f, g}
    NoName = NoName
    NoText = NoText
    Template = 1
    Loads = {load1, load2}
    MaxCalls = 2
    MaxForeign = 1
SPECIFICATION Spec
INVARIANTS
    
    HistoryFollowsValue
    
    
CHECK_DEADLOCK FALSE
