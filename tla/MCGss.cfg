SPECIFICATION Spec
CONSTANTS
    None = None
    Legs <- LegsAll
    KeyAt <- KeyAtAll
    InitFails = {"f"}
    EarlyFails = {"e"}
    MetaFails = {"g"}
    Width = 3
    BaseI = 5
    BaseA = 9
    MaxHops = 4
    Configs <- MCConfigs
    MaxMsgs <- MCMaxMsgs
    MaxDeliver <- MCMaxDeliver
    MaxCalls = 4
INVARIANTS
    NoFalseAlarm
    ContextsAgree
    SeqExact
    AtMostOnce
