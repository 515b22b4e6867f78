SPECIFICATION Spec
CONSTANTS
    p = p  c1 = c1  c2 = c2  h1 = h1  h2 = h2
    Closer = Closer
    NoOne = NoOne
    Calls <- WarmAndTwo
    Prewarms <- OnlyPrewarm
    LargeCalls <- None
    MaxChunks = 1
    Handlers <- TwoHandlers
    Capacity = 1
    Choices <- OneCallEach
INVARIANTS
    NoWorkerAfterServe CloseFindsIdle AccountsExact NoLostWakeup
PROPERTIES
    DrainIsFinal
