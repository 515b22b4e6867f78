SPECIFICATION Spec
CONSTANTS
    p = p  c1 = c1  c2 = c2  c3 = c3
    Closer = Closer
    NoOne = NoOne
    Calls <- OneWarmTwoCalls
    Prewarms <- OnlyPrewarm
    LargeCalls <- OnlyFirst
    MaxChunks = 1
INVARIANTS
    OwnStream SingleWorker ReadyMeansWarm RestartAccounting
    NoWorkerAfterAbort
PROPERTIES
    AbortIsFinal ImplementsContract
