SPECIFICATION DeafSpec
CONSTANTS
    p = p  c1 = c1  c2 = c2  h1 = h1  h2 = h2
    Closer = Closer
    NoOne = NoOne
    Calls <- TwoCalls
    Prewarms <- None
    LargeCalls <- None
    MaxChunks = 1
    Handlers <- TwoHandlers
    Capacity = 0
    Choices <- TwoChoices
PROPERTIES
    ServeReturns
