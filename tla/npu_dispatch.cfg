SPECIFICATION Schedules
CONSTANT Designs <- AllDesigns
CHECK_DEADLOCK FALSE
INVARIANTS Planned OperandsMatch ResultsInPlace ReturnMeansDone
PROPERTY DispatchReturns
