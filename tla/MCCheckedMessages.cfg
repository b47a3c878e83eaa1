CONSTANTS
    Calls = {c1, c2, c3}
    NoCall = NoCall
    MaxAnswers = 2
SPECIFICATION Spec
INVARIANT Inv
PROPERTIES OutcomeIsFinal LoopReturnsToReading ImplementsRequestReply
CHECK_DEADLOCK FALSE
