SPECIFICATION FairSpec
CONSTANTS
    N = 4
    K = 2
    StepOf <- MCLadderSteps
    Warmups = {1}
    Limit <- MCLadderLimits
    IsLadder = TRUE
    Classes = {"completed", "429", "errored"}
    Starved = TRUE
    MaxFurther = 1
INVARIANTS NoDispatchAfterStop VerdictComplete TripwireExact UnsentExplained
PROPERTIES RunReturns
