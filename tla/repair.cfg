\* One task through its whole budget, with a death of the process.
CONSTANTS
    MaxAttempts = 3
    Patches <- SomePatches
    BuildAnswers <- SomeAnswers
    Memories <- SomeMemories
    MaxCrashes = 1
SPECIFICATION LoopSpec
INVARIANTS
    LoopTypeOK
    UnresolvedIsEarned
    FailuresRemembered
PROPERTIES
    RetryTakesAnotherRoute
CHECK_DEADLOCK FALSE
