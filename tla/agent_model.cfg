\* The agent alone on its task, planning by a language model.
CONSTANTS
    a = a
    Callers = {a}
    Agent = a
    MaxAttempts = 2
    MaxSteps = 5
    UseModel = TRUE
    BuildFailures <- AgentFailures
    MaxCommands = 0
SPECIFICATION AgentSpec
INVARIANTS
    NoAttemptAfterVerdict
CHECK_DEADLOCK FALSE
