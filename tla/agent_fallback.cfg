\* The agent alone on its task, planning by the fallback rules.
CONSTANTS
    a = a
    Callers = {a}
    Agent = a
    MaxAttempts = 5
    MaxSteps = 8
    UseModel = FALSE
    BuildFailures <- AgentFailures
    MaxCommands = 0
SPECIFICATION AgentSpec
INVARIANTS
    AgentTypeOK
    AgentBudget
    SuccessIsReplayed
CHECK_DEADLOCK FALSE
