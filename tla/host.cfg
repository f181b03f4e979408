\* Every part of an attempt on its own.
CONSTANTS
    Slots <- ThreeSlots
    Identifiers = {"a", "b"}
    Patches <- SomePatches
    Subjects = {"any", "other"}
    Setups <- SomeSetups
    Cases <- SomeCases
    Writers = {"w1", "w2", "w3"}
    Outcome <- SomeOutcome
    Jobs = {"j1", "j2"}
    Baselines = {"ref1^", "ref2^"}
    Requests <- RequestSpace
    Priorities <- SomePriorities
    Commits = {"c1", "c2", "c3"}
    MaxTries = 2
    MaxFaults = 1
    Worlds <- SomeWorlds
    Kernels <- BoolsNotModules
    TouchedSets <- SomeTouched
    Surveys <- SomeSurveys
    MaxDepth = 2
    Batches <- SomeBatches
    TaskOf <- TaskNumber
    Findings <- SomeFindings
    CommandLines <- SomeLines
    Leftovers <- SomeLeftovers
    KnownPools <- SomePools
    AutoSwitch = TRUE
    AutoReverse = TRUE
    MaxCommands = 2
    Plans <- SomePlans
    MaxRollouts = 2
SPECIFICATION HostSpec
INVARIANTS
    HostTypeOK
    GeneratedTreesCleaned
    VerdictBlamesTree
    OverruledOnlyByApply
    ShrunkToLeast
    LeftoversShow
    OutcomesAsPromised
    PassedMeansTested
    KeptWhileAlone
    NeverOverstated
    SettingsKept
    TakenInOrder
    GivenUpForAnOption
    TargetsCoverThePatch
    ProvenFixesJoin
    PageTellsTheOutcome
    OpenPageCatchesUp
    MachineReady
PROPERTIES
    SuccessLeavesWholeTree
    PoolIsEarned
CHECK_DEADLOCK FALSE
