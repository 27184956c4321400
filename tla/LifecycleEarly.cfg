CONSTANTS
    Runners = {r1}
    Stoppers = {s1}
    subject = subject
    ephemeral = ephemeral
    durable = durable
    Channels <- ThreeKinds
    SubjectChs = {subject}
    EphemeralChs = {ephemeral}
    MaxThoughts = 1
    OptionsValid = {TRUE, FALSE}
    EarlyShutdown = TRUE
SPECIFICATION FairSpec
CHECK_DEADLOCK FALSE
PROPERTIES
    ShutdownReturns
    RunReturns
