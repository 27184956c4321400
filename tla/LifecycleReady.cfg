CONSTANTS
    Runners = {r1, r2}
    Stoppers = {s1, s2}
    subject = subject
    ephemeral = ephemeral
    durable = durable
    Channels <- TwoKinds
    SubjectChs = {subject}
    EphemeralChs = {ephemeral}
    MaxThoughts = 2
    OptionsValid = {TRUE, FALSE}
    EarlyShutdown = FALSE
SPECIFICATION Spec
SYMMETRY Symmetry
CHECK_DEADLOCK FALSE
INVARIANTS
    ReadyMeansSubscribed
    NoSubscriptionLeak
    ShutdownCallersAgree
    DrainedMeansFinished
