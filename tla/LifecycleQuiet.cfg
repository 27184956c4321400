CONSTANTS
    Runners = {r1}
    Stoppers = {s1}
    subject = subject
    ephemeral = ephemeral
    durable = durable
    Channels <- TwoKinds
    SubjectChs = {subject}
    EphemeralChs = {ephemeral}
    MaxThoughts = 1
    OptionsValid = {TRUE}
    EarlyShutdown = FALSE
SPECIFICATION Spec
CHECK_DEADLOCK FALSE
INVARIANTS
    NilShutdownMeansQuiet
