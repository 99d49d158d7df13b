SPECIFICATION ReadersSpec
CONSTANTS
    o1 = o1
    o2 = o2
    Owners = {o1, o2}
    FileHarnesses = {"claude-code", "qwen", "generic", "codex"}
    SourceLines <- MCSourceLines
    MaxLines = 4
    NoRoot = NoRoot
    MaxMessages = 4
    MaxParts = 2
    Queueing = FALSE
INVARIANTS
    LiveSpeaksAsReplay
    FailureIsMissingNotMisreported
    RolloutCutsDoNotShow
    AnswersAreWholeAndOnce
    RecordIsWhole
CHECK_DEADLOCK FALSE
