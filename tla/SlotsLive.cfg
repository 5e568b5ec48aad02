SPECIFICATION FairSpec
CONSTANTS
    t1 = t1
    t2 = t2
    t3 = t3
    c2 = c2
    p1 = p1
    p2 = p2
    N = 2
    Tasks = {t1, t2, t3}
    Subtasks = {c2}
    NoTask = NoTask
    Prompts = {p1, p2}
    NoPrompt = NoPrompt
    Kind <- Completions
    IdSlot <- ThirdWantsZero
    Children <- OneParent
    Prompt <- FirstIsEmpty
    MayFail = {}
    PromptCache = FALSE
    KvUnified = TRUE
    Cancels = FALSE
INVARIANTS NoTaskLeftBehind
PROPERTIES Answered
CHECK_DEADLOCK FALSE
