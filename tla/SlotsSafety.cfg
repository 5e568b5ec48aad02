SPECIFICATION Spec
CONSTANTS
    t1 = t1
    t2 = t2
    t3 = t3
    c2 = c2
    p1 = p1
    p2 = p2
    N = 2
    Tasks = {t1, t2, t3}
    Subtasks = {c2}
    NoTask = NoTask
    Prompts = {p1, p2}
    NoPrompt = NoPrompt
    Kind <- EraseThird
    IdSlot <- ThirdWantsZero
    Children <- OneParent
    Prompt <- TwoPrompts
    MayFail = {t2}
    PromptCache = TRUE
    KvUnified = TRUE
    Cancels = TRUE
INVARIANTS OnePlace KeepsOwnPrompt NoOrphan
PROPERTIES OneResult
CHECK_DEADLOCK FALSE
