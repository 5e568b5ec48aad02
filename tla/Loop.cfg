SPECIFICATION FairSpec
CONSTANTS
    Http = {h1, h2, h3}
    Main = Main
    NoTask = NoTask
    N = 1
    IdleSleep = 2
    PromptWake = TRUE
    Signals <- AnySignal
INVARIANTS ModelOutlivesWork NoForgottenWaiter
PROPERTIES SleepsOnlyWhenIdle AwakeTaskIsAnswered WakeIsServed SignalEndsLoop
CHECK_DEADLOCK FALSE
