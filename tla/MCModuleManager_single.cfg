SPECIFICATION Spec
CONSTANTS
    m1 = m1
    m2 = m2
    t1 = t1
    t2 = t2
    pause = pause
    resume = resume
    Modules <- TwoModules
    Types <- TwoTypes
    TypeOf <- MCTypeOf
    Queued <- OneModule
    QueuedPair <- OneModule
    DirectPair <- OtherModule
    Handlers = {h1}
    Custom <- NoCustom
    Transition <- NoStates
    Target <- NoStates
INVARIANTS TypeOK NoOrphanThreads RunningHasThreads
PROPERTIES DownIsClean StuckIsLeftAlone CommandsAnswered ShutdownCompletes
