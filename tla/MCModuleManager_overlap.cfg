SPECIFICATION Spec
CONSTANTS
    m1 = m1
    m2 = m2
    t1 = t1
    t2 = t2
    pause = pause
    resume = resume
    Modules <- OneModule
    Types <- OneType
    TypeOf <- MCTypeOfOne
    Queued <- OneModule
    QueuedPair = {}
    DirectPair <- OneModule
    Handlers = {h1, h2}
    Custom <- PauseResume
    Transition <- PauseTransition
    Target <- PauseTarget
INVARIANT RunnerHasModule
