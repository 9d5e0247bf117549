SPECIFICATION Spec
CONSTANT MaxWork = 3
INVARIANTS TaskNotWrittenWhileCalled ReadyMeansRan
PROPERTY WorkEnds
