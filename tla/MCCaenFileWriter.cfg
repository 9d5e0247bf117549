SPECIFICATION Spec
CONSTANTS
    SettingsSet <- MCSettingsSet
    ChannelLists <- MCChannelLists
    Leftovers <- MCLeftovers
    QueueCap = 1
    RunNumbers = {1, 2}
    MaxEvents = 3
    MaxStarts = 2
    FilenumMod = 8
INVARIANTS TypeOK OneRunPerFile EachEventOnce LimitsKept OpenFilesAligned NothingLost
PROPERTIES FilesOnlyGrow StopReturns
CHECK_DEADLOCK FALSE
