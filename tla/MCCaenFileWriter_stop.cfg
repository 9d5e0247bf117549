SPECIFICATION Spec
CONSTANTS
    SettingsSet <- MCStopSettings
    ChannelLists <- MCSameChannels
    Leftovers <- MCNoLeftovers
    QueueCap = 1
    RunNumbers = {1}
    MaxEvents = 3
    MaxStarts = 2
    FilenumMod = 8
INVARIANT StoppedFilesClosed
CHECK_DEADLOCK FALSE
