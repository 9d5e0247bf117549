SPECIFICATION Spec
CONSTANTS
    Transports = {"pair", "pub", "local"}
    SenderCap = 1
    WireCap = 1
    ReceiverCap = 1
    MaxMsg = 4
PROPERTIES IsLossyChannel NoLossWhileRunning Delivered StopReturns
