SPECIFICATION Safety
CONSTANTS
    Transports = {"pair"}
    SenderCap = 1
    WireCap = 1
    ReceiverCap = 1
    MaxMsg = 3
INVARIANT SentWhole
