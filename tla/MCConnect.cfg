SPECIFICATION ConnectLiveSpec
CONSTANTS
    Callers = {"start", "reconnect"}
    MaxAttempts = 2
    h1 = h1
    h2 = h2
    Hosts <- TwoHosts
    ConfigRelay <- RelayWithoutPort
    None = None
CHECK_DEADLOCK FALSE
INVARIANTS
    MeetsPeerAtOffer
    NoStalePartner
    
PROPERTIES
    ConnectReturns
