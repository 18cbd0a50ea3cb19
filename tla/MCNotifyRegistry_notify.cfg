SPECIFICATION NotifySpec
CONSTANTS
    a = a
    b = b
    w1 = w1
    w2 = w2
    p1 = p1
    Clients <- MCClients
    Token <- MCToken
    Colon = ":"
    Global <- MCGlobal
    Channels <- MCChannels
    Scopes <- MCScopes
    Streams <- MCStreams
    NoStream = NoStream
    NoClient = NoClient
    Publishers = {p1}
SYMMETRY Symmetry
INVARIANTS
    NotifyTypeOK
    IndexInverse
    WatchersLive
    PublishHonest
PROPERTIES
    ImplementsPubSub
CHECK_DEADLOCK FALSE
