SPECIFICATION FairSpec
CONSTANTS
    Ifaces <- MCIfaces
    Peers <- MCPeers
    BfdPeers <- MCBfdPeers
    Units <- MCUnits
    Daemons <- MCDaemons
    None = None
    Consoles = {tty1}
    Worlds <- MCWide
    Starts <- MCStarts
    Capacity = 2
    MaxQueue = 2
    MaxChanges = 2
    MaxEnds = 1
INVARIANTS
    TypeOK
    RingIsFileTail
    PeerDownIsReal
    OutagesLogged
    BlindnessLogged
PROPERTY EventuallyCurrent
