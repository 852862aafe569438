SPECIFICATION Spec
CONSTANTS
    Ifaces <- MCIfaces
    Peers <- MCPeers
    BfdPeers <- MCBfdPeers
    Units <- MCUnits
    Daemons <- MCDaemons
    None = None
    Consoles = {tty1}
    Worlds <- MCFlaps
    Starts <- MCFlaps
    Capacity = 3
    MaxQueue = 2
    MaxChanges = 2
    MaxEnds = 0
PROPERTY DiffIsConsecutive
