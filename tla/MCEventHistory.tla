---------------------------- MODULE MCEventHistory ----------------------------
(***************************************************************************)
(* Instances of EventHistory for TLC: one interface, one BGP peer, one     *)
(* BFD peer, one sync unit; the router is in one of a few states.          *)
(***************************************************************************)
EXTENDS EventHistory

MCIfaces   == {"trunk"}
MCPeers    == {"p1"}
MCBfdPeers == {"b1"}
MCUnits    == {"frr-config-sync"}
MCDaemons  == {"zebra", "bgpd", "bfdd"}

Iface(up)  == [i \in MCIfaces |-> [up |-> up, addrs |-> "a1"]]
Unit(w, a) == [u \in MCUnits |-> [word |-> w, age |-> a]]
Bootc(b, s) == [booted |-> b, staged |-> s]

Healthy ==
    [ifaces |-> Iface(TRUE), frr |-> TRUE,
     peers |-> [p \in MCPeers |-> "Established"],
     bfd |-> [b \in MCBfdPeers |-> "up"],
     units |-> Unit("ok", 1), vty |-> {}, dead |-> {},
     bootc |-> Bootc("i1", None)]

PeerDown == [Healthy EXCEPT !.peers = [p \in MCPeers |-> "Idle"],
                            !.bfd = [b \in MCBfdPeers |-> "down"]]
Stopped  == [Healthy EXCEPT !.frr = FALSE, !.ifaces = Iface(FALSE)]
Blind    == [Healthy EXCEPT !.vty = {"bgpd"}]
Vanished == [Healthy EXCEPT !.dead = {"bgpd"}]

\* A session that flaps; with it, the link and FRR going down together, a
\* bgpd that does not answer and one that is gone.
MCFlaps   == {Healthy, PeerDown}
MCWide    == {Healthy, PeerDown, Stopped, Blind, Vanished}
MCStarts  == {Healthy}

=============================================================================
