----------------------------- MODULE MCConsole -----------------------------
EXTENDS Console, TLC

MCIfaceLists == {<<"eth0", "eth1">>, <<"eth1">>}
Blue == <<"b">>
Red == <<"r">>
MCVrfOrder == <<Blue, Red>>
Active(vrfs) == [active |-> TRUE, vrfs |-> vrfs]
\* All up; a tenant down, which sorts it first; a peer of the first tenant
\* down, which sorts it last; FRR stopped.
MCFrrStates ==
    {Active(Blue :> ("p1" :> TRUE @@ "p2" :> TRUE) @@ Red :> ("p1" :> TRUE)),
     Active(Blue :> ("p1" :> TRUE @@ "p2" :> TRUE) @@ Red :> ("p1" :> FALSE)),
     Active(Blue :> ("p1" :> FALSE @@ "p2" :> TRUE)),
     [active |-> FALSE, vrfs |-> <<>>]}
MCPeerOrder == <<"p1", "p2">>
MCSyncUnits == <<"frr", "network">>
=============================================================================
