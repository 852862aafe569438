------------------------------- MODULE EventDiff -------------------------------
(***************************************************************************)
(* EventLog::diff (console/src/events.rs): which events the dashboard      *)
(* records for a pair of snapshots.  A snapshot is reduced to what the     *)
(* comparison looks at; an event is <<what, which, verb>>.                 *)
(***************************************************************************)
EXTENDS Naturals

CONSTANTS
    Ifaces,    \* interface names
    Peers,     \* <<vrf, neighbour, address family>> keys
    BfdPeers,  \* BFD peer keys
    Units,     \* sync units
    None       \* absent: interface, peer, BFD peer, bootc answer, digest

\* Over a field that maps names to a state or None.
Known(t) == {x \in DOMAIN t : t[x] # None}
New(o, n)  == Known(n) \ Known(o)
Gone(o, n) == Known(o) \ Known(n)
Both(o, n) == Known(o) \intersect Known(n)

InterfaceEvents(o, n) ==
    LET changed == {i \in Both(o, n) : o[i].up # n[i].up}
    IN  {<<"interface", i, "appeared">> : i \in New(o, n)}
        \union {<<"interface", i, "disappeared">> : i \in Gone(o, n)}
        \union {<<"interface", i, "cameUp">> : i \in {j \in changed : n[j].up}}
        \union {<<"interface", i, "wentDown">> :
                    i \in {j \in changed : ~ n[j].up}}
        \union {<<"interface", i, "addressesNow">> :
                    i \in {j \in Both(o, n) : o[j].addrs # n[j].addrs}}

ServiceEvents(o, n) ==
    IF o = n THEN {}
    ELSE {<<"service", "frr", IF n THEN "started" ELSE "STOPPED">>}

\* Mutant: a peer that is gone is reported as down.
BgpEventsGone(o, n) ==
    LET changed == {p \in Both(o, n) : o[p] # n[p]}
    IN  {<<"bgp", p, "added">> : p \in New(o, n)}
        \union {<<"bgp", p, "established">> :
                    p \in {q \in changed : n[q] = "Established"}}
        \union {<<"bgp", p, "wentDown">> :
                    p \in Gone(o, n) \union {q \in changed : n[q] # "Established"}}

\* Mutant: only the established peers of the new snapshot are looked at.
BgpEventsUp(o, n) ==
    {<<"bgp", p, IF o[p] = None THEN "added" ELSE "established">> :
        p \in {q \in Known(n) : n[q] = "Established" /\ o[q] # n[q]}}

\* A peer that is gone from the new snapshot is not reported.
BgpEvents(o, n) ==
    LET changed == {p \in Both(o, n) : o[p] # n[p]}
    IN  {<<"bgp", p, "added">> : p \in New(o, n)}
        \union {<<"bgp", p, "established">> :
                    p \in {q \in changed : n[q] = "Established"}}
        \union {<<"bgp", p, "wentDown">> :
                    p \in {q \in changed : n[q] # "Established"}}

BfdEvents(o, n) ==
    LET Down(t) == {b \in Both(o, n) : t[b] = "down"}
    IN  {<<"bfd", b, "wentDown">> : b \in Down(n) \ Down(o)}
        \union {<<"bfd", b, "backUp">> : b \in Down(o) \ Down(n)}

\* SyncHealth is compared as a whole, the age of an Ok included.
UnitEvents(o, n) ==
    {<<"unit", u, CASE n[u].word = "ok"     -> "recovered"
                    [] n[u].word = "failed" -> "FAILED"
                    [] OTHER                -> "timerNotActive">> :
        u \in {v \in Units : o[v] # n[v]}}

ErrorEvents(o, n) ==
    {<<"vty", e, "queryFailing">> : e \in n \ o}
    \union (IF o # {} /\ n = {} THEN {<<"vty", "all", "recovered">>} ELSE {})

\* bootc answered on both sides; a digest may be missing all the same, in
\* the text fallback.
BootcEvents(o, n) ==
    IF None \in {o, n} THEN {}
    ELSE {<<"bootc", d, "updateStaged">> :
              d \in {n.staged} \ {None, o.staged}}
         \union {<<"bootc", d, "bootedImage">> :
                     d \in {n.booted} \ {None, o.booted}}

Diff(o, n) ==
    IF o = None THEN {}
    ELSE InterfaceEvents(o.ifaces, n.ifaces)
         \union ServiceEvents(o.frr, n.frr)
         \union (IF o.frr /\ n.frr
                 THEN BgpEvents(o.peers, n.peers) \union BfdEvents(o.bfd, n.bfd)
                 ELSE {})
         \union UnitEvents(o.units, n.units)
         \union ErrorEvents(o.errors, n.errors)
         \union BootcEvents(o.bootc, n.bootc)

=============================================================================
