------------------------------ MODULE Console ------------------------------
(***************************************************************************)
(* The node dashboard's two threads (src/console/src/main.rs) and the      *)
(* state its keys drive (AppState, src/console/src/ui.rs).                 *)
(*                                                                         *)
(* The gather thread copies the shared Selection, reads the system and     *)
(* sends a snapshot.  The UI thread drains the channel, draws, waits for   *)
(* one terminal event, applies it and publishes a new Selection.  Which    *)
(* data a popup shows is therefore a race between the keys, the gather     *)
(* already under way, the snapshots still in the channel and a system that *)
(* reorders the lists underneath the selection, which is an index.         *)
(*                                                                         *)
(* A snapshot is abstracted to the lists that can be selected from and to  *)
(* whom its on-demand data is about.  The offsets by which a panel is      *)
(* scrolled are the subject of Viewport.                                   *)
(***************************************************************************)
EXTENDS Naturals, Sequences, FiniteSets, Functions

CONSTANTS
    IfaceLists,     \* the interface listings the kernel may show: sequences of names
    FrrStates,      \* what FRR may report, see World
    VrfOrder,       \* every VRF name in alphabetical order; a name is a sequence of letters
    PeerOrder,      \* every (peer address, AFI) in order
    SyncUnits,      \* snapshot::SYNC_UNITS, a sequence of services
    Letters,        \* the characters typed into the filter
    MaxIndex,       \* stands for usize::MAX, the "very last" sentinel
    Page,           \* rows of a PageUp/PageDown (10 in the code)
    MaxFilter, MaxQueue, MaxPresses, MaxChanges,    \* bounds
    None

IsList(list) == list \in Seq(Range(list))

ASSUME ConsoleAssumption ==
    /\ MaxIndex \in Nat \ {0} /\ Page \in Nat \ {0} /\ MaxQueue \in Nat \ {0}
    /\ MaxFilter \in Nat \ {0}
    /\ \A list \in IfaceLists : IsList(list)
    /\ IsList(VrfOrder) /\ IsList(PeerOrder) /\ IsList(SyncUnits)
    /\ \A f \in FrrStates : DOMAIN f.vrfs \subseteq {VrfOrder[i] : i \in DOMAIN VrfOrder}
    /\ \A f \in FrrStates : ~f.active => f.vrfs = <<>>

VARIABLES
    world,      \* the interfaces and FRR as they are
    asked,      \* the mutex-protected Selection
    gathering,  \* the Selection the gather thread cloned for this tick, or None
    chan,       \* snapshots sent and not yet received
    snap,       \* the snapshot on screen, or None before the first
    ui,         \* AppState
    pc,         \* where the UI thread is: "drain" or "poll"
    presses, changes

vars == <<world, asked, gathering, chan, snap, ui, pc, presses, changes>>

Tabs == <<"Overview", "Interfaces", "Frr", "Events">>
Directions == {"Advertised", "Received"}

(***************************************************************************)
(* The lists.  f.vrfs maps each VRF to its peers, each to whether its      *)
(* session is Established; FrrStatus of an inactive service is empty.      *)
(***************************************************************************)
World == [ifaces : IfaceLists, frr : FrrStates]

\* The nth of a set of positions, and the elements of a list that are in a
\* set, in the order of the list.
NthOf(S, n) == CHOOSE i \in {j \in S : Cardinality({k \in S : k <= j}) = n} : TRUE
Those(list, S) ==
    LET at == {i \in DOMAIN list : list[i] \in S}
    IN  [n \in 1 .. Cardinality(at) |-> list[NthOf(at, n)]]

\* 0: a session is down, 1: all established, 2: no peer configured.
RankVrf(peers) == IF peers = <<>> THEN 2 ELSE IF \A p \in DOMAIN peers : peers[p] THEN 1 ELSE 0

SortedVrfs == [frr \in FrrStates |->
    LET Rank(k) == Those(VrfOrder, {v \in DOMAIN frr.vrfs : RankVrf(frr.vrfs[v]) = k})
    IN  Rank(0) \o Rank(1) \o Rank(2)]

\* Established sessions first: false orders before true in the sort key.
SortedPeerList == [peers \in UNION {Range(frr.vrfs) : frr \in FrrStates} |->
    LET Having(up) == Those(PeerOrder, {p \in DOMAIN peers : peers[p] = up})
    IN  Having(TRUE) \o Having(FALSE)]

Filters == UNION {[1 .. n -> Letters] : n \in 0 .. MaxFilter}
FilterMatches(filter, name) ==
    \E i \in 0 .. Len(name) : /\ i + Len(filter) <= Len(name)
                              /\ SubSeq(name, i + 1, i + Len(filter)) = filter

MatchingVrfs == [frr \in FrrStates |-> [filter \in Filters |->
    Those(SortedVrfs[frr], {v \in Range(SortedVrfs[frr]) : FilterMatches(filter, v)})]]

\* Vec::get(i), with i counted from 0.
Nth(list, i) == IF i < Len(list) THEN list[i + 1] ELSE None

Clamp(i, len) == IF i < len THEN i ELSE IF len = 0 THEN 0 ELSE len - 1

(***************************************************************************)
(* AppState                                                                *)
(***************************************************************************)
InitialUi == [tab |-> "Overview", sel |-> [t \in {"Overview", "Interfaces", "Frr"} |-> 0],
              open |-> FALSE, routes |-> FALSE, dir |-> "Advertised", peer |-> 0,
              filter |-> <<>>, input |-> FALSE]

\* Mutant: moving on from the "very last" sentinel overflows.
PlusUnchecked(i, n) == i + n

\* saturating_add and saturating_sub on a usize.
Plus(i, n) == IF i + n > MaxIndex THEN MaxIndex ELSE i + n
Minus(i, n) == IF n > i THEN 0 ELSE i - n
Moves(i) == {Plus(i, 1), Minus(i, 1), Plus(i, Page), Minus(i, Page), 0, MaxIndex}
Notches(i) == {Plus(i, 2), Minus(i, 2)}

CloseDetail(u) == [u EXCEPT !.open = FALSE, !.routes = FALSE]
CloseRoutes(u) == [u EXCEPT !.routes = FALSE]

\* next_tab and prev_tab: the filter stays.
StepTab(u, step) ==
    LET at == CHOOSE i \in DOMAIN Tabs : Tabs[i] = u.tab
    IN  CloseDetail([u EXCEPT !.tab = Tabs[((at - 1 + step) % Len(Tabs)) + 1]])

SetTab(u, t) == [CloseDetail(u) EXCEPT !.tab = t, !.filter = <<>>, !.input = FALSE]

\* What a key or a notch of the wheel may do to the selection of the tab:
\* targets maps each index to those it may lead to.  Events has none.
Select(u, targets) ==
    IF u.tab \in DOMAIN u.sel
    THEN {[u EXCEPT !.sel[u.tab] = i] : i \in targets[u.sel[u.tab]]}
    ELSE {u}
ByKey == [i \in 0 .. MaxIndex |-> Moves(i)]
ByWheel == [i \in 0 .. MaxIndex |-> Notches(i)]

ToggleDetail(u) ==
    IF u.tab = "Events" \/ (u.tab = "Overview" /\ u.sel[u.tab] = MaxIndex)
    THEN u ELSE [u EXCEPT !.open = ~@, !.routes = u.open /\ @]

OpenRoutes(u, d) ==
    IF u.open /\ u.tab = "Frr" THEN [u EXCEPT !.routes = TRUE, !.dir = d] ELSE u

SelectedPeer(u, s) ==
    LET vrf == Nth(MatchingVrfs[s.frr][u.filter], u.sel["Frr"])
        sorted == SortedPeerList[s.frr.vrfs[vrf]]
    IN  IF ~u.open \/ ~u.routes \/ u.tab # "Frr" \/ vrf = None THEN None
        ELSE IF sorted = <<>> THEN None
        ELSE [dir |-> u.dir, vrf |-> vrf, peer |-> sorted[Clamp(u.peer, Len(sorted)) + 1]]

NoSelection == [interface |-> None, sync |-> None, routes |-> None]

\* update_selection (main.rs)
Asked(u, s) ==
    IF s = None \/ ~u.open THEN NoSelection
    ELSE CASE u.tab = "Interfaces" -> [NoSelection EXCEPT !.interface = Nth(s.ifaces, u.sel[u.tab])]
           [] u.tab = "Overview"   -> [NoSelection EXCEPT !.sync = Nth(SyncUnits, u.sel[u.tab])]
           [] u.tab = "Frr"        -> [NoSelection EXCEPT !.routes = SelectedPeer(u, s)]
           [] OTHER                -> NoSelection

(***************************************************************************)
(* What a frame shows                                                      *)
(***************************************************************************)
\* Drawing a tab clamps the selection of that tab only; without a
\* snapshot nothing is clamped, and sync_table leaves an empty list alone.
Drawn(u, s) ==
    IF s = None \/ u.tab = "Events" THEN u
    ELSE LET len == CASE u.tab = "Overview"   -> Len(SyncUnits)
                      [] u.tab = "Interfaces" -> Len(s.ifaces)
                      [] u.tab = "Frr"        -> Len(MatchingVrfs[s.frr][u.filter])
         IN  [u EXCEPT !.sel[u.tab] = Clamp(@, len)]

OnTab(tab) == snap # None /\ ui.tab = tab /\ ui.open

\* The interface in the title of interface_detail_popup.
ShownInterface == IF OnTab("Interfaces") THEN Nth(snap.ifaces, ui.sel["Interfaces"]) ELSE None

\* The service in the title of the journal popup.
ShownSync == IF OnTab("Overview") THEN Nth(SyncUnits, ui.sel["Overview"]) ELSE None

\* The VRF in the title of vrf_detail_popup.
ShownVrf ==
    IF OnTab("Frr") /\ snap.frr.active THEN Nth(MatchingVrfs[snap.frr][ui.filter], ui.sel["Frr"]) ELSE None

\* The key in the title of routes_popup, drawn over the VRF popup.
ShownRoutes == IF ShownVrf = None \/ ~ui.routes THEN None ELSE SelectedPeer(ui, snap)

\* The answer routes_popup lists: data with another key reads "collecting".
ListedRoutes ==
    IF ShownRoutes = None \/ snap.routes # ShownRoutes THEN None ELSE snap.routes

(***************************************************************************)
(* The gather thread                                                       *)
(***************************************************************************)
\* It clones the Selection at the start of a tick ...
Lock ==
    /\ gathering = None
    /\ gathering' = asked
    /\ UNCHANGED <<world, asked, chan, snap, ui, pc, presses, changes>>

\* ... and reads for it.  The parts of the system are read one after the
\* other: they are independent, so any mix of them is itself a world.
Gather(sel, w, journalRead) ==
    [ifaces |-> w.ifaces, frr |-> w.frr,
     detail |-> IF \E i \in DOMAIN w.ifaces : w.ifaces[i] = sel.interface THEN sel.interface ELSE None,
     journal |-> IF journalRead THEN sel.sync ELSE None,
     routes |-> sel.routes]

Send ==
    /\ gathering # None
    /\ Len(chan) < MaxQueue
    /\ \E journalRead \in BOOLEAN :
          chan' = Append(chan, Gather(gathering, world, journalRead))
    /\ gathering' = None
    /\ UNCHANGED <<world, asked, snap, ui, pc, presses, changes>>

(***************************************************************************)
(* The UI thread                                                           *)
(***************************************************************************)
\* Mutant: a snapshot that reorders the lists leaves the old question.
ReceiveQuietly ==
    /\ pc = "drain" /\ chan # <<>>
    /\ snap' = Head(chan)
    /\ chan' = Tail(chan)
    /\ UNCHANGED <<world, asked, gathering, ui, pc, presses, changes>>

\* The selection is published from the new lists and indices that no draw
\* has clamped to them yet.
Receive ==
    /\ pc = "drain" /\ chan # <<>>
    /\ snap' = Head(chan)
    /\ chan' = Tail(chan)
    /\ asked' = Asked(ui, Head(chan))
    /\ UNCHANGED <<world, gathering, ui, pc, presses, changes>>

Draw ==
    /\ pc = "drain" /\ chan = <<>>
    /\ ui' = Drawn(ui, snap)
    /\ pc' = "poll"
    /\ UNCHANGED <<world, asked, gathering, chan, snap, presses, changes>>

PollTimeout ==
    /\ pc = "poll"
    /\ pc' = "drain"
    /\ UNCHANGED <<world, asked, gathering, chan, snap, ui, presses, changes>>

\* Mutant: the question is published before the key is applied.
HandledLate(u) ==
    /\ pc = "poll" /\ presses < MaxPresses
    /\ ui' = u
    /\ asked' = Asked(ui, snap)
    /\ pc' = "drain"
    /\ presses' = presses + 1
    /\ UNCHANGED <<world, gathering, chan, snap, changes>>

Handled(u) ==
    /\ pc = "poll" /\ presses < MaxPresses
    /\ ui' = u
    /\ asked' = Asked(u, snap)
    /\ pc' = "drain"
    /\ presses' = presses + 1
    /\ UNCHANGED <<world, gathering, chan, snap, changes>>

\* While `/` takes input every key builds the filter.
FilterKey ==
    /\ ui.input
    /\ \/ Handled([ui EXCEPT !.input = FALSE])                        \* Enter
       \/ Handled([ui EXCEPT !.input = FALSE, !.filter = <<>>])       \* Esc
       \/ /\ ui.filter # <<>>                                         \* Backspace
          /\ Handled([ui EXCEPT !.filter = SubSeq(@, 1, Len(@) - 1)])
       \/ \E c \in Letters : /\ Len(ui.filter) < MaxFilter
                             /\ Handled([ui EXCEPT !.filter = Append(@, c)])

OpensRoutes == \E d \in Directions : Handled(OpenRoutes(ui, d))       \* a, r

RoutesKey ==
    /\ ~ui.input /\ ui.open /\ ui.routes
    /\ OpensRoutes \/ Handled(CloseRoutes(ui))                        \* Enter, Esc

\* Mutant: the arrows keep driving the listing under the popup.
PopupMovesListing ==
    /\ ~ui.input /\ ui.open /\ ~ui.routes
    /\ \E u \in Select(ui, ByKey) : Handled(u)

\* On the FRR tab the arrows move the peer, and no draw clamps that index.
PopupKey ==
    /\ ~ui.input /\ ui.open /\ ~ui.routes
    /\ \/ /\ ui.tab = "Frr"
          /\ OpensRoutes \/ \E i \in Moves(ui.peer) : Handled([ui EXCEPT !.peer = i])
       \/ Handled(CloseDetail(ui))                                    \* Enter, Esc

BaseKey ==
    /\ ~ui.input /\ ~ui.open
    /\ \/ ui.tab = "Frr" /\ Handled([ui EXCEPT !.input = TRUE])       \* /
       \/ \E i \in DOMAIN Tabs : Handled(SetTab(ui, Tabs[i]))         \* 1 .. 4
       \/ \E step \in {1, 3} : Handled(StepTab(ui, step))             \* Tab, BackTab
       \/ \E u \in Select(ui, ByKey) : Handled(u)                     \* arrows, Home, End
       \/ Handled(ToggleDetail(ui))                                   \* Enter
       \/ Handled(CloseDetail(ui))                                    \* Esc

\* The wheel moves the selection by two unless a popup is open, `/` input
\* or not; it scrolls a popup, as the keys above left out do.  A resize or
\* a key release changes nothing.  Each ends in update_selection.
Wheel ==
    \/ ~ui.open /\ \E u \in Select(ui, ByWheel) : Handled(u)
    \/ Handled(ui)

\* `b` replaces the process by a login shell, or ends it when the exec
\* fails; a failed draw ends it too.  The unit starts it anew.
Restart ==
    /\ presses < MaxPresses
    /\ pc = "drain" \/ ~ui.input
    /\ asked' = NoSelection /\ gathering' = None /\ chan' = <<>>
    /\ snap' = None /\ ui' = InitialUi /\ pc' = "drain"
    /\ presses' = presses + 1
    /\ UNCHANGED <<world, changes>>

\* Interfaces come and go, sessions go down and come back, FRR stops.
Change ==
    /\ changes < MaxChanges
    /\ world' \in World \ {world}
    /\ changes' = changes + 1
    /\ UNCHANGED <<asked, gathering, chan, snap, ui, pc, presses>>

\* Before the first snapshot a reader may have gone to the FRR tab and
\* filtered it: starting there too spares a run those presses.
FilteredUi == {[SetTab(InitialUi, "Frr") EXCEPT !.filter = <<c>>] : c \in Letters}

Init ==
    /\ world \in World
    /\ asked = NoSelection /\ gathering = None /\ chan = <<>>
    /\ snap = None /\ ui \in {InitialUi} \cup FilteredUi /\ pc = "drain"
    /\ presses = 0 /\ changes = 0

Loop == Receive \/ Draw \/ PollTimeout
Next == Lock \/ Send \/ Loop \/ FilterKey \/ RoutesKey \/ PopupKey \/ BaseKey
        \/ Wheel \/ Restart \/ Change

Spec == Init /\ [][Next]_vars
\* Both threads run: the gather loop sleeps at most one refresh interval
\* and the poll returns after 250 ms.
FairSpec == Spec /\ WF_vars(Lock) /\ WF_vars(Send) /\ WF_vars(Loop)

(***************************************************************************)
(* Properties                                                              *)
(***************************************************************************)
Keys == [dir : Directions, vrf : Range(VrfOrder), peer : Range(PeerOrder)]
Interfaces == {None} \cup UNION {Range(l) : l \in IfaceLists}
Selections ==
    [interface : Interfaces, sync : Range(SyncUnits) \cup {None}, routes : Keys \cup {None}]
Snapshots ==
    [ifaces : IfaceLists, frr : FrrStates, detail : Interfaces,
     journal : Range(SyncUnits) \cup {None}, routes : Keys \cup {None}]
Uis ==
    [tab : Range(Tabs), sel : [{"Overview", "Interfaces", "Frr"} -> 0 .. MaxIndex],
     open : BOOLEAN, routes : BOOLEAN, dir : Directions, peer : 0 .. MaxIndex,
     filter : Filters, input : BOOLEAN]

\* Types; a drawn tab never has its highlight below its last row, a routes
\* popup lies over a VRF popup, and typing into the filter happens only in
\* the FRR listing.
TypeOK ==
    /\ world \in World
    /\ asked \in Selections
    /\ gathering \in Selections \cup {None}
    /\ chan \in Seq(Snapshots) /\ Len(chan) <= MaxQueue
    /\ snap \in Snapshots \cup {None}
    /\ ui \in Uis
    /\ pc \in {"drain", "poll"}
    /\ pc = "poll" => Drawn(ui, snap) = ui
    /\ ui.routes => ui.open /\ ui.tab = "Frr"
    /\ ui.input => ~ui.open /\ ui.tab = "Frr"

\* While the UI waits for a key, the gather thread is asked to read for
\* nothing but the popup on the screen: the lookups of update_selection,
\* made before the draw, and those of the draw agree.
AskedIsShown ==
    pc = "poll" => /\ asked.interface \in {None, ShownInterface}
                   /\ asked.sync \in {None, ShownSync}
                   /\ asked.routes \in {None, ShownRoutes}

\* A key pressed inside a popup never swaps what the popup is about, the
\* trap handle_key names: only a new snapshot, or closing it, may.
NoSwapUnderKeys ==
    [][ui # ui' /\ pc = "poll" /\ ui.open /\ ui'.open =>
          /\ ShownInterface' = ShownInterface
          /\ ShownSync' = ShownSync
          /\ ShownVrf' = ShownVrf]_vars

\* When keys and system rest, every open popup with a subject ends up with
\* the data of that subject (a journal, when it can be read): no answer to
\* an earlier question stays on screen.  TLC's bounds make them rest.
Answered ==
    /\ ShownInterface # None => snap.detail = ShownInterface
    /\ ShownSync # None => snap.journal \in {None, ShownSync}
    /\ ShownRoutes # None => ListedRoutes = ShownRoutes
EventuallyAnswered == <>[]Answered
=============================================================================
