------------------------------ MODULE Viewport ------------------------------
(***************************************************************************)
(* Scrolling in the node dashboard (src/console/src/ui.rs): which rows of  *)
(* a listing, a popup or the event log a frame shows.                      *)
(*                                                                         *)
(* Keys change an offset or a selection without knowing how long the       *)
(* content is or how high the window; each frame repairs them against the  *)
(* content and the area of that moment.  The content changes with every    *)
(* snapshot and the area with every resize in between.                     *)
(*                                                                         *)
(* One panel is looked at in a behaviour: the panels share no offset,      *)
(* except the VRF popup and the routes popup drawn over it, which share    *)
(* detail_scroll and of which a behaviour visits both.                     *)
(***************************************************************************)
EXTENDS Naturals, Sequences, FiniteSets, FiniteSetsExt

CONSTANTS
    MaxHeight,      \* bound on the height of the area a panel is drawn in
    MaxItems,       \* bound on interfaces, VRFs and peers
    MaxLines,       \* bound on the lines of a popup; capacity of the event
                    \* ring (500 in the code)
    MaxDropped,     \* bound on the lines the full ring drops
    MaxScroll,      \* stands for u16::MAX, the "very bottom" sentinel
    Page            \* rows of a PageUp/PageDown (10 in the code)

ASSUME ViewportAssumption ==
    /\ MaxHeight \in Nat /\ MaxItems \in Nat /\ MaxLines \in Nat /\ Page \in Nat
    /\ MaxDropped \in Nat
    /\ MaxScroll \in Nat /\ 2 * MaxItems + MaxLines < MaxScroll

VARIABLES
    panel,      \* what is on screen
    content,    \* how much there is to show, see Contents
    height,     \* rows of the area the panel is drawn in
    sel,        \* interfaces_selected, frr_selected or peer_selected
    scroll,     \* interfaces_scroll, frr_scroll, detail_scroll or events_scroll
    follow,     \* events_follow
    drawn,      \* the screen shows the state: nothing happened since the draw
    oldest,     \* lines the ring has dropped: the number of its first line
    reading,    \* history: the reader scrolled the log up and has not returned
    mark        \* history: line on top and oldest, when the reader pressed a key

vars == <<panel, content, height, sel, scroll, follow, drawn, oldest, reading, mark>>

Listings == {"Interfaces", "Frr"}
Popups == {"Plain", "Vrf", "Routes"}
Panels == Listings \cup Popups \cup {"Overview", "Events"}

\* An interface is its number of rows, 2 when it has addresses.  A routes
\* popup is drawn over the popup of a VRF with peers and BFD sessions.
Contents(p) ==
    CASE p \in {"Overview", "Interfaces"} -> UNION {[1 .. n -> {1, 2}] : n \in 0 .. MaxItems}
      [] p = "Frr"             -> UNION {[1 .. n -> {1}] : n \in 0 .. MaxItems}
      [] p \in {"Vrf", "Routes"} -> [peers : 0 .. MaxItems, bfd : 0 .. 1, lines : 1 .. MaxLines]
      [] OTHER                 -> 1 .. MaxLines

(***************************************************************************)
(* Arithmetic on u16 and usize                                             *)
(***************************************************************************)
Least(a, b) == IF a < b THEN a ELSE b
SatSub(a, b) == IF b > a THEN 0 ELSE a - b
SatAdd(a, b) == Least(a + b, MaxScroll)

\* Mutant: the first row below the window counts as visible.
EnsureVisibleLate(offset, row, visible) ==
    IF row < offset THEN row
    ELSE IF visible > 0 /\ row > SatAdd(offset, visible) THEN row + 1 - visible
    ELSE offset

\* Moves the offset just as far as it takes to show the row.
EnsureVisible(offset, row, visible) ==
    IF row < offset THEN row
    ELSE IF visible > 0 /\ row >= SatAdd(offset, visible) THEN row + 1 - visible
    ELSE offset

(***************************************************************************)
(* Listings: an outer border and a header row around the data rows         *)
(***************************************************************************)
\* The rows of the first i: one each, and one more for those with addresses.
RowsBefore(items, i) == i + Cardinality({k \in 1 .. i : items[k] = 2})
Visible == SatSub(height, 3)

Selected == Least(sel, SatSub(Len(content), 1))
\* "(none)" fills an empty listing.
TotalRows == IF content = <<>> THEN 1 ELSE RowsBefore(content, Len(content))

(***************************************************************************)
(* Popups: as high as their content, up to two rows less than the area     *)
(***************************************************************************)
InnerHeight(lines) == Least(lines + 2, height - 2) - 2

\* Mutant: the sentinel and an offset left by longer content stay.
PopupUnclamped(offset, lines, followed) ==
    IF followed = <<>> THEN offset ELSE EnsureVisible(offset, followed[1], InnerHeight(lines))

\* The offset render_popup leaves; `followed` is a row to keep visible, or <<>>.
Popup(offset, lines, followed) ==
    LET inner == InnerHeight(lines)
        shown == IF followed = <<>> THEN offset ELSE EnsureVisible(offset, followed[1], inner)
    IN  Least(shown, SatSub(lines, inner))

\* Two lines for each peer and one hint; BFD sessions after a blank line
\* and a heading.
VrfLines(c) == (IF c.peers = 0 THEN 1 ELSE 2 * c.peers + 1) + (IF c.bfd = 0 THEN 0 ELSE c.bfd + 2)
PeerRow(c) == 2 * Least(sel, SatSub(c.peers, 1))
VrfPopup(offset) ==
    Popup(offset, VrfLines(content), IF content.peers = 0 THEN <<>> ELSE <<PeerRow(content)>>)

(***************************************************************************)
(* The Overview truncates instead: how many items it shows and how many it *)
(* counts in "+N more"                                                     *)
(***************************************************************************)
\* Mutant: the "+N more" row takes the place of the last interface row.
InterfacesVisibleTight(items, budget) ==
    IF budget = 0 THEN <<0, 0>>
    ELSE IF RowsBefore(items, Len(items)) <= budget THEN <<Len(items), 0>>
    ELSE LET shown == Max({n \in 0 .. Len(items) - 1 : RowsBefore(items, n) <= budget})
         IN  <<shown, Len(items) - shown>>

InterfacesVisible(items, budget) ==
    IF budget = 0 THEN <<0, 0>>
    ELSE IF RowsBefore(items, Len(items)) <= budget THEN <<Len(items), 0>>
    ELSE LET shown == Max({n \in 0 .. Len(items) - 1 : RowsBefore(items, n) < budget})
         IN  <<shown, Len(items) - shown>>

BgpVisibleRows(total, budget) ==
    IF budget = 0 THEN <<0, 0>>
    ELSE IF total <= budget THEN <<total, 0>>
    ELSE <<budget - 1, total - (budget - 1)>>

\* frr_panel: the heading and rows, one line saying there is no room, or nothing.
BgpSection(total, budget) ==
    IF total = 0 \/ budget = 0 THEN [lines |-> 0, counted |-> 0]
    ELSE IF budget = 1 THEN [lines |-> 1, counted |-> total]
    ELSE LET v == BgpVisibleRows(total, budget - 1)
         IN  [lines |-> 1 + v[1] + (IF v[2] > 0 THEN 1 ELSE 0), counted |-> v[1] + v[2]]

(***************************************************************************)
(* Drawing                                                                 *)
(***************************************************************************)
DrawOverview ==
    /\ panel = "Overview"
    /\ UNCHANGED <<sel, scroll, follow, reading>>

DrawListing ==
    /\ panel \in Listings
    /\ sel' = Selected
    /\ scroll' = Least(EnsureVisible(scroll, RowsBefore(content, Selected), Visible),
                       SatSub(TotalRows, Visible))
    /\ UNCHANGED <<follow, reading>>

\* The clamp of a popup's height to 3 .. height - 2 needs that range: the
\* process panics below, and the unit starts it anew.
DrawPopup ==
    /\ panel \in Popups /\ height >= 5
    /\ scroll' = CASE panel = "Plain"  -> Popup(scroll, content, <<>>)
                   [] panel = "Vrf"    -> VrfPopup(scroll)
                   [] panel = "Routes" /\ content.peers = 0 -> VrfPopup(scroll)
                   [] panel = "Routes" /\ content.peers > 0 ->
                          Popup(VrfPopup(scroll), content.lines, <<>>)
    /\ UNCHANGED <<sel, follow, reading>>

Bottom == SatSub(content, SatSub(height, 2))

\* Mutant: the log always shows its tail.
DrawEventsAtTail ==
    /\ panel = "Events"
    /\ scroll' = Bottom
    /\ follow' = TRUE
    /\ reading' = (reading /\ scroll < Bottom)
    /\ UNCHANGED sel

DrawEvents ==
    /\ panel = "Events"
    /\ scroll' = IF follow THEN Bottom ELSE Least(scroll, Bottom)
    /\ follow' = (follow \/ scroll >= Bottom)
    /\ reading' = (reading /\ scroll < Bottom)
    /\ UNCHANGED sel

Draw ==
    /\ ~drawn
    /\ DrawOverview \/ DrawListing \/ DrawPopup \/ DrawEvents
    /\ drawn' = TRUE
    /\ UNCHANGED <<panel, content, height, oldest, mark>>

(***************************************************************************)
(* What happens between two frames                                         *)
(***************************************************************************)
Offsets(i) == {SatAdd(i, 1), SatSub(i, 1), SatAdd(i, Page), SatSub(i, Page), 0, MaxScroll}
Notches(i) == {SatAdd(i, 2), SatSub(i, 2)}

\* Arrows, pages, Home and End, and the wheel.
SelectKey ==
    /\ panel \in Listings
    /\ sel' \in Offsets(sel) \cup Notches(sel)
    /\ UNCHANGED <<panel, scroll, follow, reading, mark>>

PeerKey ==
    /\ panel = "Vrf"
    /\ \/ sel' \in Offsets(sel) /\ UNCHANGED scroll
       \/ scroll' \in Notches(scroll) /\ UNCHANGED sel
    /\ UNCHANGED <<panel, follow, reading, mark>>

ScrollKey ==
    /\ panel \in {"Plain", "Routes"}
    /\ scroll' \in Offsets(scroll) \cup Notches(scroll)
    /\ UNCHANGED <<panel, sel, follow, reading, mark>>

\* Opening and closing the routes popup starts at the top.
RoutesKey ==
    /\ panel \in {"Vrf", "Routes"}
    /\ panel' \in {"Vrf", "Routes"}
    /\ scroll' = 0
    /\ UNCHANGED <<sel, follow, reading, mark>>

EventsKey ==
    /\ panel = "Events"
    /\ \/ /\ scroll' \in (Offsets(scroll) \ {MaxScroll}) \cup Notches(scroll)
          /\ follow' = FALSE
          /\ reading' = (scroll' < Bottom)
       \/ /\ follow' = TRUE /\ reading' = FALSE         \* End
          /\ UNCHANGED scroll
    /\ mark' = [line |-> oldest + scroll', oldest |-> oldest]
    /\ UNCHANGED <<panel, sel>>

Key ==
    /\ drawn
    /\ SelectKey \/ PeerKey \/ ScrollKey \/ RoutesKey \/ EventsKey
    /\ drawn' = FALSE
    /\ UNCHANGED <<content, height, oldest>>

\* New events: once the ring is full, each drops its first line.
Logged(n) ==
    /\ content' = Least(content + n, MaxLines)
    /\ oldest' = oldest + (content + n - content')
    /\ oldest' <= MaxDropped

\* A snapshot brings other lists, or events.
NewContent ==
    /\ IF panel = "Events" THEN \E n \in 1 .. MaxLines : Logged(n)
       ELSE content' \in Contents(panel) \ {content} /\ UNCHANGED oldest
    /\ drawn' = FALSE
    /\ UNCHANGED <<panel, height, sel, scroll, follow, reading, mark>>

Resize ==
    /\ height' \in (0 .. MaxHeight) \ {height}
    /\ drawn' = FALSE
    /\ UNCHANGED <<panel, content, sel, scroll, follow, oldest, reading, mark>>

Init ==
    /\ panel \in Panels \ {"Routes"}
    /\ content \in Contents(panel)
    /\ height \in 0 .. MaxHeight
    /\ sel = 0 /\ scroll = 0 /\ follow = FALSE
    /\ drawn = FALSE /\ reading = FALSE
    /\ oldest = 0 /\ mark = [line |-> 0, oldest |-> 0]

Panic ==
    /\ ~drawn /\ panel \in Popups /\ height < 5
    /\ panel' = "Overview" /\ content' \in Contents("Overview")
    /\ sel' = 0 /\ scroll' = 0 /\ follow' = FALSE /\ reading' = FALSE
    /\ UNCHANGED <<height, drawn, oldest, mark>>

Next == Draw \/ Key \/ NewContent \/ Resize \/ Panic

Spec == Init /\ [][Next]_vars

(***************************************************************************)
(* Properties                                                              *)
(***************************************************************************)
\* Types; a drawn listing or popup never starts so far down that it ends
\* in blank rows while earlier ones are hidden.
TypeOK ==
    /\ panel \in Panels /\ content \in Contents(panel) /\ height \in 0 .. MaxHeight
    /\ sel \in 0 .. MaxScroll /\ scroll \in 0 .. MaxScroll
    /\ follow \in BOOLEAN /\ drawn \in BOOLEAN /\ reading \in BOOLEAN
    /\ oldest \in 0 .. MaxDropped /\ mark \in [line : Nat, oldest : 0 .. MaxDropped]
    /\ drawn /\ panel \in Listings => scroll <= SatSub(TotalRows, Visible)
    /\ drawn /\ panel = "Vrf" => scroll <= SatSub(VrfLines(content), InnerHeight(VrfLines(content)))

\* The highlighted row is on screen in every frame that has room for a row,
\* whatever the list and the window did since it was highlighted: the keys
\* never act on a row that cannot be seen.
SelectedOnScreen ==
    LET On(row, rows) == rows > 0 => scroll <= row /\ row < scroll + rows
    IN  drawn => /\ panel \in Listings => On(RowsBefore(content, Selected), Visible)
                 /\ panel = "Vrf" /\ content.peers > 0 =>
                        On(PeerRow(content), InnerHeight(VrfLines(content)))

\* A reader who scrolled the log up keeps his place until he returns to its
\* end, whatever arrives and however the window is resized: following does
\* not resume, and the line on top is the one he left there - moved on by one
\* for each line that the full ring has dropped since, because the offset
\* stays while the ring shifts under it (events.rs:88-91, ui.rs:1823-1832).
ReaderUndisturbed ==
    panel = "Events" /\ reading =>
        ~follow /\ oldest + scroll = mark.line + (oldest - mark.oldest)

\* The Overview hides nothing silently: what it lists and what it counts in
\* "+N more" are all there is, they fit the panel, and no further interface
\* would have.  A panel with no room for one row shows nothing.
OverviewAccounts ==
    panel = "Overview" /\ Visible > 0 =>
        LET v == InterfacesVisible(content, Visible)
            Rows(n) == RowsBefore(content, n) + (IF n < Len(content) THEN 1 ELSE 0)
            s == BgpSection(Len(content), Visible)
        IN  /\ v[1] + v[2] = Len(content)
            /\ Rows(v[1]) <= Visible
            /\ \A n \in v[1] + 1 .. Len(content) : Rows(n) > Visible
            /\ s.counted = Len(content) /\ s.lines <= Visible

\* What the documentation of render_popup says: content longer than fits is
\* reachable with the scroll keys.  End in a popup shows its last line.
EndShowsTheEnd ==
    [][DrawPopup /\ scroll = MaxScroll =>
          /\ panel = "Plain" => scroll' + InnerHeight(content) >= content
          /\ panel = "Routes" /\ content.peers > 0 =>
                 scroll' + InnerHeight(content.lines) >= content.lines]_vars

=============================================================================
