----------------------------- MODULE Viewport_proofs -----------------------------
(***************************************************************************)
(* Proofs about Viewport, for any number of items and lines, any height of *)
(* the window and any width of the offsets.                                *)
(***************************************************************************)
EXTENDS Viewport, FiniteSetTheorems, WellFoundedInduction, TLAPS

\* A nonempty set of numbers has a least one: every proof below
\* about the order of something rests on it.
LEMMA LeastNumber ==
    ASSUME NEW T \in SUBSET Nat, T # {}
    PROVE  \E n \in T : \A m \in T : n <= m
<1> DEFINE R == {ss \in Nat \X Nat : ss[1] < ss[2]}
<1>1. R = OpToRel(<, Nat)
  BY DEF OpToRel
<1>2. IsWellFoundedOn(R, Nat)
  BY <1>1, NatLessThanWellFounded
<1>3. \E n \in T : \A m \in T : ~ (<<m, n>> \in R)
  <2> HIDE DEF R
  <2> QED BY <1>2, WFMin
<1>4. PICK n \in T : \A m \in T : ~ (<<m, n>> \in R)
  BY <1>3
<1>5. ASSUME NEW m \in T PROVE n <= m
  <2>1. m \in Nat /\ n \in Nat
    OBVIOUS
  <2>2. ~ (m < n)
    BY <1>4, <2>1
  <2> QED BY <2>1, <2>2
<1> QED BY <1>5

\* Sums and remainders of the numbers of lines.
LEMMA SumType == \A a, b \in Nat : a + b \in Nat
OBVIOUS

LEMMA RemainderType == \A a, b, m \in Nat : m <= a + b => a + b - m \in Nat
OBVIOUS

LEMMA MaxOfBounded ==
    ASSUME NEW n \in Nat, NEW A \in SUBSET (0 .. n), A # {}
    PROVE  Max(A) \in A /\ \A x \in A : x <= Max(A)
<1> DEFINE T == {d \in Nat : n - d \in A}
<1>1. PICK x \in A : TRUE
  OBVIOUS
<1>2. n - x \in T
  BY <1>1
<1>3. PICK d \in T : \A e \in T : d <= e
  BY <1>2, LeastNumber
<1>4. n - d \in A
  BY <1>3
<1>5. ASSUME NEW y \in A PROVE n - d >= y
  <2>1. n - y \in T
    OBVIOUS
  <2>2. d \in Nat /\ y \in Nat
    BY <1>3
  <2>3. d <= n - y
    <3> HIDE DEF T
    <3> QED BY <1>3, <2>1
  <2> QED BY <2>2, <2>3
<1>6. \E m \in A : \A y \in A : m >= y
  BY <1>4, <1>5
<1>7. Max(A) \in A /\ \A y \in A : Max(A) >= y
  BY <1>6 DEF Max
<1> QED BY <1>7

-----------------------------------------------------------------------------
(***************************************************************************)
(* Rows                                                                    *)
(***************************************************************************)
LEMMA RowsGrow ==
    ASSUME NEW n \in Nat, NEW items \in [1 .. n -> {1, 2}]
    PROVE  /\ Len(items) = n
           /\ \A i \in 0 .. n : RowsBefore(items, i) \in Nat /\ RowsBefore(items, i) <= 2 * i
           /\ RowsBefore(items, 0) = 0
           /\ \A i, j \in 0 .. n : i < j => RowsBefore(items, i) < RowsBefore(items, j)
<1> DEFINE Tall(i) == {k \in 1 .. i : items[k] = 2}
<1>1. items \in Seq({1, 2}) /\ Len(items) = n
  OBVIOUS
<1>2. ASSUME NEW i \in 0 .. n
      PROVE  IsFiniteSet(Tall(i)) /\ Cardinality(Tall(i)) \in 0 .. i
  <2>1. i \in Nat
    OBVIOUS
  <2>2. IsFiniteSet(1 .. i) /\ Cardinality(1 .. i) = i
    BY <2>1, FS_Interval
  <2>3. Tall(i) \in SUBSET (1 .. i)
    OBVIOUS
  <2> HIDE DEF Tall
  <2>4. IsFiniteSet(Tall(i)) /\ Cardinality(Tall(i)) <= Cardinality(1 .. i)
    BY <2>2, <2>3, FS_Subset
  <2>5. Cardinality(Tall(i)) \in Nat
    BY <2>4, FS_CardinalityType
  <2> QED BY <2>1, <2>2, <2>4, <2>5
<1>3. \A i : RowsBefore(items, i) = i + Cardinality(Tall(i))
  BY DEF RowsBefore
<1>4. ASSUME NEW i \in 0 .. n, NEW j \in 0 .. n, i < j
      PROVE  Cardinality(Tall(i)) <= Cardinality(Tall(j))
  <2>1. Tall(i) \in SUBSET Tall(j)
    BY <1>4
  <2> HIDE DEF Tall
  <2> QED BY <1>2, <2>1, FS_Subset
<1>5. Tall(0) = {}
  OBVIOUS
<1> HIDE DEF Tall
<1>6. \A i \in 0 .. n : RowsBefore(items, i) \in Nat /\ RowsBefore(items, i) <= 2 * i
  BY <1>2, <1>3
<1>7. RowsBefore(items, 0) = 0
  BY <1>3, <1>5, FS_EmptySet
<1>8. ASSUME NEW i \in 0 .. n, NEW j \in 0 .. n, i < j
      PROVE  RowsBefore(items, i) < RowsBefore(items, j)
  <2>1. Cardinality(Tall(i)) \in Nat /\ Cardinality(Tall(j)) \in Nat
    BY <1>2
  <2> QED BY <1>3, <1>4, <1>8, <2>1
<1> QED BY <1>1, <1>6, <1>7, <1>8

\* Showing a row and then giving up blank rows keeps the row on screen.
LEMMA Shown ==
    ASSUME NEW offset \in 0 .. MaxScroll, NEW row \in Nat, NEW total \in Nat, NEW visible \in Nat,
           row < total, row < MaxScroll
    PROVE  LET e == EnsureVisible(offset, row, visible)
               x == Least(e, SatSub(total, visible))
           IN  /\ e \in 0 .. MaxScroll /\ x \in 0 .. MaxScroll
               /\ x <= SatSub(total, visible)
               /\ visible > 0 => x <= row /\ row < x + visible
<1> MaxScroll \in Nat
  BY ViewportAssumption
<1> DEFINE e == EnsureVisible(offset, row, visible)
<1>1. e \in 0 .. MaxScroll /\ (visible > 0 => e <= row /\ row < e + visible)
  <2>1. CASE row < offset
    BY <2>1 DEF EnsureVisible
  <2>2. CASE ~ (row < offset) /\ visible > 0 /\ row >= SatAdd(offset, visible)
    <3>1. row >= offset + visible
      BY <2>2 DEF SatAdd, Least
    <3>2. e = row + 1 - visible
      BY <2>2 DEF EnsureVisible
    <3> QED BY <2>2, <3>1, <3>2
  <2>3. CASE ~ (row < offset) /\ ~ (visible > 0 /\ row >= SatAdd(offset, visible))
    <3>1. e = offset
      BY <2>3 DEF EnsureVisible
    <3>2. visible > 0 => row < offset + visible
      BY <2>3 DEF SatAdd, Least
    <3> QED BY <2>3, <3>1, <3>2
  <2> QED BY <2>1, <2>2, <2>3
<1> HIDE DEF e
<1>2. SatSub(total, visible) \in Nat
      /\ (visible > total => SatSub(total, visible) = 0)
      /\ (visible <= total => SatSub(total, visible) = total - visible)
  BY DEF SatSub
<1> QED BY <1>1, <1>2 DEF e, Least

-----------------------------------------------------------------------------
(***************************************************************************)
(* Types, and what is drawn                                                *)
(***************************************************************************)
\* What the contents of the panels are.
LEMMA ContentTypes ==
    ASSUME TypeOK
    PROVE  /\ panel \in Listings \cup {"Overview"} =>
                 \E n \in 0 .. MaxItems : content \in [1 .. n -> {1, 2}]
           /\ panel \in {"Vrf", "Routes"} =>
                 /\ content.peers \in 0 .. MaxItems /\ content.bfd \in 0 .. 1
                 /\ content.lines \in 1 .. MaxLines
           /\ panel \in {"Plain", "Events"} => content \in 1 .. MaxLines
<1>1. CASE panel \in {"Overview", "Interfaces"}
  BY <1>1 DEF TypeOK, Contents, Listings
<1>2. CASE panel = "Frr"
  <2>1. PICK n \in 0 .. MaxItems : content \in [1 .. n -> {1}]
    BY <1>2 DEF TypeOK, Contents
  <2>2. content \in [1 .. n -> {1, 2}]
    BY <2>1
  <2> QED BY <1>2, <2>2
<1>3. CASE panel \in {"Vrf", "Routes"}
  BY <1>3 DEF TypeOK, Contents, Listings
<1>4. CASE panel \in {"Plain", "Events"}
  BY <1>4 DEF TypeOK, Contents, Listings
<1> QED BY <1>1, <1>2, <1>3, <1>4 DEF TypeOK, Panels, Listings, Popups

\* A frame of a listing: the offset it leaves.
LEMMA ListingShows ==
    ASSUME TypeOK, panel \in Listings, NEW offset \in 0 .. MaxScroll
    PROVE  LET row == RowsBefore(content, Selected)
               x == Least(EnsureVisible(offset, row, Visible), SatSub(TotalRows, Visible))
           IN  /\ Selected \in 0 .. MaxScroll /\ Least(Selected, SatSub(Len(content), 1)) = Selected
               /\ x \in 0 .. MaxScroll /\ x <= SatSub(TotalRows, Visible)
               /\ Visible > 0 => x <= row /\ row < x + Visible
<1> DEFINE row == RowsBefore(content, Selected)
<1>1. PICK n \in 0 .. MaxItems : content \in [1 .. n -> {1, 2}]
  BY ContentTypes
<1>2. /\ MaxScroll \in Nat /\ MaxItems \in Nat /\ MaxLines \in Nat
      /\ 2 * MaxItems + MaxLines < MaxScroll
      /\ n \in Nat /\ n <= MaxItems /\ sel \in 0 .. MaxScroll /\ height \in Nat
  BY ViewportAssumption DEF TypeOK
<1>3. /\ Len(content) = n
      /\ \A i \in 0 .. n : RowsBefore(content, i) \in Nat /\ RowsBefore(content, i) <= 2 * i
      /\ RowsBefore(content, 0) = 0
      /\ \A i, j \in 0 .. n : i < j => RowsBefore(content, i) < RowsBefore(content, j)
  BY <1>1, <1>2, RowsGrow
<1>4. Visible \in Nat
  BY <1>2 DEF Visible, SatSub
<1>5. /\ Selected \in 0 .. MaxScroll /\ Least(Selected, SatSub(Len(content), 1)) = Selected
      /\ n = 0 => Selected = 0
      /\ n # 0 => Selected \in 0 .. n - 1
  BY <1>2, <1>3 DEF Selected, Least, SatSub
<1>6. row \in Nat /\ row < TotalRows /\ row < MaxScroll /\ TotalRows \in Nat
  <2>1. CASE n = 0
    <3>1. content = <<>>
      BY <1>1, <2>1
    <3> QED BY <1>2, <1>3, <1>5, <2>1, <3>1 DEF TotalRows
  <2>2. CASE n # 0
    <3>1. content # <<>>
      BY <1>3, <2>2
    <3>2. Selected \in 0 .. n /\ n \in 0 .. n /\ Selected < n
      BY <1>2, <1>5, <2>2
    <3>3. TotalRows = RowsBefore(content, n) /\ row \in Nat /\ row < RowsBefore(content, n)
          /\ RowsBefore(content, n) \in Nat /\ RowsBefore(content, n) <= 2 * n
      BY <1>3, <3>1, <3>2 DEF TotalRows
    <3> QED BY <1>2, <3>3
  <2> QED BY <2>1, <2>2
<1> HIDE DEF row
<1> DEFINE x == Least(EnsureVisible(offset, row, Visible), SatSub(TotalRows, Visible))
<1>7. /\ x \in 0 .. MaxScroll /\ x <= SatSub(TotalRows, Visible)
      /\ Visible > 0 => x <= row /\ row < x + Visible
  BY <1>4, <1>6, Shown
<1> QED BY <1>5, <1>7 DEF row

\* A frame of the VRF popup: the offset it leaves.
LEMMA VrfShows ==
    ASSUME TypeOK, panel \in {"Vrf", "Routes"}, height >= 5, NEW offset \in 0 .. MaxScroll
    PROVE  LET inner == InnerHeight(VrfLines(content))
           IN  /\ VrfPopup(offset) \in 0 .. MaxScroll
               /\ VrfPopup(offset) <= SatSub(VrfLines(content), inner)
               /\ content.peers > 0 /\ inner > 0 =>
                     VrfPopup(offset) <= PeerRow(content) /\ PeerRow(content) < VrfPopup(offset) + inner
<1> DEFINE lines == VrfLines(content)
           inner == InnerHeight(lines)
           row == PeerRow(content)
<1>1. content.peers \in 0 .. MaxItems /\ content.bfd \in 0 .. 1
  BY ContentTypes
<1>2. /\ MaxScroll \in Nat /\ MaxItems \in Nat /\ MaxLines \in Nat
      /\ 2 * MaxItems + MaxLines < MaxScroll
      /\ sel \in 0 .. MaxScroll /\ height \in Nat /\ height >= 5
  BY ViewportAssumption DEF TypeOK
<1>3. lines \in Nat /\ lines >= 1 /\ lines >= 2 * content.peers
  BY <1>1, <1>2 DEF VrfLines
<1>4. inner \in Nat
  <2> HIDE DEF lines
  <2> QED BY <1>2, <1>3 DEF InnerHeight, Least
<1>5. content.peers > 0 => row \in Nat /\ row < 2 * content.peers
  BY <1>1, <1>2 DEF PeerRow, Least, SatSub
<1>6. CASE content.peers = 0
  <2>1. VrfPopup(offset) = Least(offset, SatSub(lines, inner))
    BY <1>6 DEF VrfPopup, Popup
  <2> HIDE DEF lines, inner
  <2>2. Least(offset, SatSub(lines, inner)) \in 0 .. MaxScroll
        /\ Least(offset, SatSub(lines, inner)) <= SatSub(lines, inner)
    BY <1>2, <1>3, <1>4 DEF Least, SatSub
  <2> QED BY <1>6, <2>1, <2>2 DEF lines, inner
<1>7. CASE content.peers # 0
  <2>1. VrfPopup(offset) = Least(EnsureVisible(offset, row, inner), SatSub(lines, inner))
    BY <1>7 DEF VrfPopup, Popup
  <2>2. row \in Nat /\ row < lines /\ row < MaxScroll
    <3>1. row \in Nat /\ row < 2 * content.peers /\ content.peers \in Nat /\ content.peers <= MaxItems
      BY <1>1, <1>2, <1>5, <1>7
    <3> HIDE DEF row, lines
    <3> QED BY <1>2, <1>3, <3>1
  <2> HIDE DEF lines, inner, row
  <2> DEFINE x == Least(EnsureVisible(offset, row, inner), SatSub(lines, inner))
  <2>3. x \in 0 .. MaxScroll /\ x <= SatSub(lines, inner)
        /\ (inner > 0 => x <= row /\ row < x + inner)
    BY <1>3, <1>4, <2>2, Shown
  <2> QED BY <2>1, <2>3 DEF lines, inner, row
<1> QED BY <1>6, <1>7

\* A popup that follows no row.
LEMMA PopupType ==
    ASSUME NEW offset \in 0 .. MaxScroll, NEW lines \in Nat, height \in Nat, height >= 5
    PROVE  Popup(offset, lines, <<>>) \in 0 .. MaxScroll
<1>1. InnerHeight(lines) \in Nat
  BY DEF InnerHeight, Least
<1>2. Popup(offset, lines, <<>>) = Least(offset, SatSub(lines, InnerHeight(lines)))
  BY DEF Popup
<1>3. SatSub(lines, InnerHeight(lines)) \in Nat
  BY <1>1 DEF SatSub
<1> QED BY <1>2, <1>3, ViewportAssumption DEF Least

\* What a frame leaves: the types, the selected row on screen, and the
\* reader of the log where he was.
ViewInv == TypeOK /\ SelectedOnScreen /\ ReaderUndisturbed

\* The log's history variables, and a reader of a log that is left alone.
LEMMA HistoryTypes ==
    ASSUME TypeOK
    PROVE  /\ oldest \in Nat /\ oldest \in 0 .. MaxDropped
           /\ mark.line \in Nat /\ mark.oldest \in Nat
           /\ mark \in [line : Nat, oldest : 0 .. MaxDropped]
BY ViewportAssumption DEF TypeOK

LEMMA ReaderStays ==
    ASSUME ReaderUndisturbed, panel' = panel, scroll' = scroll, follow' = follow,
           oldest' = oldest, mark' = mark, reading' => reading
    PROVE  ReaderUndisturbed'
BY DEF ReaderUndisturbed

LEMMA OffsetTypes ==
    ASSUME NEW i \in 0 .. MaxScroll
    PROVE  Offsets(i) \subseteq 0 .. MaxScroll /\ Notches(i) \subseteq 0 .. MaxScroll
<1>1. MaxScroll \in Nat /\ Page \in Nat /\ i \in Nat /\ i <= MaxScroll
  BY ViewportAssumption
<1>2. \A n \in Nat : SatAdd(i, n) \in 0 .. MaxScroll /\ SatSub(i, n) \in 0 .. MaxScroll
  BY <1>1 DEF SatAdd, SatSub, Least
<1> QED BY <1>1, <1>2 DEF Offsets, Notches

LEMMA DrawKeeps ==
    ASSUME ViewInv, Draw
    PROVE  ViewInv'
<1>1. /\ TypeOK /\ ReaderUndisturbed /\ drawn' = TRUE
      /\ oldest' = oldest /\ mark' = mark
      /\ panel' = panel /\ content' = content /\ height' = height
  BY DEF ViewInv, Draw
<1>2. sel \in 0 .. MaxScroll /\ scroll \in 0 .. MaxScroll /\ height \in Nat
      /\ follow \in BOOLEAN /\ reading \in BOOLEAN
  BY <1>1, ViewportAssumption DEF TypeOK
<1>3. Visible' = Visible /\ TotalRows' = TotalRows
  BY <1>1 DEF Visible, TotalRows
<1>r. panel # "Events" => ReaderUndisturbed'
  BY <1>1 DEF ReaderUndisturbed
<1>h. oldest' \in 0 .. MaxDropped /\ mark' \in [line : Nat, oldest : 0 .. MaxDropped]
  BY <1>1, HistoryTypes
<1>4. CASE DrawOverview
  BY <1>1, <1>4, <1>r DEF ViewInv, TypeOK, SelectedOnScreen, DrawOverview, Listings
<1>5. CASE DrawListing
  <2> DEFINE row == RowsBefore(content, Selected)
             x == Least(EnsureVisible(scroll, row, Visible), SatSub(TotalRows, Visible))
  <2>1. panel \in Listings /\ sel' = Selected /\ scroll' = x /\ follow' = follow /\ reading' = reading
    BY <1>5 DEF DrawListing
  <2>2. /\ Selected \in 0 .. MaxScroll /\ Least(Selected, SatSub(Len(content), 1)) = Selected
        /\ x \in 0 .. MaxScroll /\ x <= SatSub(TotalRows, Visible)
        /\ Visible > 0 => x <= row /\ row < x + Visible
    BY <1>1, <1>2, <2>1, ListingShows
  <2>3. Selected' = Selected
    BY <1>1, <2>1, <2>2 DEF Selected
  <2>4. panel # "Vrf" /\ panel # "Events"
    BY <2>1 DEF Listings
  <2> HIDE DEF row, x
  <2>5. SelectedOnScreen'
    BY <1>1, <1>3, <2>1, <2>2, <2>3, <2>4 DEF SelectedOnScreen, row
  <2>6. TypeOK'
    BY <1>1, <1>3, <1>h, <2>1, <2>2, <2>4 DEF TypeOK
  <2> QED BY <1>r, <2>4, <2>5, <2>6 DEF ViewInv
<1>6. CASE DrawPopup
  <2>1. panel \in Popups /\ height >= 5 /\ sel' = sel /\ follow' = follow /\ reading' = reading
    BY <1>6 DEF DrawPopup
  <2>2. panel \notin Listings /\ panel # "Events"
    BY <2>1 DEF Popups, Listings
  <2>3. CASE panel = "Plain"
    <3>1. content \in Nat
      BY <1>1, <2>3, ContentTypes
    <3>2. scroll' \in 0 .. MaxScroll
      BY <1>2, <1>6, <2>1, <2>3, <3>1, PopupType DEF DrawPopup
    <3>3. SelectedOnScreen' /\ TypeOK'
      BY <1>1, <1>h, <2>1, <2>2, <2>3, <3>2 DEF SelectedOnScreen, TypeOK
    <3> QED BY <1>r, <2>2, <3>3 DEF ViewInv
  <2>4. CASE panel = "Vrf"
    <3> DEFINE inner == InnerHeight(VrfLines(content))
    <3>1. scroll' = VrfPopup(scroll)
      BY <1>6, <2>4 DEF DrawPopup
    <3>2. /\ scroll' \in 0 .. MaxScroll /\ scroll' <= SatSub(VrfLines(content), inner)
          /\ content.peers > 0 /\ inner > 0 =>
                scroll' <= PeerRow(content) /\ PeerRow(content) < scroll' + inner
      BY <1>1, <1>2, <2>1, <2>4, <3>1, VrfShows
    <3>3. PeerRow(content)' = PeerRow(content) /\ InnerHeight(VrfLines(content))' = inner
          /\ VrfLines(content)' = VrfLines(content)
      BY <1>1, <2>1 DEF PeerRow, InnerHeight
    <3> HIDE DEF inner
    <3>4. TypeOK'
      BY <1>1, <1>h, <2>1, <2>2, <2>4, <3>2, <3>3 DEF TypeOK
    <3>5. SelectedOnScreen'
      BY <1>1, <2>2, <2>4, <3>2, <3>3 DEF SelectedOnScreen
    <3> QED BY <1>r, <2>2, <3>4, <3>5 DEF ViewInv
  <2>5. CASE panel = "Routes"
    <3>1. VrfPopup(scroll) \in 0 .. MaxScroll /\ content.lines \in Nat /\ content.peers \in Nat
      <4>1. VrfPopup(scroll) \in 0 .. MaxScroll
        BY <1>1, <1>2, <2>1, <2>5, VrfShows
      <4>2. content.lines \in 1 .. MaxLines /\ content.peers \in 0 .. MaxItems
        BY <1>1, <2>5, ContentTypes
      <4> QED BY <4>1, <4>2, ViewportAssumption
    <3>2. scroll' \in 0 .. MaxScroll
      BY <1>2, <1>6, <2>1, <2>5, <3>1, PopupType DEF DrawPopup
    <3>3. SelectedOnScreen' /\ TypeOK'
      BY <1>1, <1>h, <2>1, <2>2, <2>5, <3>2 DEF SelectedOnScreen, TypeOK
    <3> QED BY <1>r, <2>2, <3>3 DEF ViewInv
  <2> QED BY <2>1, <2>3, <2>4, <2>5 DEF Popups
<1>7. CASE DrawEvents
  <2>1. panel = "Events" /\ sel' = sel /\ follow' = (follow \/ scroll >= Bottom)
        /\ reading' = (reading /\ scroll < Bottom)
        /\ scroll' = IF follow THEN Bottom ELSE Least(scroll, Bottom)
    BY <1>7 DEF DrawEvents
  <2>2. content \in Nat /\ content <= MaxLines
    BY <1>1, <2>1, ContentTypes, ViewportAssumption
  <2>3. Bottom \in Nat /\ Bottom <= MaxScroll
    BY <1>2, <2>2, ViewportAssumption DEF Bottom, SatSub
  <2>4. scroll' \in 0 .. MaxScroll
    BY <1>2, <2>1, <2>3 DEF Least
  <2>5. follow' \in BOOLEAN /\ reading' \in BOOLEAN
    BY <2>1, Zenon
  <2>6. ReaderUndisturbed'
    <3> SUFFICES ASSUME reading' PROVE ReaderUndisturbed'
      BY DEF ReaderUndisturbed
    <3>1. reading /\ scroll < Bottom
      BY <2>1
    <3>2. ~ follow
      BY <1>1, <2>1, <3>1 DEF ReaderUndisturbed
    <3>3. ~ (scroll >= Bottom) /\ Least(scroll, Bottom) = scroll
      BY <1>2, <2>3, <3>1 DEF Least
    <3>4. scroll' = scroll
      BY <2>1, <3>2, <3>3
    <3>5. follow' = follow
      <4>1. ~ follow'
        BY <2>1, <3>2, <3>3
      <4> QED BY <1>2, <2>5, <3>2, <4>1, Zenon
    <3> QED BY <1>1, <3>1, <3>4, <3>5, ReaderStays
  <2>7. panel \notin Listings /\ panel # "Vrf"
    BY <2>1 DEF Listings
  <2>8. TypeOK'
    BY <1>1, <1>h, <2>1, <2>4, <2>5, <2>7 DEF TypeOK
  <2>9. SelectedOnScreen'
    BY <1>1, <2>7 DEF SelectedOnScreen
  <2> QED BY <2>6, <2>8, <2>9 DEF ViewInv
<1> QED BY <1>4, <1>5, <1>6, <1>7 DEF Draw

\* Keys change offsets and selections, snapshots the content, a resize the
\* height; a popup in a window that is too low ends the process.
LEMMA NextViewInv == ViewInv /\ [Next]_vars => ViewInv'
<1> SUFFICES ASSUME ViewInv, [Next]_vars PROVE ViewInv'
  OBVIOUS
<1>a. TypeOK /\ ReaderUndisturbed
  BY DEF ViewInv
<1>b. /\ sel \in 0 .. MaxScroll /\ scroll \in 0 .. MaxScroll /\ 0 \in 0 .. MaxScroll
      /\ follow \in BOOLEAN /\ reading \in BOOLEAN
  BY <1>a, ViewportAssumption DEF TypeOK
<1>c. /\ oldest \in Nat /\ oldest \in 0 .. MaxDropped
      /\ mark.line \in Nat /\ mark.oldest \in Nat
      /\ mark \in [line : Nat, oldest : 0 .. MaxDropped]
  BY <1>a, HistoryTypes
<1>1. CASE Draw
  BY <1>1, DrawKeeps
<1>2. ASSUME drawn' = FALSE,
             panel' \in Panels, content' \in Contents(panel'), height' \in 0 .. MaxHeight,
             sel' \in 0 .. MaxScroll, scroll' \in 0 .. MaxScroll,
             follow' \in BOOLEAN, reading' \in BOOLEAN, oldest' \in 0 .. MaxDropped,
             mark' \in [line : Nat, oldest : 0 .. MaxDropped], ReaderUndisturbed'
      PROVE  ViewInv'
  BY <1>2 DEF ViewInv, TypeOK, SelectedOnScreen
<1>3. CASE Key
  <2>1. drawn' = FALSE /\ content' = content /\ height' = height /\ oldest' = oldest
        /\ (SelectKey \/ PeerKey \/ ScrollKey \/ RoutesKey \/ EventsKey)
    BY <1>3 DEF Key
  <2>2. CASE SelectKey \/ PeerKey \/ ScrollKey
    <3>1. sel' \in 0 .. MaxScroll /\ scroll' \in 0 .. MaxScroll /\ mark' = mark
          /\ panel' = panel /\ follow' = follow /\ reading' = reading
      BY <1>b, <2>2, OffsetTypes DEF SelectKey, PeerKey, ScrollKey
    <3>2. panel # "Events"
      BY <2>2 DEF SelectKey, PeerKey, ScrollKey, Listings
    <3>3. ReaderUndisturbed'
      BY <3>1, <3>2 DEF ReaderUndisturbed
    <3> QED BY <1>a, <1>b, <1>c, <1>2, <2>1, <3>1, <3>3 DEF TypeOK
  <2>3. CASE RoutesKey
    <3>1. /\ panel \in {"Vrf", "Routes"} /\ panel' \in {"Vrf", "Routes"} /\ mark' = mark
          /\ scroll' = 0 /\ sel' = sel /\ follow' = follow /\ reading' = reading
      BY <2>3 DEF RoutesKey
    <3>2. Contents(panel') = Contents(panel) /\ panel' \in Panels
      BY <3>1 DEF Contents, Panels, Popups
    <3>3. ReaderUndisturbed'
      BY <3>1 DEF ReaderUndisturbed
    <3> QED BY <1>a, <1>b, <1>c, <1>2, <2>1, <3>1, <3>2, <3>3 DEF TypeOK
  <2>4. CASE EventsKey
    <3>1. /\ scroll' \in 0 .. MaxScroll /\ panel' = panel /\ sel' = sel
      BY <1>b, <2>4, OffsetTypes DEF EventsKey
    <3>2. \/ follow' = FALSE /\ reading' = (scroll' < Bottom)
          \/ follow' = TRUE /\ reading' = FALSE
      BY <2>4 DEF EventsKey
    <3>3. follow' \in BOOLEAN /\ reading' \in BOOLEAN /\ (reading' => ~ follow')
      <4>1. (scroll' < Bottom) \in BOOLEAN
        OBVIOUS
      <4> QED BY <3>2, <4>1, Zenon
    <3>4. mark' = [line |-> oldest + scroll', oldest |-> oldest]
      BY <2>4 DEF EventsKey
    <3>5. mark' \in [line : Nat, oldest : 0 .. MaxDropped]
      <4>1. scroll' \in Nat
        <5>1. MaxScroll \in Nat
          BY ViewportAssumption
        <5> QED BY <3>1, <5>1
      <4>2. oldest \in Nat
        BY <1>c, ViewportAssumption
      <4>3. oldest + scroll' \in Nat
        BY <4>1, <4>2, SumType
      <4> QED BY <1>c, <3>4, <4>3
    <3>6. ReaderUndisturbed'
      <4>1. oldest' + scroll' = mark'.line + (oldest' - mark'.oldest)
        BY <1>c, <2>1, <3>1, <3>4, ViewportAssumption
      <4> QED BY <3>3, <4>1, Zenon DEF ReaderUndisturbed
    <3> QED BY <1>a, <1>c, <1>2, <2>1, <3>1, <3>3, <3>5, <3>6 DEF TypeOK
  <2> QED BY <2>1, <2>2, <2>3, <2>4
<1>4. CASE NewContent
  <2>1. /\ drawn' = FALSE
        /\ UNCHANGED <<panel, height, sel, scroll, follow, reading, mark>>
    BY <1>4 DEF NewContent
  <2>2. CASE panel = "Events"
    <3>1. PICK n \in 1 .. MaxLines : Logged(n)
      BY <1>4, <2>2 DEF NewContent
    <3>2. content \in 1 .. MaxLines
      BY <1>a, <2>2, ContentTypes
    <3>3. content' = Least(content + n, MaxLines)
      BY <3>1 DEF Logged
    <3>4. content' \in 1 .. MaxLines /\ content' <= content + n /\ content' \in Nat
      BY <3>2, <3>3, ViewportAssumption DEF Least
    <3>5. oldest' = oldest + (content + n - content') /\ oldest' <= MaxDropped
      BY <3>1 DEF Logged
    <3>6. oldest' \in 0 .. MaxDropped
      <4>a. content \in Nat /\ n \in Nat
        BY <3>1, <3>2, ViewportAssumption
      <4>b. oldest \in Nat
        BY <1>c, ViewportAssumption
      <4>1. content + n - content' \in Nat
        BY <3>4, <4>a, RemainderType
      <4>2. oldest' \in Nat
        BY <3>5, <4>1, <4>b
      <4> QED BY <3>5, <4>2, ViewportAssumption
    <3>7. content' \in Contents(panel')
      BY <2>1, <2>2, <3>4 DEF Contents
    <3>8. ReaderUndisturbed'
      <4> SUFFICES ASSUME reading PROVE ReaderUndisturbed'
        BY <2>1 DEF ReaderUndisturbed
      <4>1. ~ follow /\ oldest + scroll = mark.line + (oldest - mark.oldest)
        BY <1>a, <2>2 DEF ReaderUndisturbed
      <4>2. scroll \in Nat /\ oldest' \in Nat
        BY <1>b, <3>6, ViewportAssumption
      <4>3. oldest' + scroll = mark.line + (oldest' - mark.oldest)
        BY <1>c, <4>1, <4>2
      <4> QED BY <2>1, <4>1, <4>3 DEF ReaderUndisturbed
    <3> QED BY <1>a, <1>b, <1>c, <1>2, <2>1, <3>6, <3>7, <3>8 DEF TypeOK
  <2>3. CASE panel # "Events"
    <3>1. content' \in Contents(panel') /\ oldest' = oldest
      BY <1>4, <2>1, <2>3 DEF NewContent
    <3>2. ReaderUndisturbed'
      BY <2>1, <2>3 DEF ReaderUndisturbed
    <3> QED BY <1>a, <1>b, <1>c, <1>2, <2>1, <3>1, <3>2 DEF TypeOK
  <2> QED BY <2>2, <2>3
<1>5. CASE Resize
  <2>1. /\ height' \in 0 .. MaxHeight /\ drawn' = FALSE
        /\ UNCHANGED <<panel, content, sel, scroll, follow, oldest, reading, mark>>
    BY <1>5 DEF Resize
  <2>2. ReaderUndisturbed'
    BY <1>a, <2>1, ReaderStays
  <2> QED BY <1>a, <1>b, <1>c, <1>2, <2>1, <2>2 DEF TypeOK
<1>6. CASE Panic
  <2>1. /\ panel' = "Overview" /\ content' \in Contents(panel')
        /\ sel' = 0 /\ scroll' = 0 /\ follow' = FALSE /\ reading' = FALSE
        /\ oldest' = oldest /\ mark' = mark
        /\ height' = height /\ drawn' = drawn /\ ~ drawn
    BY <1>6 DEF Panic
  <2>2. drawn' = FALSE
    BY <1>a, <2>1 DEF TypeOK
  <2>3. panel' \in Panels
    BY <2>1 DEF Panels
  <2>4. ReaderUndisturbed'
    BY <2>1 DEF ReaderUndisturbed
  <2> QED BY <1>a, <1>b, <1>c, <1>2, <2>1, <2>2, <2>3, <2>4 DEF TypeOK
<1>7. CASE UNCHANGED vars
  <2>1. UNCHANGED <<panel, content, height, sel, scroll, follow, drawn, oldest, reading,
                    mark>>
    BY <1>7 DEF vars
  <2>2. TypeOK'
    BY <1>a, <2>1 DEF TypeOK, Visible, TotalRows, InnerHeight
  <2>3. SelectedOnScreen'
    BY <2>1 DEF ViewInv, SelectedOnScreen, Visible, TotalRows, InnerHeight, Selected, PeerRow
  <2>4. ReaderUndisturbed'
    BY <1>a, <2>1, ReaderStays
  <2> QED BY <2>2, <2>3, <2>4 DEF ViewInv
<1> QED BY <1>1, <1>3, <1>4, <1>5, <1>6, <1>7 DEF Next

LEMMA InitViewInv == Init => ViewInv
<1> SUFFICES ASSUME Init PROVE ViewInv
  OBVIOUS
<1>1. 0 \in 0 .. MaxScroll /\ 0 \in 0 .. MaxDropped
  BY ViewportAssumption
<1> QED BY <1>1 DEF Init, ViewInv, TypeOK, SelectedOnScreen, ReaderUndisturbed

\* The types of the offsets, which never leave u16, and no frame that ends in
\* blank rows while earlier ones are hidden (ui.rs, the clamps of every
\* panel), for any lists, windows and offsets.
THEOREM TypeCorrect == Spec => []TypeOK
<1>1. ViewInv => TypeOK
  BY DEF ViewInv
<1> QED BY <1>1, InitViewInv, NextViewInv, PTL DEF Spec

\* The highlighted row is on screen in every frame with room for a row
\* (ui.rs, ensure_visible), whatever the list and the window did since.
THEOREM HighlightVisible == Spec => []SelectedOnScreen
<1>1. ViewInv => SelectedOnScreen
  BY DEF ViewInv
<1> QED BY <1>1, InitViewInv, NextViewInv, PTL DEF Spec

\* A reader of the log keeps his place (events.rs:88-91, ui.rs:1823-1832): the
\* line on top moves by the lines a full ring has dropped since and by no
\* more, however many events arrived and however the window was resized.
THEOREM ReadersStay == Spec => []ReaderUndisturbed
<1>1. ViewInv => ReaderUndisturbed
  BY DEF ViewInv
<1> QED BY <1>1, InitViewInv, NextViewInv, PTL DEF Spec

-----------------------------------------------------------------------------
(***************************************************************************)
(* The Overview                                                            *)
(***************************************************************************)
\* The interfaces listed and counted are all; they fit; no more would have.
LEMMA InterfacesAccounted ==
    ASSUME NEW n \in Nat, NEW items \in [1 .. n -> {1, 2}], NEW budget \in Nat, budget > 0
    PROVE  LET v == InterfacesVisible(items, budget)
               Rows(m) == RowsBefore(items, m) + (IF m < n THEN 1 ELSE 0)
           IN  /\ v[1] + v[2] = n /\ v[1] \in 0 .. n
               /\ Rows(v[1]) <= budget
               /\ \A m \in v[1] + 1 .. n : Rows(m) > budget
<1> DEFINE v == InterfacesVisible(items, budget)
           Rows(m) == RowsBefore(items, m) + (IF m < n THEN 1 ELSE 0)
<1>1. /\ Len(items) = n
      /\ \A i \in 0 .. n : RowsBefore(items, i) \in Nat
      /\ RowsBefore(items, 0) = 0
  BY RowsGrow
<1>2. CASE RowsBefore(items, n) <= budget
  <2>1. v = <<n, 0>>
    BY <1>1, <1>2 DEF InterfacesVisible
  <2>2. n \in 0 .. n /\ ~ (n < n) /\ \A m \in n + 1 .. n : FALSE
    OBVIOUS
  <2>3. Rows(n) = RowsBefore(items, n)
    BY <1>1, <2>2
  <2>4. v[1] = n /\ v[2] = 0
    BY <2>1
  <2> HIDE DEF v, Rows
  <2>5. /\ v[1] + v[2] = n /\ v[1] \in 0 .. n
        /\ Rows(v[1]) <= budget
        /\ \A m \in v[1] + 1 .. n : Rows(m) > budget
    BY <1>2, <2>2, <2>3, <2>4
  <2> QED BY <2>5 DEF v, Rows
<1>3. CASE ~ (RowsBefore(items, n) <= budget)
  <2> DEFINE fits == {m \in 0 .. n - 1 : RowsBefore(items, m) < budget}
             shown == Max(fits)
  <2>1. n # 0 /\ n - 1 \in Nat /\ RowsBefore(items, n) \in Nat /\ RowsBefore(items, n) > budget
    <3>1. RowsBefore(items, n) \in Nat
      BY <1>1
    <3> QED BY <1>1, <1>3, <3>1
  <2>2. v = <<shown, n - shown>>
    BY <1>1, <1>3 DEF InterfacesVisible
  <2>3. fits \in SUBSET (0 .. n - 1) /\ 0 \in fits
    BY <1>1, <2>1
  <2>4. shown \in fits /\ \A m \in fits : m <= shown
    <3> HIDE DEF fits
    <3> QED BY <2>1, <2>3, MaxOfBounded
  <2>5. shown \in 0 .. n - 1 /\ RowsBefore(items, shown) < budget /\ RowsBefore(items, shown) \in Nat
    <3>1. shown \in 0 .. n - 1 /\ RowsBefore(items, shown) < budget
      BY <2>4
    <3>2. shown \in 0 .. n
      BY <2>1, <3>1
    <3> QED BY <1>1, <3>1, <3>2
  <2>6. v[1] = shown /\ v[2] = n - shown
    BY <2>2
  <2>7. \A m \in shown + 1 .. n : Rows(m) > budget
    <3> TAKE m \in shown + 1 .. n
    <3>1. m \in 0 .. n /\ m > shown
      BY <2>5
    <3>2. CASE m = n
      BY <2>1, <3>2
    <3>3. CASE m # n
      <4>1. m \in 0 .. n - 1 /\ m < n /\ ~ (m <= shown)
        BY <2>5, <3>1, <3>3
      <4>2. m \notin fits
        BY <2>4, <4>1
      <4>3. RowsBefore(items, m) \in Nat /\ ~ (RowsBefore(items, m) < budget)
        BY <1>1, <3>1, <4>1, <4>2
      <4> QED BY <4>1, <4>3
    <3> QED BY <3>2, <3>3
  <2>8. shown \in Nat /\ shown < n /\ Rows(shown) <= budget
    BY <2>5
  <2> HIDE DEF v, Rows, shown
  <2>9. /\ v[1] + v[2] = n /\ v[1] \in 0 .. n
        /\ Rows(v[1]) <= budget
        /\ \A m \in v[1] + 1 .. n : Rows(m) > budget
    BY <2>5, <2>6, <2>7, <2>8
  <2> QED BY <2>9 DEF v, Rows
<1> QED BY <1>2, <1>3

LEMMA SectionAccounted ==
    ASSUME NEW total \in Nat, NEW budget \in Nat, budget > 0
    PROVE  BgpSection(total, budget).counted = total /\ BgpSection(total, budget).lines <= budget
<1>1. CASE total = 0
  BY <1>1 DEF BgpSection
<1>2. CASE total # 0 /\ budget = 1
  BY <1>2 DEF BgpSection
<1>3. CASE total # 0 /\ budget > 1
  <2> DEFINE v == BgpVisibleRows(total, budget - 1)
  <2>1. CASE total <= budget - 1
    <3>1. v = <<total, 0>>
      BY <1>3, <2>1 DEF BgpVisibleRows
    <3> QED BY <1>3, <2>1, <3>1 DEF BgpSection
  <2>2. CASE ~ (total <= budget - 1)
    <3>1. v = <<budget - 1 - 1, total - (budget - 1 - 1)>>
      BY <1>3, <2>2 DEF BgpVisibleRows
    <3> QED BY <1>3, <2>2, <3>1 DEF BgpSection
  <2> QED BY <2>1, <2>2
<1> QED BY <1>1, <1>2, <1>3

\* The Overview hides nothing silently (ui.rs:733-768, 845-930):
\* listed and counted rows are all there are and they fit, and no
\* further interface would have, for any list and any height.
THEOREM OverviewHidesNothing == Spec => []OverviewAccounts
<1>1. TypeOK => OverviewAccounts
  <2> SUFFICES ASSUME TypeOK, panel = "Overview", Visible > 0 PROVE OverviewAccounts
    BY DEF OverviewAccounts
  <2>1. PICK n \in 0 .. MaxItems : content \in [1 .. n -> {1, 2}]
    BY ContentTypes
  <2>2. n \in Nat /\ Visible \in Nat
    BY ViewportAssumption DEF TypeOK, Visible, SatSub
  <2>3. Len(content) = n
    BY <2>1, <2>2
  <2> DEFINE v == InterfacesVisible(content, Visible)
             Rows(m) == RowsBefore(content, m) + (IF m < n THEN 1 ELSE 0)
  <2>4. /\ v[1] + v[2] = n
        /\ Rows(v[1]) <= Visible
        /\ \A m \in v[1] + 1 .. n : Rows(m) > Visible
    BY <2>1, <2>2, InterfacesAccounted
  <2>5. BgpSection(n, Visible).counted = n /\ BgpSection(n, Visible).lines <= Visible
    BY <2>2, SectionAccounted
  <2> QED BY <2>3, <2>4, <2>5 DEF OverviewAccounts
<1> QED BY <1>1, TypeCorrect, PTL

=============================================================================
