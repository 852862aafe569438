----------------------------- MODULE Console_proofs -----------------------------
(***************************************************************************)
(* Proofs about Console, for any lists of interfaces, VRFs and peers, any  *)
(* states of FRR and any bounds.                                           *)
(***************************************************************************)
EXTENDS Console, FiniteSetTheorems, WellFoundedInduction, TLAPS

\* A nonempty set of numbers has a least one: every proof below
\* about the order of something rests on it.
LEMMA LeastNumber ==
    ASSUME NEW T \in SUBSET Nat, T # {}
    PROVE  \E n \in T : \A m \in T : n <= m
<1> DEFINE R == {ss \in Nat \X Nat : ss[1] < ss[2]}
<1>1. R = OpToRel(<, Nat)
  BY DEF OpToRel
<1>2. IsWellFoundedOn(R, Nat)
  BY <1>1, NatLessThanWellFounded
<1>3. \E n \in T : \A m \in T : ~ (<<m, n>> \in R)
  <2> HIDE DEF R
  <2> QED BY <1>2, WFMin
<1>4. PICK n \in T : \A m \in T : ~ (<<m, n>> \in R)
  BY <1>3
<1>5. ASSUME NEW m \in T PROVE n <= m
  <2>1. m \in Nat /\ n \in Nat
    OBVIOUS
  <2>2. ~ (m < n)
    BY <1>4, <2>1
  <2> QED BY <2>1, <2>2
<1> QED BY <1>5

\* How many elements of a set come up to a number.
UpTo(S, j) == {k \in S : k <= j}

LEMMA UpToFinite ==
    ASSUME NEW n \in Nat, NEW S \in SUBSET (1 .. n), NEW j
    PROVE  /\ IsFiniteSet(S) /\ Cardinality(S) \in Nat
           /\ IsFiniteSet(UpTo(S, j)) /\ Cardinality(UpTo(S, j)) \in Nat
<1>1. IsFiniteSet(1 .. n)
  BY FS_Interval
<1>2. UpTo(S, j) \in SUBSET (1 .. n)
  BY DEF UpTo
<1> QED BY <1>1, <1>2, FS_Subset, FS_CardinalityType

\* Any set of positions has an nth.
LEMMA NthOfMember ==
    ASSUME NEW n \in Nat, NEW S \in SUBSET (1 .. n), NEW m \in 1 .. Cardinality(S)
    PROVE  NthOf(S, m) \in S
<1>0. \A k \in S : k \in Nat /\ 1 <= k /\ k <= n
  OBVIOUS
<1> DEFINE T == {i \in Nat : Cardinality(UpTo(S, i)) >= m}
<1>1. n \in T
  <2>1. UpTo(S, n) = S
    BY <1>0 DEF UpTo
  <2>2. Cardinality(S) \in Nat
    BY UpToFinite
  <2> QED BY <2>1, <2>2
<1>2. PICK i \in T : \A e \in T : i <= e
  BY <1>1, LeastNumber
<1>3. i # 0
  <2>0. \A k \in S : ~ (k <= 0)
    BY <1>0
  <2>1. UpTo(S, 0) = {}
    BY <2>0 DEF UpTo
  <2>2. 0 \notin T
    BY <2>1, FS_EmptySet
  <2> QED BY <1>2, <2>2
<1>4. i - 1 \in Nat /\ i - 1 \notin T
  BY <1>2, <1>3
<1>5. /\ Cardinality(UpTo(S, i - 1)) < m /\ Cardinality(UpTo(S, i)) >= m
      /\ Cardinality(UpTo(S, i - 1)) \in Nat /\ Cardinality(UpTo(S, i)) \in Nat
  <2>1. Cardinality(UpTo(S, i - 1)) \in Nat /\ Cardinality(UpTo(S, i)) \in Nat
    BY UpToFinite
  <2>2. Cardinality(S) \in Nat
    BY UpToFinite
  <2> QED BY <1>2, <1>4, <2>1, <2>2
<1>6. i \in S
  <2> SUFFICES ASSUME i \notin S PROVE FALSE
    OBVIOUS
  <2>1. \A k \in S : k <= i <=> k <= i - 1
    BY <1>0, <1>2
  <2>2. UpTo(S, i) = UpTo(S, i - 1)
    BY <2>1 DEF UpTo
  <2>3. Cardinality(S) \in Nat
    BY UpToFinite
  <2> QED BY <1>5, <2>2, <2>3
<1>7. Cardinality(UpTo(S, i)) = m
  <2>0. \A k \in S : k <= i <=> k <= i - 1 \/ k = i
    BY <1>0, <1>2
  <2>4. i <= i /\ ~ (i <= i - 1)
    BY <1>2
  <2>1. UpTo(S, i) = UpTo(S, i - 1) \cup {i} /\ i \notin UpTo(S, i - 1)
    BY <1>6, <2>0, <2>4 DEF UpTo
  <2>2. Cardinality(UpTo(S, i)) = Cardinality(UpTo(S, i - 1)) + 1
    BY <2>1, UpToFinite, FS_AddElement
  <2>3. Cardinality(S) \in Nat
    BY UpToFinite
  <2> QED BY <1>5, <2>2, <2>3
<1>8. i \in {j \in S : Cardinality({k \in S : k <= j}) = m}
  BY <1>6, <1>7 DEF UpTo
<1> QED BY <1>8 DEF NthOf

-----------------------------------------------------------------------------
(***************************************************************************)
(* The lists                                                               *)
(***************************************************************************)
LEMMA ThoseType ==
    ASSUME NEW A, NEW list \in Seq(A), NEW S
    PROVE  Those(list, S) \in Seq(A \cap S)
<1> DEFINE at == {i \in DOMAIN list : list[i] \in S}
<1>1. at \in SUBSET (1 .. Len(list)) /\ Len(list) \in Nat
  OBVIOUS
<1>2. Cardinality(at) \in Nat
  BY <1>1, UpToFinite
<1>3. \A n \in 1 .. Cardinality(at) : NthOf(at, n) \in at
  BY <1>1, NthOfMember
<1>4. \A i \in at : list[i] \in A \cap S
  BY <1>1
<1>5. Those(list, S) = [n \in 1 .. Cardinality(at) |-> list[NthOf(at, n)]]
  BY DEF Those
<1> HIDE DEF at
<1>6. Those(list, S) \in [1 .. Cardinality(at) -> A \cap S]
  BY <1>3, <1>4, <1>5
<1> QED BY <1>2, <1>6

\* The sorted VRFs are VRFs of the state, and so are the matching ones.
LEMMA VrfLists ==
    ASSUME NEW frr \in FrrStates, NEW filter \in Filters
    PROVE  /\ SortedVrfs[frr] \in Seq(DOMAIN frr.vrfs)
           /\ MatchingVrfs[frr][filter] \in Seq(DOMAIN frr.vrfs)
<1> DEFINE D == DOMAIN frr.vrfs
           Rank(k) == Those(VrfOrder, {v \in D : RankVrf(frr.vrfs[v]) = k})
<1>1. \A k : Rank(k) \in Seq(D)
  <2> TAKE k
  <2> DEFINE S == {v \in D : RankVrf(frr.vrfs[v]) = k}
  <2>1. VrfOrder \in Seq(Range(VrfOrder))
    BY ConsoleAssumption DEF IsList
  <2>2. Those(VrfOrder, S) \in Seq(Range(VrfOrder) \cap S)
    BY <2>1, ThoseType
  <2>3. Range(VrfOrder) \cap S \subseteq D
    OBVIOUS
  <2> HIDE DEF S, D
  <2>4. Those(VrfOrder, S) \in Seq(D)
    BY <2>2, <2>3
  <2> QED BY <2>4 DEF S
<1>2. SortedVrfs[frr] = Rank(0) \o Rank(1) \o Rank(2)
  BY DEF SortedVrfs
<1> HIDE DEF Rank, D
<1>3. SortedVrfs[frr] \in Seq(D)
  BY <1>1, <1>2
<1> DEFINE S == {v \in Range(SortedVrfs[frr]) : FilterMatches(filter, v)}
<1>4. Those(SortedVrfs[frr], S) \in Seq(D \cap S)
  BY <1>3, ThoseType
<1>5. MatchingVrfs[frr][filter] = Those(SortedVrfs[frr], S)
  BY DEF MatchingVrfs
<1> HIDE DEF S
<1>6. MatchingVrfs[frr][filter] \in Seq(D)
  BY <1>4, <1>5
<1> QED BY <1>3, <1>6 DEF D

LEMMA PeerList ==
    ASSUME NEW frr \in FrrStates, NEW v \in DOMAIN frr.vrfs
    PROVE  SortedPeerList[frr.vrfs[v]] \in Seq(Range(PeerOrder))
<1> DEFINE peers == frr.vrfs[v]
           Having(up) == Those(PeerOrder, {p \in DOMAIN peers : peers[p] = up})
<1>1. peers \in UNION {Range(f.vrfs) : f \in FrrStates}
  BY DEF Range
<1> HIDE DEF peers
<1>2. \A up : Having(up) \in Seq(Range(PeerOrder))
  <2> TAKE up
  <2> DEFINE S == {p \in DOMAIN peers : peers[p] = up}
  <2>1. PeerOrder \in Seq(Range(PeerOrder))
    BY ConsoleAssumption DEF IsList
  <2> HIDE DEF S
  <2>2. Those(PeerOrder, S) \in Seq(Range(PeerOrder) \cap S)
    BY <2>1, ThoseType
  <2>3. Those(PeerOrder, S) \in Seq(Range(PeerOrder))
    BY <2>2
  <2> QED BY <2>3 DEF S
<1>3. SortedPeerList[peers] = Having(TRUE) \o Having(FALSE)
  BY <1>1 DEF SortedPeerList
<1> DEFINE first == Having(TRUE)
           rest == Having(FALSE)
<1>4. first \in Seq(Range(PeerOrder)) /\ rest \in Seq(Range(PeerOrder))
  BY <1>2
<1>5. SortedPeerList[peers] = first \o rest
  BY <1>3
<1> HIDE DEF first, rest
<1>6. SortedPeerList[peers] \in Seq(Range(PeerOrder))
  BY <1>4, <1>5
<1> QED BY <1>6 DEF peers

\* An element of a list, or nothing.
LEMMA NthType ==
    ASSUME NEW S, NEW list \in Seq(S), NEW i \in Nat
    PROVE  /\ Nth(list, i) \in S \cup {None}
           /\ Clamp(i, Len(list)) \in Nat /\ Clamp(i, Len(list)) <= i
           /\ Clamp(Clamp(i, Len(list)), Len(list)) = Clamp(i, Len(list))
           /\ Nth(list, i) \in {None, Nth(list, Clamp(i, Len(list)))}
<1>1. Len(list) \in Nat
  OBVIOUS
<1>2. CASE i < Len(list)
  <2>1. i + 1 \in 1 .. Len(list)
    BY <1>1, <1>2
  <2> QED BY <1>1, <1>2, <2>1 DEF Nth, Clamp
<1>3. CASE ~ (i < Len(list))
  BY <1>1, <1>3 DEF Nth, Clamp
<1> QED BY <1>2, <1>3

-----------------------------------------------------------------------------
(***************************************************************************)
(* Keys keep the state of the screen well formed                           *)
(***************************************************************************)
\* A routes popup lies over a VRF popup, and typing into the filter happens
\* only in the FRR listing.
Layered(u) ==
    /\ u.routes => u.open /\ u.tab = "Frr"
    /\ u.input => ~u.open /\ u.tab = "Frr"

WellFormed(u) == u \in Uis /\ Layered(u)

LEMMA UiFields ==
    ASSUME NEW u \in Uis
    PROVE  /\ u.tab \in Range(Tabs) /\ u.open \in BOOLEAN /\ u.routes \in BOOLEAN
           /\ u.sel \in [{"Overview", "Interfaces", "Frr"} -> 0 .. MaxIndex]
           /\ u.dir \in Directions /\ u.peer \in 0 .. MaxIndex
           /\ u.filter \in Filters /\ u.input \in BOOLEAN
BY DEF Uis

LEMMA TabNames == Range(Tabs) = {"Overview", "Interfaces", "Frr", "Events"}
BY DEF Range, Tabs

LEMMA IndexMoves ==
    ASSUME NEW i \in 0 .. MaxIndex
    PROVE  Moves(i) \subseteq 0 .. MaxIndex /\ Notches(i) \subseteq 0 .. MaxIndex
<1>1. MaxIndex \in Nat \ {0} /\ Page \in Nat \ {0} /\ i \in Nat /\ i <= MaxIndex
  BY ConsoleAssumption
<1>2. \A n \in Nat : Plus(i, n) \in 0 .. MaxIndex /\ Minus(i, n) \in 0 .. MaxIndex
  BY <1>1 DEF Plus, Minus
<1>3. 1 \in Nat /\ 2 \in Nat /\ Page \in Nat /\ 0 \in 0 .. MaxIndex /\ MaxIndex \in 0 .. MaxIndex
  BY <1>1
<1> QED BY <1>2, <1>3 DEF Moves, Notches

LEMMA InitialUiType == WellFormed(InitialUi)
<1>1. 0 \in 0 .. MaxIndex
  BY ConsoleAssumption
<1>2. <<>> \in Filters
  <2>1. 0 \in 0 .. MaxFilter /\ <<>> \in [1 .. 0 -> Letters]
    BY ConsoleAssumption
  <2> QED BY <2>1 DEF Filters
<1> QED BY <1>1, <1>2, TabNames DEF InitialUi, WellFormed, Layered, Uis, Directions

\* Closing, and moving the selection.
LEMMA ClosedType ==
    ASSUME NEW u, WellFormed(u)
    PROVE  WellFormed(CloseDetail(u)) /\ WellFormed(CloseRoutes(u))
BY DEF WellFormed, Layered, Uis, CloseDetail, CloseRoutes

LEMMA TabsType ==
    ASSUME NEW u, WellFormed(u), ~ u.input, NEW i \in DOMAIN Tabs, NEW step \in {1, 3}
    PROVE  WellFormed(SetTab(u, Tabs[i])) /\ WellFormed(StepTab(u, step))
<1>1. Tabs[i] \in Range(Tabs)
  BY DEF Range
<1>2. WellFormed(SetTab(u, Tabs[i]))
  BY <1>1, InitialUiType DEF SetTab, CloseDetail, WellFormed, Layered, Uis, InitialUi
<1>3. \A n \in Nat : (n % 4) + 1 \in DOMAIN Tabs
  BY DEF Tabs
<1>4. PICK at \in DOMAIN Tabs : at = CHOOSE j \in DOMAIN Tabs : Tabs[j] = u.tab
  BY DEF WellFormed, Uis, Range
<1>5. at - 1 + step \in Nat /\ Len(Tabs) = 4
  BY DEF Tabs
<1> DEFINE t == Tabs[((at - 1 + step) % 4) + 1]
<1>6. t \in Range(Tabs)
  BY <1>3, <1>5 DEF Range
<1>7. StepTab(u, step) = CloseDetail([u EXCEPT !.tab = t])
  BY <1>4, <1>5 DEF StepTab
<1> HIDE DEF t
<1>8. WellFormed(StepTab(u, step))
  BY <1>6, <1>7 DEF CloseDetail, WellFormed, Layered, Uis
<1> QED BY <1>2, <1>8

LEMMA SelectType ==
    ASSUME NEW u, WellFormed(u), NEW v \in Select(u, ByKey) \cup Select(u, ByWheel)
    PROVE  WellFormed(v) /\ v.open = u.open /\ v.tab = u.tab /\ v.filter = u.filter
<1>1. CASE u.tab \in DOMAIN u.sel
  <2>1. u.sel[u.tab] \in 0 .. MaxIndex /\ u.sel \in [{"Overview", "Interfaces", "Frr"} -> 0 .. MaxIndex]
    BY <1>1 DEF WellFormed, Uis
  <2>2. PICK i \in ByKey[u.sel[u.tab]] \cup ByWheel[u.sel[u.tab]] : v = [u EXCEPT !.sel[u.tab] = i]
    BY <1>1 DEF Select
  <2>3. i \in 0 .. MaxIndex
    BY <2>1, <2>2, IndexMoves DEF ByKey, ByWheel
  <2> QED BY <1>1, <2>1, <2>2, <2>3 DEF WellFormed, Layered, Uis
<1>2. CASE u.tab \notin DOMAIN u.sel
  BY <1>2 DEF Select
<1> QED BY <1>1, <1>2

\* The letters typed into the filter.
LEMMA FilterType ==
    ASSUME NEW f \in Filters
    PROVE  /\ f \in Seq(Letters) /\ <<>> \in Filters
           /\ f # <<>> => SubSeq(f, 1, Len(f) - 1) \in Filters
           /\ \A c \in Letters : Len(f) < MaxFilter => Append(f, c) \in Filters
           /\ \A c \in Letters : <<c>> \in Filters
<1>1. PICK n \in 0 .. MaxFilter : f \in [1 .. n -> Letters]
  BY DEF Filters
<1>2. n \in Nat /\ n <= MaxFilter /\ MaxFilter \in Nat \ {0}
  BY ConsoleAssumption
<1>3. f \in Seq(Letters) /\ Len(f) = n
  BY <1>1, <1>2
<1>4. \A g \in Seq(Letters) : Len(g) <= MaxFilter => g \in Filters
  <2> TAKE g \in Seq(Letters)
  <2> HAVE Len(g) <= MaxFilter
  <2>1. Len(g) \in 0 .. MaxFilter /\ g \in [1 .. Len(g) -> Letters]
    BY <1>2
  <2> QED BY <2>1 DEF Filters
<1>5. <<>> \in Filters
  <2>1. <<>> \in Seq(Letters) /\ Len(<<>>) = 0
    OBVIOUS
  <2>2. Len(<<>>) <= MaxFilter
    BY <1>2, <2>1
  <2> QED BY <1>4, <2>1, <2>2
<1>6. ASSUME f # <<>> PROVE SubSeq(f, 1, Len(f) - 1) \in Filters
  <2>1. n # 0
    BY <1>3, <1>6
  <2>2. SubSeq(f, 1, Len(f) - 1) \in Seq(Letters) /\ Len(SubSeq(f, 1, Len(f) - 1)) = n - 1
    BY <1>2, <1>3, <2>1
  <2>3. Len(SubSeq(f, 1, Len(f) - 1)) <= MaxFilter
    BY <1>2, <2>2
  <2> QED BY <1>4, <2>2, <2>3
<1>7. ASSUME NEW c \in Letters, Len(f) < MaxFilter PROVE Append(f, c) \in Filters
  <2>1. Append(f, c) \in Seq(Letters) /\ Len(Append(f, c)) = n + 1
    BY <1>3
  <2>2. Len(Append(f, c)) <= MaxFilter
    BY <1>2, <1>3, <1>7, <2>1
  <2> QED BY <1>4, <2>1, <2>2
<1>8. ASSUME NEW c \in Letters PROVE <<c>> \in Filters
  <2>1. <<c>> \in Seq(Letters) /\ Len(<<c>>) = 1
    OBVIOUS
  <2>2. Len(<<c>>) <= MaxFilter
    BY <1>2, <2>1
  <2> QED BY <1>4, <2>1, <2>2
<1> QED BY <1>3, <1>5, <1>6, <1>7, <1>8

\* Each key, with what is on the screen when it is pressed.
LEMMA FilterKeysType ==
    ASSUME NEW u, WellFormed(u), u.input
    PROVE  /\ WellFormed([u EXCEPT !.input = FALSE])
           /\ WellFormed([u EXCEPT !.input = FALSE, !.filter = <<>>])
           /\ u.filter # <<>> => WellFormed([u EXCEPT !.filter = SubSeq(@, 1, Len(@) - 1)])
           /\ \A c \in Letters : Len(u.filter) < MaxFilter =>
                 WellFormed([u EXCEPT !.filter = Append(@, c)])
<1>1. u.filter \in Filters
  BY DEF WellFormed, Uis
<1>2. /\ <<>> \in Filters
      /\ u.filter # <<>> => SubSeq(u.filter, 1, Len(u.filter) - 1) \in Filters
      /\ \A c \in Letters : Len(u.filter) < MaxFilter => Append(u.filter, c) \in Filters
  BY <1>1, FilterType
<1> QED BY <1>2 DEF WellFormed, Layered, Uis

LEMMA PopupKeysType ==
    ASSUME NEW u, WellFormed(u)
    PROVE  /\ \A d \in Directions : WellFormed(OpenRoutes(u, d))
           /\ \A i \in Moves(u.peer) : WellFormed([u EXCEPT !.peer = i])
<1>1. \A i \in Moves(u.peer) : i \in 0 .. MaxIndex
  BY IndexMoves DEF WellFormed, Uis
<1>2. ASSUME NEW d \in Directions PROVE WellFormed(OpenRoutes(u, d))
  BY DEF WellFormed, Layered, Uis, OpenRoutes
<1>3. ASSUME NEW i \in Moves(u.peer) PROVE WellFormed([u EXCEPT !.peer = i])
  BY <1>1 DEF WellFormed, Layered, Uis
<1> QED BY <1>2, <1>3

LEMMA ListingKeysType ==
    ASSUME NEW u, WellFormed(u), ~ u.input, ~ u.open
    PROVE  /\ u.tab = "Frr" => WellFormed([u EXCEPT !.input = TRUE])
           /\ WellFormed(ToggleDetail(u))
<1>1. u.tab = "Frr" => WellFormed([u EXCEPT !.input = TRUE])
  BY DEF WellFormed, Layered, Uis
<1>2. WellFormed(ToggleDetail(u))
  BY DEF WellFormed, Layered, Uis, ToggleDetail
<1> QED BY <1>1, <1>2

-----------------------------------------------------------------------------
(***************************************************************************)
(* Drawing and asking                                                      *)
(***************************************************************************)
\* Clamping a second time changes nothing.
LEMMA DrawnType ==
    ASSUME NEW u, WellFormed(u), NEW s \in Snapshots \cup {None}
    PROVE  /\ WellFormed(Drawn(u, s)) /\ Drawn(Drawn(u, s), s) = Drawn(u, s)
           /\ Drawn(u, s) = [u EXCEPT !.sel = Drawn(u, s).sel]
           /\ s # None /\ u.tab \in {"Overview", "Interfaces", "Frr"} =>
                 \E S : \E list \in Seq(S) :
                    /\ Drawn(u, s).sel[u.tab] = Clamp(u.sel[u.tab], Len(list))
                    /\ list = CASE u.tab = "Overview"   -> SyncUnits
                                [] u.tab = "Interfaces" -> s.ifaces
                                [] u.tab = "Frr"        -> MatchingVrfs[s.frr][u.filter]
<1>1. CASE s = None \/ u.tab = "Events"
  BY <1>1 DEF Drawn, WellFormed, Uis
<1>2. CASE s # None /\ u.tab # "Events"
  <2> DEFINE list == CASE u.tab = "Overview"   -> SyncUnits
                       [] u.tab = "Interfaces" -> s.ifaces
                       [] u.tab = "Frr"        -> MatchingVrfs[s.frr][u.filter]
  <2>1. u \in Uis /\ s \in Snapshots /\ u.tab \in {"Overview", "Interfaces", "Frr"}
    BY <1>2, UiFields, TabNames DEF WellFormed
  <2>2. \E S : list \in Seq(S)
    <3>1. s.ifaces \in IfaceLists /\ s.frr \in FrrStates /\ u.filter \in Filters
      BY <2>1 DEF Snapshots, Uis
    <3>2. /\ SyncUnits \in Seq(Range(SyncUnits)) /\ s.ifaces \in Seq(Range(s.ifaces))
          /\ MatchingVrfs[s.frr][u.filter] \in Seq(DOMAIN s.frr.vrfs)
      BY <3>1, ConsoleAssumption, VrfLists DEF IsList
    <3>3. CASE u.tab = "Overview"
      BY <3>2, <3>3
    <3>4. CASE u.tab = "Interfaces"
      BY <3>2, <3>4
    <3>5. CASE u.tab = "Frr"
      BY <3>2, <3>5
    <3> QED BY <2>1, <3>3, <3>4, <3>5
  <2>3. PICK S : list \in Seq(S)
    BY <2>2
  <2> DEFINE i == u.sel[u.tab]
             k == Clamp(i, Len(list))
             d == [u EXCEPT !.sel[u.tab] = k]
  <2>0. \A w : w.tab = u.tab /\ w.filter = u.filter =>
               Drawn(w, s) = [w EXCEPT !.sel[w.tab] = Clamp(w.sel[w.tab], Len(list))]
    BY <1>2, <2>1 DEF Drawn
  <2>4. Drawn(u, s) = d
    BY <2>0
  <2>5. i \in 0 .. MaxIndex /\ i \in Nat /\ MaxIndex \in Nat
    BY <2>1, ConsoleAssumption DEF Uis
  <2>6. k \in Nat /\ k <= i /\ Clamp(k, Len(list)) = k
    BY <2>3, <2>5, NthType
  <2> HIDE DEF k
  <2>7. k \in 0 .. MaxIndex
    <3>1. i <= MaxIndex
      BY <2>5
    <3> HIDE DEF i
    <3> QED BY <2>5, <2>6, <3>1
  <2>8. d \in Uis /\ d.tab = u.tab /\ d.filter = u.filter /\ d.sel[u.tab] = k
        /\ d.open = u.open /\ d.routes = u.routes /\ d.input = u.input
    BY <2>1, <2>7 DEF Uis
  <2>9. Drawn(d, s) = [d EXCEPT !.sel[d.tab] = Clamp(d.sel[d.tab], Len(list))]
    BY <2>0, <2>8
  <2>10. Drawn(d, s) = d
    BY <2>1, <2>6, <2>8, <2>9 DEF Uis
  <2>11. WellFormed(d)
    BY <2>8 DEF WellFormed, Layered
  <2>12. d = [u EXCEPT !.sel = d.sel]
    BY <2>1 DEF Uis
  <2> QED BY <2>3, <2>4, <2>8, <2>10, <2>11, <2>12 DEF k
<1> QED BY <1>1, <1>2

\* The peer of which routes are asked for: one of those of the VRF selected.
LEMMA SelectedPeerType ==
    ASSUME NEW u, WellFormed(u), NEW s \in Snapshots
    PROVE  SelectedPeer(u, s) \in Keys \cup {None}
<1> DEFINE vrf == Nth(MatchingVrfs[s.frr][u.filter], u.sel["Frr"])
           sorted == SortedPeerList[s.frr.vrfs[vrf]]
           i == Clamp(u.peer, Len(sorted)) + 1
<1> SUFFICES ASSUME vrf # None, sorted # <<>>
             PROVE  [dir |-> u.dir, vrf |-> vrf, peer |-> sorted[i]] \in Keys
  BY DEF SelectedPeer
<1>1. /\ s.frr \in FrrStates /\ u.filter \in Filters /\ u.dir \in Directions
      /\ u.sel["Frr"] \in Nat /\ u.peer \in Nat
  BY DEF WellFormed, Uis, Snapshots
<1>2. vrf \in DOMAIN s.frr.vrfs
  BY <1>1, VrfLists, NthType
<1>3. vrf \in Range(VrfOrder)
  BY <1>1, <1>2, ConsoleAssumption DEF Range
<1>4. sorted \in Seq(Range(PeerOrder))
  BY <1>1, <1>2, PeerList
<1> HIDE DEF sorted, vrf
<1>5. Len(sorted) \in Nat \ {0}
  BY <1>4
<1>6. i \in 1 .. Len(sorted)
  BY <1>1, <1>5 DEF Clamp
<1>7. sorted[i] \in Range(PeerOrder)
  BY <1>4, <1>6
<1> QED BY <1>1, <1>3, <1>7 DEF Keys

LEMMA AskedType ==
    ASSUME NEW u, WellFormed(u), NEW s \in Snapshots \cup {None}
    PROVE  Asked(u, s) \in Selections
<1>1. /\ NoSelection \in Selections
      /\ \A x \in Interfaces : [NoSelection EXCEPT !.interface = x] \in Selections
      /\ \A x \in Range(SyncUnits) \cup {None} : [NoSelection EXCEPT !.sync = x] \in Selections
      /\ \A x \in Keys \cup {None} : [NoSelection EXCEPT !.routes = x] \in Selections
  BY DEF NoSelection, Selections, Interfaces
<1>2. CASE s = None \/ ~ u.open
  BY <1>1, <1>2 DEF Asked
<1>3. CASE s # None /\ u.open
  <2>1. s \in Snapshots /\ s.ifaces \in IfaceLists
    BY <1>3 DEF Snapshots
  <2>2. u.tab \in {"Overview", "Interfaces", "Frr", "Events"}
        /\ u.sel["Interfaces"] \in Nat /\ u.sel["Overview"] \in Nat
    BY UiFields, TabNames DEF WellFormed
  <2>3. CASE u.tab = "Interfaces"
    <3>1. s.ifaces \in Seq(Range(s.ifaces))
      BY <2>1, ConsoleAssumption DEF IsList
    <3>2. Nth(s.ifaces, u.sel["Interfaces"]) \in Range(s.ifaces) \cup {None}
      BY <2>2, <3>1, NthType
    <3>3. Nth(s.ifaces, u.sel["Interfaces"]) \in Interfaces
      BY <2>1, <3>2 DEF Interfaces
    <3> QED BY <1>1, <1>3, <2>3, <3>3 DEF Asked
  <2>4. CASE u.tab = "Overview"
    <3>1. SyncUnits \in Seq(Range(SyncUnits))
      BY ConsoleAssumption DEF IsList
    <3>2. Nth(SyncUnits, u.sel["Overview"]) \in Range(SyncUnits) \cup {None}
      BY <2>2, <3>1, NthType
    <3> QED BY <1>1, <1>3, <2>4, <3>2 DEF Asked
  <2>5. CASE u.tab = "Frr"
    BY <1>1, <1>3, <2>1, <2>5, SelectedPeerType DEF Asked
  <2>6. CASE u.tab = "Events"
    BY <1>1, <1>3, <2>6 DEF Asked
  <2> QED BY <2>2, <2>3, <2>4, <2>5, <2>6
<1> QED BY <1>2, <1>3

\* What is asked agrees with what a screen would ask, or asks for nothing.
Agrees(sel, other) ==
    /\ sel.interface \in {None, other.interface}
    /\ sel.sync \in {None, other.sync}
    /\ sel.routes \in {None, other.routes}

\* An index that no draw has clamped yet asks for nothing that the clamped
\* one would not ask for.
LEMMA AskedDrawn ==
    ASSUME NEW u, WellFormed(u), NEW s \in Snapshots \cup {None}
    PROVE  Agrees(Asked(u, s), Asked(Drawn(u, s), s))
<1> DEFINE d == Drawn(u, s)
<1>1. d = [u EXCEPT !.sel = d.sel] /\ u \in Uis /\ d \in Uis
  BY DrawnType DEF WellFormed
<1>2. d.tab = u.tab /\ d.open = u.open /\ d.routes = u.routes /\ d.dir = u.dir
      /\ d.peer = u.peer /\ d.filter = u.filter
  BY <1>1 DEF Uis
<1>3. s # None /\ u.tab \in {"Overview", "Interfaces", "Frr"} =>
          \E S : \E list \in Seq(S) :
              /\ d.sel[u.tab] = Clamp(u.sel[u.tab], Len(list))
              /\ list = CASE u.tab = "Overview"   -> SyncUnits
                          [] u.tab = "Interfaces" -> s.ifaces
                          [] u.tab = "Frr"        -> MatchingVrfs[s.frr][u.filter]
  BY DrawnType
<1>4. u.sel["Overview"] \in Nat /\ u.sel["Interfaces"] \in Nat /\ u.sel["Frr"] \in Nat
      /\ u.tab \in {"Overview", "Interfaces", "Frr", "Events"}
  BY <1>1, UiFields, TabNames
<1> SUFFICES Agrees(Asked(u, s), Asked(d, s))
  OBVIOUS
<1> HIDE DEF d
<1>5. CASE s = None \/ ~ u.open \/ u.tab = "Events"
  BY <1>2, <1>5 DEF Asked, Agrees
<1>6. CASE s # None /\ u.open /\ u.tab = "Overview"
  <2>1. Nth(SyncUnits, u.sel["Overview"]) \in {None, Nth(SyncUnits, d.sel["Overview"])}
    BY <1>3, <1>4, <1>6, NthType
  <2> QED BY <1>2, <1>6, <2>1 DEF Asked, Agrees, NoSelection
<1>7. CASE s # None /\ u.open /\ u.tab = "Interfaces"
  <2>1. Nth(s.ifaces, u.sel["Interfaces"]) \in {None, Nth(s.ifaces, d.sel["Interfaces"])}
    BY <1>3, <1>4, <1>7, NthType
  <2> QED BY <1>2, <1>7, <2>1 DEF Asked, Agrees, NoSelection
<1>8. CASE s # None /\ u.open /\ u.tab = "Frr"
  <2> DEFINE list == MatchingVrfs[s.frr][u.filter]
  <2>1. Nth(list, u.sel["Frr"]) \in {None, Nth(list, d.sel["Frr"])}
    BY <1>3, <1>4, <1>8, NthType
  <2>2. SelectedPeer(u, s) \in {None, SelectedPeer(d, s)}
    BY <1>2, <2>1 DEF SelectedPeer
  <2> QED BY <1>2, <1>8, <2>2 DEF Asked, Agrees, NoSelection
<1> QED BY <1>4, <1>5, <1>6, <1>7, <1>8

-----------------------------------------------------------------------------
(***************************************************************************)
(* Types, and what is asked                                                *)
(***************************************************************************)
AskInv == TypeOK /\ Agrees(asked, Asked(ui, snap))

LEMMA GatherType ==
    ASSUME NEW q \in Selections, NEW w \in World, NEW read \in BOOLEAN
    PROVE  Gather(q, w, read) \in Snapshots
<1>1. q.interface \in Interfaces /\ None \in Interfaces
      /\ q.sync \in Range(SyncUnits) \cup {None} /\ q.routes \in Keys \cup {None}
  BY DEF Selections, Interfaces
<1>2. w.ifaces \in IfaceLists /\ w.frr \in FrrStates
  BY DEF World
<1> QED BY <1>1, <1>2 DEF Gather, Snapshots

LEMMA TypeOKWellFormed == TypeOK => WellFormed(ui)
BY DEF TypeOK, WellFormed, Layered

LEMMA InitAskInv == Init => AskInv
<1> SUFFICES ASSUME Init PROVE AskInv
  OBVIOUS
<1>1. WellFormed(ui)
  <2>1. CASE ui = InitialUi
    BY <2>1, InitialUiType
  <2>2. CASE ui \in FilteredUi
    <3>1. PICK c \in Letters : ui = [SetTab(InitialUi, "Frr") EXCEPT !.filter = <<c>>]
      BY <2>2 DEF FilteredUi
    <3>2. <<c>> \in Filters
      BY InitialUiType, FilterType DEF WellFormed, Uis
    <3>3. ~ InitialUi.input /\ 3 \in DOMAIN Tabs /\ Tabs[3] = "Frr" /\ 1 \in {1, 3}
      BY DEF InitialUi, Tabs
    <3>4. WellFormed(SetTab(InitialUi, "Frr"))
      BY <3>3, InitialUiType, TabsType
    <3> HIDE DEF InitialUi
    <3> QED BY <3>1, <3>2, <3>4 DEF WellFormed, Layered, Uis
  <2> QED BY <2>1, <2>2 DEF Init
<1>2. NoSelection \in Selections
  BY DEF NoSelection, Selections, Interfaces
<1>3. Asked(ui, None) = NoSelection
  BY DEF Asked
<1>4. Agrees(asked, Asked(ui, snap))
  BY <1>3 DEF Init, Agrees
<1>5. chan \in Seq(Snapshots) /\ Len(chan) <= MaxQueue
  BY ConsoleAssumption DEF Init
<1>6. world \in World /\ asked \in Selections /\ gathering = None /\ snap = None /\ pc = "drain"
  BY <1>2 DEF Init
<1> QED BY <1>1, <1>4, <1>5, <1>6 DEF AskInv, TypeOK, WellFormed, Layered

\* A key that leaves the screen well formed.
LEMMA HandledKeeps ==
    ASSUME AskInv, NEW u, WellFormed(u), Handled(u)
    PROVE  AskInv'
<1>1. /\ ui' = u /\ asked' = Asked(u, snap) /\ pc' = "drain"
      /\ UNCHANGED <<world, gathering, chan, snap>>
  BY DEF Handled
<1>2. Asked(u, snap) \in Selections
  BY AskedType DEF AskInv, TypeOK
<1>3. Agrees(asked', Asked(ui', snap'))
  BY <1>1 DEF Agrees
<1>4. TypeOK'
  BY <1>1, <1>2 DEF AskInv, TypeOK, WellFormed, Layered
<1> QED BY <1>3, <1>4 DEF AskInv

\* Whatever is pressed, the screen it leads to is well formed.
LEMMA KeysAreHandled ==
    ASSUME TypeOK, FilterKey \/ RoutesKey \/ PopupKey \/ BaseKey \/ Wheel
    PROVE  \E u : WellFormed(u) /\ Handled(u)
<1>0. WellFormed(ui)
  BY TypeOKWellFormed
<1>1. CASE FilterKey
  BY <1>0, <1>1, FilterKeysType DEF FilterKey
<1>2. CASE RoutesKey
  BY <1>0, <1>2, PopupKeysType, ClosedType DEF RoutesKey, OpensRoutes
<1>3. CASE PopupKey
  BY <1>0, <1>3, PopupKeysType, ClosedType DEF PopupKey, OpensRoutes
<1>4. CASE BaseKey
  <2>1. ~ ui.input /\ ~ ui.open
    BY <1>4 DEF BaseKey
  <2>2. \A i \in DOMAIN Tabs : WellFormed(SetTab(ui, Tabs[i]))
    BY <1>0, <2>1, TabsType
  <2>3. \A step \in {1, 3} : WellFormed(StepTab(ui, step))
    <3>1. 1 \in DOMAIN Tabs
      BY DEF Tabs
    <3> QED BY <1>0, <2>1, <3>1, TabsType
  <2> QED BY <1>0, <1>4, <2>1, <2>2, <2>3, SelectType, ListingKeysType, ClosedType DEF BaseKey
<1>5. CASE Wheel
  BY <1>0, <1>5, SelectType DEF Wheel
<1> QED BY <1>1, <1>2, <1>3, <1>4, <1>5

LEMMA NextAskInv == AskInv /\ [Next]_vars => AskInv'
<1> SUFFICES ASSUME AskInv, [Next]_vars PROVE AskInv'
  OBVIOUS
<1>a. TypeOK /\ WellFormed(ui) /\ Agrees(asked, Asked(ui, snap))
  BY TypeOKWellFormed DEF AskInv
<1>b. MaxQueue \in Nat
  BY ConsoleAssumption
<1>1. CASE Lock
  BY <1>a, <1>1 DEF Lock, AskInv, TypeOK
<1>2. CASE Send
  <2>1. PICK read \in BOOLEAN : chan' = Append(chan, Gather(gathering, world, read))
    BY <1>2 DEF Send
  <2>2. Gather(gathering, world, read) \in Snapshots
    BY <1>a, <1>2, GatherType DEF Send, TypeOK
  <2>3. chan' \in Seq(Snapshots) /\ Len(chan') <= MaxQueue
    <3>1. chan \in Seq(Snapshots) /\ Len(chan) < MaxQueue
      BY <1>a, <1>2 DEF Send, TypeOK
    <3>2. chan' \in Seq(Snapshots) /\ Len(chan') = Len(chan) + 1 /\ Len(chan) \in Nat
      BY <2>1, <2>2, <3>1
    <3> QED BY <1>b, <3>1, <3>2
  <2> QED BY <1>a, <1>2, <2>3 DEF Send, AskInv, TypeOK
<1>3. CASE Receive
  <2>1. chan \in Seq(Snapshots) /\ chan # <<>> /\ Len(chan) <= MaxQueue
    BY <1>a, <1>3 DEF Receive, TypeOK
  <2>2. Head(chan) \in Snapshots /\ Tail(chan) \in Seq(Snapshots) /\ Len(Tail(chan)) <= MaxQueue
    BY <1>b, <2>1
  <2>3. Asked(ui, Head(chan)) \in Selections
    BY <1>a, <2>2, AskedType
  <2>4. /\ snap' = Head(chan) /\ chan' = Tail(chan) /\ asked' = Asked(ui, Head(chan))
        /\ pc = "drain" /\ UNCHANGED <<world, gathering, ui, pc>>
    BY <1>3 DEF Receive
  <2>5. Agrees(asked', Asked(ui', snap'))
    BY <2>4 DEF Agrees
  <2>6. TypeOK'
    BY <1>a, <2>2, <2>3, <2>4 DEF TypeOK
  <2> QED BY <2>5, <2>6 DEF AskInv
<1>4. CASE Draw
  <2>1. snap \in Snapshots \cup {None}
    BY <1>a DEF TypeOK
  <2>2. WellFormed(Drawn(ui, snap)) /\ Drawn(Drawn(ui, snap), snap) = Drawn(ui, snap)
    BY <1>a, <2>1, DrawnType
  <2>3. Agrees(Asked(ui, snap), Asked(Drawn(ui, snap), snap))
    BY <1>a, <2>1, AskedDrawn
  <2>4. /\ ui' = Drawn(ui, snap) /\ pc' = "poll"
        /\ UNCHANGED <<world, asked, gathering, chan, snap>>
    BY <1>4 DEF Draw
  <2>5. Agrees(asked', Asked(ui', snap'))
    BY <1>a, <2>3, <2>4 DEF Agrees
  <2>6. TypeOK'
    BY <1>a, <2>2, <2>4 DEF TypeOK, WellFormed, Layered
  <2> QED BY <2>5, <2>6 DEF AskInv
<1>5. CASE PollTimeout
  BY <1>a, <1>5 DEF PollTimeout, AskInv, TypeOK
<1>6. CASE FilterKey \/ RoutesKey \/ PopupKey \/ BaseKey \/ Wheel
  BY <1>a, <1>6, KeysAreHandled, HandledKeeps
<1>7. CASE Restart
  <2>1. NoSelection \in Selections
    BY DEF NoSelection, Selections, Interfaces
  <2>2. /\ asked' = NoSelection /\ gathering' = None /\ chan' = <<>> /\ snap' = None
        /\ ui' = InitialUi /\ pc' = "drain" /\ world' = world
    BY <1>7 DEF Restart
  <2>3. Asked(InitialUi, None) = NoSelection
    BY DEF Asked
  <2>4. Agrees(asked', Asked(ui', snap'))
    BY <2>2, <2>3 DEF Agrees
  <2>5. chan' \in Seq(Snapshots) /\ Len(chan') <= MaxQueue
    BY <1>b, <2>2
  <2>6. TypeOK'
    BY <1>a, <2>1, <2>2, <2>5, InitialUiType DEF TypeOK, WellFormed, Layered
  <2> QED BY <2>4, <2>6 DEF AskInv
<1>8. CASE Change
  BY <1>a, <1>8 DEF Change, AskInv, TypeOK
<1>9. CASE UNCHANGED vars
  BY <1>a, <1>9 DEF vars, AskInv, TypeOK
<1> QED BY <1>1, <1>2, <1>3, <1>4, <1>5, <1>6, <1>7, <1>8, <1>9 DEF Next, Loop

\* The types of both threads' state, the limit of the channel, and the shape
\* of the screen (main.rs:166-238, ui.rs:81-116): for any lists, names and bounds a drawn
\* tab keeps its highlight within its rows, whatever a snapshot reordered.
THEOREM TypeCorrect == Spec => []TypeOK
<1>1. AskInv => TypeOK
  BY DEF AskInv
<1> QED BY <1>1, InitAskInv, NextAskInv, PTL DEF Spec

\* Only an active FRR has VRFs.
LEMMA ActiveHasVrfs ==
    ASSUME NEW frr \in FrrStates, NEW filter \in Filters, NEW i \in Nat,
           Nth(MatchingVrfs[frr][filter], i) # None
    PROVE  frr.active /\ Nth(MatchingVrfs[frr][filter], i) \in DOMAIN frr.vrfs
<1>1. MatchingVrfs[frr][filter] \in Seq(DOMAIN frr.vrfs)
  BY VrfLists
<1>2. Nth(MatchingVrfs[frr][filter], i) \in DOMAIN frr.vrfs
  BY <1>1, NthType
<1>3. DOMAIN <<>> = {}
  OBVIOUS
<1> QED BY <1>2, <1>3, ConsoleAssumption

\* What the screen asks for is what it shows.
LEMMA AsksForShown ==
    ASSUME TypeOK
    PROVE  Agrees(Asked(ui, snap), [interface |-> ShownInterface, sync |-> ShownSync,
                                    routes |-> ShownRoutes])
<1>1. CASE snap = None \/ ~ ui.open
  BY <1>1 DEF Asked, Agrees, NoSelection
<1>2. CASE snap # None /\ ui.open /\ ui.tab = "Interfaces"
  BY <1>2 DEF Asked, Agrees, NoSelection, ShownInterface, OnTab
<1>3. CASE snap # None /\ ui.open /\ ui.tab = "Overview"
  BY <1>3 DEF Asked, Agrees, NoSelection, ShownSync, OnTab
<1>4. CASE snap # None /\ ui.open /\ ui.tab = "Frr"
  <2> DEFINE vrf == Nth(MatchingVrfs[snap.frr][ui.filter], ui.sel["Frr"])
  <2>1. SelectedPeer(ui, snap) # None => ShownVrf = vrf /\ vrf # None /\ ui.routes
    <3>1. snap.frr \in FrrStates /\ ui.filter \in Filters /\ ui.sel["Frr"] \in Nat
      BY <1>4 DEF TypeOK, Snapshots, Uis
    <3>2. SelectedPeer(ui, snap) # None => vrf # None /\ ui.routes
      BY DEF SelectedPeer
    <3>3. vrf # None => snap.frr.active
      BY <3>1, ActiveHasVrfs
    <3> QED BY <1>4, <3>2, <3>3 DEF ShownVrf, OnTab
  <2>2. SelectedPeer(ui, snap) \in {None, ShownRoutes}
    BY <2>1 DEF ShownRoutes
  <2> QED BY <1>4, <2>2 DEF Asked, Agrees, NoSelection
<1>5. CASE snap # None /\ ui.open /\ ui.tab = "Events"
  BY <1>5 DEF Asked, Agrees, NoSelection
<1> QED BY <1>1, <1>2, <1>3, <1>4, <1>5, UiFields, TabNames DEF TypeOK

\* While a popup is on the screen, the gather thread is asked for its data
\* and for no other's (main.rs:484-518): the question published
\* before a draw, from an index the draw has yet to clamp, is the drawn one
\* or none.
THEOREM OnlyShownIsAsked == Spec => []AskedIsShown
<1>1. AskInv => AskedIsShown
  BY AsksForShown DEF AskInv, AskedIsShown, Agrees
<1> QED BY <1>1, InitAskInv, NextAskInv, PTL DEF Spec

-----------------------------------------------------------------------------
(***************************************************************************)
(* Keys inside a popup                                                     *)
(***************************************************************************)
\* What the popups are about depends on the tab, the selection and the
\* filter alone.
LEMMA SubjectKept ==
    ASSUME snap' = snap, ui'.open = ui.open, ui'.tab = ui.tab, ui'.sel = ui.sel,
           ui'.filter = ui.filter
    PROVE  /\ ShownInterface' = ShownInterface /\ ShownSync' = ShownSync
           /\ ShownVrf' = ShownVrf
BY DEF ShownInterface, ShownSync, ShownVrf, OnTab

\* No key pressed inside a popup changes what the popup is about
\* (main.rs:330-397): every key the popups take either closes one or
\* leaves the tab, the selection and the filter alone, and no key reaches
\* the filter while a popup is open.
THEOREM KeysKeepTheSubject == Spec => NoSwapUnderKeys
<1>1. TypeOK /\ [Next]_vars =>
        [ui # ui' /\ pc = "poll" /\ ui.open /\ ui'.open =>
            /\ ShownInterface' = ShownInterface
            /\ ShownSync' = ShownSync
            /\ ShownVrf' = ShownVrf]_vars
  <2> SUFFICES ASSUME TypeOK, Next, ui # ui', pc = "poll", ui.open, ui'.open
               PROVE  /\ ShownInterface' = ShownInterface /\ ShownSync' = ShownSync
                      /\ ShownVrf' = ShownVrf
    OBVIOUS
  <2>0. ui \in Uis /\ ~ ui.input
    BY DEF TypeOK
  <2>1. CASE RoutesKey
    <3>1. snap' = snap /\ \/ \E d \in Directions : ui' = OpenRoutes(ui, d)
                          \/ ui' = CloseRoutes(ui)
      BY <2>1 DEF RoutesKey, OpensRoutes, Handled
    <3> QED BY <2>0, <3>1, SubjectKept DEF OpenRoutes, CloseRoutes, Uis
  <2>2. CASE PopupKey
    <3>1. snap' = snap /\ \/ \E d \in Directions : ui' = OpenRoutes(ui, d)
                          \/ \E i \in Moves(ui.peer) : ui' = [ui EXCEPT !.peer = i]
                          \/ ui' = CloseDetail(ui)
      BY <2>2 DEF PopupKey, OpensRoutes, Handled
    <3> QED BY <2>0, <3>1, SubjectKept DEF OpenRoutes, CloseDetail, Uis
  <2>3. CASE Wheel
    BY <2>0, <2>3 DEF Wheel, Handled
  <2>4. ~ FilterKey /\ ~ BaseKey
    BY <2>0 DEF FilterKey, BaseKey
  <2>5. ~ Restart
    BY DEF Restart, InitialUi
  <2>6. ~ Draw
    BY DEF Draw
  <2>7. ~ (Lock \/ Send \/ Receive \/ PollTimeout \/ Change)
    BY DEF Lock, Send, Receive, PollTimeout, Change
  <2> QED BY <2>1, <2>2, <2>3, <2>4, <2>5, <2>6, <2>7 DEF Next, Loop
<1> QED BY <1>1, TypeCorrect, PTL DEF Spec, NoSwapUnderKeys

=============================================================================
