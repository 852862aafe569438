--------------------------- MODULE FrrStatus_proofs ---------------------------
(***************************************************************************)
(* Proofs about FrrStatus and the health verdict on what it gathers, for   *)
(* any VRFs and any limits that leave room for four errors.                *)
(***************************************************************************)
EXTENDS FrrStatus, FiniteSetTheorems, WellFoundedInduction, TLAPS

\* A nonempty set of numbers has a least one: how the proofs below do
\* induction over the order of the VRFs.
LEMMA LeastNumber ==
    ASSUME NEW T \in SUBSET Nat, T # {}
    PROVE  \E n \in T : \A m \in T : n <= m
<1> DEFINE R == {ss \in Nat \X Nat : ss[1] < ss[2]}
<1>1. R = OpToRel(<, Nat)
  BY DEF OpToRel
<1>2. IsWellFoundedOn(R, Nat)
  BY <1>1, NatLessThanWellFounded
<1>3. \E n \in T : \A m \in T : ~ (<<m, n>> \in R)
  <2> HIDE DEF R
  <2> QED BY <1>2, WFMin
<1>4. PICK n \in T : \A m \in T : ~ (<<m, n>> \in R)
  BY <1>3
<1>5. ASSUME NEW m \in T PROVE n <= m
  <2>1. m \in Nat /\ n \in Nat
    OBVIOUS
  <2>2. ~ (m < n)
    BY <1>4, <2>1
  <2> QED BY <2>1, <2>2
<1> QED BY <1>5

\* The VRF a tick turns to next is one of those still to be queried.
LEMMA ThisOfTodo ==
    ASSUME todo \in SUBSET Vrfs, todo # {}
    PROVE  this \in todo
<1> DEFINE T == {i \in 1 .. Len(VrfOrder) : VrfOrder[i] \in todo}
<1>0. Len(VrfOrder) \in Nat /\ DOMAIN VrfOrder = 1 .. Len(VrfOrder)
  BY FrrStatusAssumption
<1>1. T \in SUBSET Nat /\ T # {}
  BY <1>0 DEF Vrfs, ToSet
<1>2. PICK n \in T : \A m \in T : n <= m
  BY <1>1, LeastNumber
<1>3. \A j \in 1 .. n - 1 : VrfOrder[j] \notin todo
  <2> TAKE j \in 1 .. n - 1
  <2>1. n \in Nat /\ n <= Len(VrfOrder)
    BY <1>0
  <2>2. j \in 1 .. Len(VrfOrder) /\ ~ (n <= j)
    BY <2>1, <1>0
  <2> QED BY <1>2, <2>2
<1> QED BY <1>2, <1>3 DEF this

LEMMA VrfsFinite == IsFiniteSet(Vrfs)
<1>1. Len(VrfOrder) \in Nat /\ DOMAIN VrfOrder = 1 .. Len(VrfOrder)
  BY FrrStatusAssumption
<1>2. IsFiniteSet(1 .. Len(VrfOrder))
  BY <1>1, FS_Interval
<1>3. VrfOrder \in Surjection(1 .. Len(VrfOrder), Vrfs)
  BY <1>1, FrrStatusAssumption DEF Surjection, Vrfs, ToSet
<1> QED BY <1>2, <1>3, FS_Surjection

\* add_query_error keeps what is in the list, adds at most one entry, never
\* goes beyond the limit, and drops the error only when the list is full.
LEMMA AddedError ==
    ASSUME NEW errors \in Seq(Error), NEW error \in Error \cup {None},
           Len(errors) <= MaxErrors
    PROVE  LET added == AddQueryError(errors, error)
           IN  /\ added \in Seq(Error)
               /\ Len(errors) <= Len(added) /\ Len(added) <= Len(errors) + 1
               /\ Len(added) <= MaxErrors
               /\ ToSet(errors) \subseteq ToSet(added)
               /\ error # None => error \in ToSet(added) \/ Len(added) = MaxErrors
               /\ error # None /\ Len(errors) < MaxErrors => error \in ToSet(added)
<1>1. MaxErrors \in Nat /\ Len(errors) \in Nat
  BY FrrStatusAssumption
<1>2. CASE error = None \/ error \in ToSet(errors) \/ Len(errors) >= MaxErrors
  BY <1>1, <1>2 DEF AddQueryError
<1>3. CASE ~ (error = None \/ error \in ToSet(errors) \/ Len(errors) >= MaxErrors)
  <2> DEFINE added == Append(errors, error)
  <2>1. AddQueryError(errors, error) = added
    BY <1>3 DEF AddQueryError
  <2>2. /\ added \in Seq(Error) /\ Len(added) = Len(errors) + 1
        /\ \A i \in 1 .. Len(errors) : added[i] = errors[i]
        /\ added[Len(errors) + 1] = error
    BY <1>3
  <2>3. ToSet(errors) \subseteq ToSet(added) /\ error \in ToSet(added)
    <3>1. DOMAIN errors = 1 .. Len(errors) /\ DOMAIN added = 1 .. Len(errors) + 1
      BY <2>2, <1>1
    <3> HIDE DEF added
    <3> QED BY <2>2, <3>1, <1>1 DEF ToSet
  <2> HIDE DEF added
  <2> QED BY <1>1, <1>3, <2>1, <2>2, <2>3
<1> QED BY <1>2, <1>3

-----------------------------------------------------------------------------
(***************************************************************************)
(* The verdict and the colors, for any snapshot: any number of units, VRFs *)
(* and BFD sessions, and every percentage.                                 *)
(***************************************************************************)
IsSnapshot(s) ==
    /\ IsFiniteSet(DOMAIN s.units)
    /\ \A u \in DOMAIN s.units : s.units[u] \in {"Ok", "TimerNotActive", "Failed"}
    /\ \A v \in DOMAIN s.vrfs : /\ s.vrfs[v].estab \in Nat /\ s.vrfs[v].total \in Nat
                                /\ s.vrfs[v].estab <= s.vrfs[v].total
    /\ s.memory \in 0 .. 100 \cup {Unknown} /\ s.disk \in 0 .. 100 \cup {Unknown}

LEMMA ProblemLevels ==
    ASSUME NEW s, NEW p \in Problems(s)
    PROVE  p[1] \in {"Warn", "Critical"}
BY DEF Problems, SaturationProblem

LEMMA FiniteLabelled ==
    ASSUME NEW U, IsFiniteSet(U), NEW level
    PROVE  IsFiniteSet({<<level, u>> : u \in U})
<1> DEFINE T == {<<level, u>> : u \in U}
           f == [u \in U |-> <<level, u>>]
<1>1. f \in Surjection(U, T)
  BY DEF Surjection
<1> HIDE DEF T, f
<1>2. IsFiniteSet(T)
  BY <1>1, FS_Surjection
<1> QED BY <1>2 DEF T

LEMMA FiniteSaturation ==
    ASSUME NEW what, NEW percent
    PROVE  IsFiniteSet(SaturationProblem(what, percent))
BY FS_EmptySet, FS_Singleton DEF SaturationProblem

LEMMA ProblemsFinite ==
    ASSUME NEW s, IsSnapshot(s)
    PROVE  IsFiniteSet(Problems(s))
<1>1. \A a, b : IsFiniteSet(a) /\ IsFiniteSet(b) => IsFiniteSet(a \cup b)
  BY FS_Union
<1>2. /\ IsFiniteSet(IF s.active THEN {} ELSE {<<"Critical", "frr">>})
      /\ IsFiniteSet(IF BgpDown(s) = {} THEN {} ELSE {<<"Critical", "bgp">>})
      /\ IsFiniteSet(IF BfdDown(s) = {} THEN {} ELSE {<<"Warn", "bfd">>})
      /\ IsFiniteSet(IF s.staged THEN {<<"Warn", "reboot">>} ELSE {})
  BY FS_EmptySet, FS_Singleton
<1>3. /\ IsFiniteSet({<<"Critical", u>> : u \in {u \in DOMAIN s.units : s.units[u] = "Failed"}})
      /\ IsFiniteSet({<<"Warn", u>> : u \in {u \in DOMAIN s.units : s.units[u] = "TimerNotActive"}})
  <2> DEFINE F == {u \in DOMAIN s.units : s.units[u] = "Failed"}
             N == {u \in DOMAIN s.units : s.units[u] = "TimerNotActive"}
  <2>1. F \in SUBSET DOMAIN s.units /\ N \in SUBSET DOMAIN s.units
    OBVIOUS
  <2> HIDE DEF F, N
  <2>2. IsFiniteSet(F) /\ IsFiniteSet(N)
    BY <2>1, FS_Subset DEF IsSnapshot
  <2>3. /\ IsFiniteSet({<<"Critical", u>> : u \in F})
        /\ IsFiniteSet({<<"Warn", u>> : u \in N})
    BY <2>2, FiniteLabelled
  <2> QED BY <2>3 DEF F, N
<1>4. /\ IsFiniteSet(SaturationProblem("memory", s.memory))
      /\ IsFiniteSet(SaturationProblem("disk", s.disk))
  BY FiniteSaturation
<1> QED BY <1>1, <1>2, <1>3, <1>4, Zenon DEF Problems

\* The badge counts at least one problem whenever there is one.
LEMMA BadgeCounts ==
    ASSUME NEW s, IsSnapshot(s), Problems(s) # {}
    PROVE  Level(s) # "Ok" /\ Badge(s) > 0
<1> DEFINE P == {p \in Problems(s) : p[1] = Level(s)}
<1>1. Level(s) # "Ok" /\ P # {}
  <2>1. CASE \E p \in Problems(s) : p[1] = "Critical"
    BY <2>1 DEF Level, Levels, ExitCode
  <2>2. CASE ~ \E p \in Problems(s) : p[1] = "Critical"
    BY <2>2, ProblemLevels DEF Level, Levels, ExitCode
  <2> QED BY <2>1, <2>2
<1>2. IsFiniteSet(P)
  BY ProblemsFinite, FS_Subset
<1>3. Cardinality(P) \in Nat /\ Cardinality(P) # 0
  <2> HIDE DEF P
  <2> QED BY <1>1, <1>2, FS_CardinalityType, FS_EmptySet
<1> HIDE DEF P
<1> QED BY <1>1, <1>3 DEF Badge, P

LEMMA QuietGauge ==
    ASSUME NEW what, NEW percent \in 0 .. 100 \cup {Unknown},
           SaturationProblem(what, percent) = {}
    PROVE  GaugeColor(percent) # "BAD"
<1>1. CASE percent = Unknown
  BY <1>1 DEF GaugeColor
<1>2. CASE percent \in 0 .. 100 /\ percent # Unknown
  <2>1. percent <= 79
    BY <1>2 DEF SaturationProblem
  <2> QED BY <1>2, <2>1 DEF GaugeColor
<1> QED BY <1>1, <1>2

\* A snapshot without a problem has no warning on the panels beside it.
LEMMA HealthyPanels ==
    ASSUME NEW s, IsSnapshot(s), Problems(s) = {}
    PROVE  /\ PanelColors(s) \subseteq {"OK", "MUTED"}
           /\ "BAD" \notin GaugeColors(s)
<1>1. s.active /\ ~ s.staged /\ BgpDown(s) = {} /\ BfdDown(s) = {}
  BY DEF Problems
<1>2. \A u \in DOMAIN s.units : UnitColor(s.units[u]) = "OK"
  <2> TAKE u \in DOMAIN s.units
  <2>1. s.units[u] # "Failed"
    <3>1. s.units[u] = "Failed" => <<"Critical", u>> \in Problems(s)
      BY DEF Problems
    <3> QED BY <3>1
  <2>2. s.units[u] # "TimerNotActive"
    <3>1. s.units[u] = "TimerNotActive" => <<"Warn", u>> \in Problems(s)
      BY DEF Problems
    <3> QED BY <3>1
  <2> QED BY <2>1, <2>2 DEF IsSnapshot, UnitColor
<1>3. \A v \in DOMAIN s.vrfs : PeerCountColor(s.vrfs[v]) \in {"OK", "MUTED"}
  BY <1>1 DEF IsSnapshot, BgpDown, PeerCountColor
<1>4. BfdColor(s) \in {"OK", "MUTED"}
  BY <1>1 DEF BfdColor
<1>5. SaturationProblem("memory", s.memory) = {} /\ SaturationProblem("disk", s.disk) = {}
  BY DEF Problems
<1>6. GaugeColor(s.memory) # "BAD" /\ GaugeColor(s.disk) # "BAD"
  BY <1>5, QuietGauge DEF IsSnapshot
<1>7. PanelColors(s) \subseteq {"OK", "MUTED"}
  BY <1>1, <1>2, <1>3, <1>4 DEF PanelColors
<1> QED BY <1>6, <1>7 DEF GaugeColors

\* Whatever the problem is, something on the panels is colored for it.
LEMMA ProblemIsColored ==
    ASSUME NEW s, IsSnapshot(s), NEW p \in Problems(s)
    PROVE  (PanelColors(s) \cup GaugeColors(s)) \cap {"WARN", "BAD"} # {}
<1>1. CASE ~ s.active
  BY <1>1 DEF PanelColors
<1>2. CASE s.staged
  BY <1>2 DEF PanelColors
<1>3. ASSUME NEW u \in DOMAIN s.units, s.units[u] \in {"Failed", "TimerNotActive"}
      PROVE  (PanelColors(s) \cup GaugeColors(s)) \cap {"WARN", "BAD"} # {}
  <2>1. UnitColor(s.units[u]) \in {"WARN", "BAD"}
    BY <1>3 DEF UnitColor
  <2>2. UnitColor(s.units[u]) \in PanelColors(s)
    BY DEF PanelColors
  <2> QED BY <2>1, <2>2
<1>4. CASE BgpDown(s) # {}
  <2>1. PICK v \in DOMAIN s.vrfs : s.vrfs[v].estab < s.vrfs[v].total
    BY <1>4 DEF BgpDown
  <2>2. PeerCountColor(s.vrfs[v]) \in {"WARN", "BAD"}
    BY <2>1 DEF PeerCountColor, IsSnapshot
  <2>3. PeerCountColor(s.vrfs[v]) \in PanelColors(s)
    BY DEF PanelColors
  <2> QED BY <2>2, <2>3
<1>5. CASE BfdDown(s) # {}
  BY <1>5 DEF PanelColors, BfdColor, BfdDown
<1>6. CASE SaturationProblem("memory", s.memory) # {}
  <2>1. GaugeColor(s.memory) \in {"WARN", "BAD"}
    BY <1>6 DEF IsSnapshot, SaturationProblem, GaugeColor, Unknown
  <2> QED BY <2>1 DEF GaugeColors
<1>7. CASE SaturationProblem("disk", s.disk) # {}
  <2>1. GaugeColor(s.disk) \in {"WARN", "BAD"}
    BY <1>7 DEF IsSnapshot, SaturationProblem, GaugeColor, Unknown
  <2> QED BY <2>1 DEF GaugeColors
<1>8. CASE /\ s.active /\ ~ s.staged
           /\ \A u \in DOMAIN s.units : s.units[u] \notin {"Failed", "TimerNotActive"}
           /\ BgpDown(s) = {} /\ BfdDown(s) = {}
           /\ SaturationProblem("memory", s.memory) = {}
           /\ SaturationProblem("disk", s.disk) = {}
  <2>1. Problems(s) = {}
    BY <1>8 DEF Problems
  <2> QED BY <2>1
<1> QED BY <1>1, <1>2, <1>3, <1>4, <1>5, <1>6, <1>7, <1>8

\* The badge, the exit code and the panels agree on every snapshot, not only
\* on those that the run has (health.rs, ui.rs): the badge says "healthy"
\* only when nothing is colored, and counts something only when something is.
THEOREM VerdictAgrees ==
    ASSUME NEW s, IsSnapshot(s)
    PROVE  PanelsAgreeOn(s)
<1>1. CASE Problems(s) = {}
  <2>1. Level(s) = "Ok"
    BY <1>1 DEF Level, Levels, ExitCode
  <2> QED BY <1>1, <2>1, HealthyPanels DEF PanelsAgreeOn
<1>2. CASE Problems(s) # {}
  <2>1. (PanelColors(s) \cup GaugeColors(s)) \cap {"WARN", "BAD"} # {}
    BY <1>2, ProblemIsColored
  <2> QED BY <1>2, <2>1, BadgeCounts DEF PanelsAgreeOn
<1> QED BY <1>1, <1>2

-----------------------------------------------------------------------------
(***************************************************************************)
(* The inductive invariant behind the types: which sections are still as   *)
(* EmptyStatus has them, and what the queries so far have spent of the     *)
(* tick's round trips.                                                     *)
(***************************************************************************)
Stages ==
    /\ pc \in {"idle", "routes", "fallback", "list"} => status = EmptyStatus
    /\ pc \in {"summary", "bgp"} => status.vrfs = Nothing
    /\ pc \in {"summary", "bgp", "bfd", "vrfAll"} => status.routes = {}
    /\ pc # "vrf" => todo = {}
    /\ pc = "vrf" => todo # {}

TripsBound ==
    /\ pc \in {"idle", "routes"} => trips = 0
    /\ pc = "fallback" => trips <= 1
    /\ pc \in {"list", "summary"} => trips <= 2
    /\ pc = "bgp" => trips <= 3
    /\ pc = "bfd" => trips <= 4
    /\ pc = "vrfAll" => trips <= 5
    /\ pc = "vrf" => trips + Cardinality(todo) <= 6 + MaxVrfs

TypeInv == TypeOK /\ Stages /\ TripsBound

LEMMA EmptyIsStatus ==
    EmptyStatus \in Status /\ DOMAIN Nothing = {} /\ EmptyStatus.errors = <<>>
<1>1. Nothing \in [{} -> Counts] /\ DOMAIN Nothing = {}
  BY DEF Nothing
<1>2. Nothing \in UNION {[vs -> Counts] : vs \in SUBSET Vrfs}
  BY <1>1
<1>3. <<>> \in Seq(Error)
  OBVIOUS
<1> HIDE DEF Nothing
<1> QED BY <1>1, <1>2, <1>3 DEF EmptyStatus, Status

LEMMA QueryErrorType ==
    ASSUME NEW d \in Daemons,
           NEW what \in {"summary", "bgp", "bfd", "vrfAll"} \cup Vrfs,
           NEW outcome \in Outcomes
    PROVE  /\ QueryError(d, what, outcome) \in Error \cup {None}
           /\ outcome = "failed" => QueryError(d, what, outcome) = <<d, "failed">>
           /\ outcome = "refused" => QueryError(d, what, outcome) = <<d, "refused", what>>
BY DEF QueryError, Error, Outcomes

\* What the error of a query does to the list.
LEMMA QueriedErrors ==
    ASSUME NEW d \in Daemons,
           NEW what \in {"summary", "bgp", "bfd", "vrfAll"} \cup Vrfs,
           NEW outcome \in Outcomes,
           status \in Status, Len(status.errors) <= MaxErrors
    PROVE  /\ Errors(d, what, outcome) \in Seq(Error)
           /\ Len(status.errors) <= Len(Errors(d, what, outcome))
           /\ Len(Errors(d, what, outcome)) <= Len(status.errors) + 1
           /\ Len(Errors(d, what, outcome)) <= MaxErrors
           /\ ToSet(status.errors) \subseteq ToSet(Errors(d, what, outcome))
           /\ outcome \in {"failed", "refused"} =>
                  \/ {<<d, "failed">>, <<d, "refused", what>>}
                         \cap ToSet(Errors(d, what, outcome)) # {}
                  \/ Len(status.errors) >= MaxErrors /\ Len(Errors(d, what, outcome)) = MaxErrors
<1>1. status.errors \in Seq(Error)
  BY DEF Status
<1>2. QueryError(d, what, outcome) \in Error \cup {None}
  BY QueryErrorType
<1>3. outcome \in {"failed", "refused"} =>
          /\ QueryError(d, what, outcome) # None
          /\ QueryError(d, what, outcome) \in {<<d, "failed">>, <<d, "refused", what>>}
  <2>1. outcome \in {"failed", "refused"} =>
            QueryError(d, what, outcome) \in {<<d, "failed">>, <<d, "refused", what>>}
    BY QueryErrorType
  <2>2. outcome \in {"failed", "refused"} => QueryError(d, what, outcome) \in Error
    BY DEF QueryError, Error
  <2>3. None \notin Error
    BY FrrStatusAssumption
  <2> QED BY <2>1, <2>2, <2>3
<1>4. Len(status.errors) \in Nat
  BY <1>1
<1>5. MaxErrors \in Nat
  BY FrrStatusAssumption
<1> QED BY <1>1, <1>2, <1>3, <1>4, <1>5, AddedError DEF Errors

LEMMA StatusSections ==
    ASSUME NEW s \in Status
    PROVE  /\ s.daemons \in SUBSET Daemons /\ s.summary \in BOOLEAN
           /\ s.vrfs \in UNION {[vs -> Counts] : vs \in SUBSET Vrfs}
           /\ s.bfd \in [{"p1"} -> BOOLEAN] \cup {Nothing}
           /\ s.routes \in SUBSET Vrfs /\ s.errors \in Seq(Error)
           /\ DOMAIN s.vrfs \in SUBSET Vrfs
           /\ \A v \in DOMAIN s.vrfs : s.vrfs[v] \in Counts
BY DEF Status

LEMMA QueriedType ==
    ASSUME NEW section, section \in Sections \cup Vrfs, NEW outcome, Queried(section, outcome),
           said \in SUBSET ((Sections \cup Vrfs) \X {"empty", "garbled", "omitted"})
    PROVE  /\ trips' = trips + 1
           /\ said' \in SUBSET ((Sections \cup Vrfs) \X {"empty", "garbled", "omitted"})
           /\ said \subseteq said'
           /\ outcome \in {"empty", "garbled"} => <<section, outcome>> \in said'
BY DEF Queried

LEMMA InitTypeInv == Init => TypeInv
<1>1. Init => TypeOK
  <2> SUFFICES ASSUME Init PROVE TypeOK
    OBVIOUS
  <2>1. MaxVrfs \in Nat /\ MaxErrors \in Nat
    BY FrrStatusAssumption
  <2>2. Len(status.errors) = 0 /\ status.routes = {}
    BY EmptyIsStatus DEF Init, EmptyStatus
  <2> QED BY <2>1, <2>2, EmptyIsStatus DEF Init, TypeOK
<1>2. Init => Stages /\ TripsBound
  BY DEF Init, Stages, TripsBound
<1> QED BY <1>1, <1>2 DEF TypeInv

LEMMA FiniteVrfs ==
    ASSUME NEW vs \in SUBSET Vrfs
    PROVE  IsFiniteSet(vs) /\ Cardinality(vs) \in Nat
BY VrfsFinite, FS_Subset, FS_CardinalityType

\* Turning to the next VRF: one less to be queried.
LEMMA NextVrfTodo ==
    ASSUME TypeOK, Stages, NextVrf
    PROVE  /\ this \in todo /\ this \in Vrfs
           /\ todo' = todo \ {this} /\ todo' \in SUBSET DOMAIN status.vrfs
           /\ Cardinality(todo) \in Nat /\ Cardinality(todo') \in Nat
           /\ Cardinality(todo') = Cardinality(todo) - 1
           /\ pc = "vrf" /\ pc' = IF todo' = {} THEN "done" ELSE "vrf"
           /\ active' = active /\ popup' = popup
<1>1. todo \in SUBSET Vrfs /\ todo # {} /\ todo \in SUBSET DOMAIN status.vrfs
  BY StatusSections DEF TypeOK, Stages, NextVrf
<1>2. this \in todo
  BY <1>1, ThisOfTodo
<1>3. IsFiniteSet(todo) /\ Cardinality(todo) \in Nat
  BY <1>1, FiniteVrfs
<1>4. /\ Cardinality(todo \ {this}) = Cardinality(todo) - 1
      /\ Cardinality(todo \ {this}) \in Nat
  BY <1>2, <1>3, FS_RemoveElement, FS_CardinalityType
<1>5. /\ todo' = todo \ {this} /\ active' = active /\ popup' = popup
      /\ pc = "vrf" /\ pc' = IF todo' = {} THEN "done" ELSE "vrf"
  BY DEF NextVrf
<1> QED BY <1>1, <1>2, <1>3, <1>4, <1>5

LEMMA NextTypeInv == TypeInv /\ [Next]_vars => TypeInv'
<1> SUFFICES ASSUME TypeOK, Stages, TripsBound, [Next]_vars
             PROVE  TypeOK' /\ Stages' /\ TripsBound'
  BY DEF TypeInv
<1>a. MaxVrfs \in Nat /\ MaxErrors \in Nat /\ MaxErrors >= 4
  BY FrrStatusAssumption
<1>b. /\ status \in Status /\ Len(status.errors) <= MaxErrors
      /\ status.daemons \in SUBSET Daemons
      /\ status.vrfs \in UNION {[vs -> Counts] : vs \in SUBSET Vrfs}
      /\ status.routes \in SUBSET Vrfs /\ status.errors \in Seq(Error)
      /\ DOMAIN status.vrfs \in SUBSET Vrfs
  BY StatusSections DEF TypeOK
<1>1. CASE Begin
  BY <1>1, <1>a DEF Begin, TypeOK, Stages, TripsBound
<1>2. CASE PeerRoutes
  <2>1. PICK direction \in {"advertised", "received"}, outcome \in Outcomes :
           /\ popup' = Answer(direction, outcome)
           /\ Queried("popup", outcome)
    BY <1>2 DEF PeerRoutes
  <2>2. Answer(direction, outcome) \in PeerRoutesTable
    BY DEF Answer, PeerRoutesTable
  <2>3. /\ trips' = trips + 1
        /\ said' \in SUBSET ((Sections \cup Vrfs) \X {"empty", "garbled", "omitted"})
    BY <2>1, QueriedType DEF TypeOK, Sections
  <2>4. pc = "routes" /\ pc' \in {"fallback", "list"}
        /\ active' = active /\ status' = status /\ todo' = todo
    BY <1>2 DEF PeerRoutes
  <2> QED BY <2>1, <2>2, <2>3, <2>4, <1>a DEF TypeOK, Stages, TripsBound
<1>3. CASE SkipRoutes
  <2>1. PICK direction \in {"advertised", "received"} : popup' = Answer(direction, "refused")
    BY <1>3 DEF SkipRoutes
  <2>2. Answer(direction, "refused") \in PeerRoutesTable
    BY DEF Answer, PeerRoutesTable
  <2> QED BY <1>3, <2>1, <2>2, <1>a DEF SkipRoutes, TypeOK, Stages, TripsBound
<1>4. CASE FallbackRoutes
  <2>1. PICK outcome \in Outcomes :
           /\ popup' = IF Answer("received", outcome).error THEN popup
                       ELSE [Answer("received", outcome) EXCEPT !.postPolicy = TRUE]
           /\ Queried("fallback", outcome)
    BY <1>4 DEF FallbackRoutes
  <2>2. [Answer("received", outcome) EXCEPT !.postPolicy = TRUE] \in PeerRoutesTable
    BY DEF Answer, PeerRoutesTable
  <2>3. /\ trips' = trips + 1
        /\ said' \in SUBSET ((Sections \cup Vrfs) \X {"empty", "garbled", "omitted"})
    BY <2>1, QueriedType DEF TypeOK, Sections
  <2>4. pc = "fallback" /\ pc' = "list"
        /\ active' = active /\ status' = status /\ todo' = todo
    BY <1>4 DEF FallbackRoutes
  <2>5. popup' \in PeerRoutesTable \cup {None}
    BY <2>1, <2>2 DEF TypeOK
  <2> QED BY <2>3, <2>4, <2>5, <1>a DEF TypeOK, Stages, TripsBound
<1>5. CASE Inactive
  BY <1>5, <1>a DEF Inactive, TypeOK, Stages, TripsBound
<1>6. CASE ListDaemons
  <2>1. PICK listed \in SUBSET Daemons : status' = [status EXCEPT !.daemons = listed]
    BY <1>6 DEF ListDaemons
  <2>2. status' \in Status /\ status'.vrfs = status.vrfs /\ status'.routes = status.routes
        /\ status'.errors = status.errors
    BY <2>1, <1>b DEF Status
  <2>3. status = EmptyStatus
    BY <1>6 DEF ListDaemons, Stages
  <2>4. status'.vrfs = Nothing /\ status'.routes = {} /\ Len(status'.errors) = 0
    BY <2>2, <2>3 DEF EmptyStatus
  <2>5. /\ pc = "list" /\ pc' = "summary" /\ active' = active /\ todo' = todo
        /\ popup' = popup /\ trips' = trips /\ said' = said
    BY <1>6 DEF ListDaemons
  <2>6. todo = {}
    BY <2>5 DEF Stages
  <2> QED BY <2>2, <2>4, <2>5, <2>6, <1>a DEF TypeOK, Stages, TripsBound
<1>7. CASE RouteSummary
  <2>1. PICK outcome \in Outcomes \ {"empty"} :
           /\ status' = [status EXCEPT !.summary = (outcome = "answered"),
                                       !.errors = Errors("zebra", "summary", outcome)]
           /\ Queried("summary", outcome)
    BY <1>7 DEF RouteSummary
  <2>2. /\ Errors("zebra", "summary", outcome) \in Seq(Error)
        /\ Len(Errors("zebra", "summary", outcome)) <= MaxErrors
    BY <1>b, QueriedErrors DEF Daemons
  <2>3. /\ status' \in Status /\ Len(status'.errors) <= MaxErrors
        /\ status'.vrfs = status.vrfs /\ status'.routes = status.routes
    BY <1>b, <2>1, <2>2 DEF Status
  <2>4. /\ trips' = trips + 1
        /\ said' \in SUBSET ((Sections \cup Vrfs) \X {"empty", "garbled", "omitted"})
    BY <2>1, QueriedType DEF TypeOK, Sections
  <2>5. /\ pc = "summary" /\ pc' = "bgp"
        /\ active' = active /\ todo' = todo /\ popup' = popup
    BY <1>7 DEF RouteSummary
  <2> QED BY <2>3, <2>4, <2>5, <1>a DEF TypeOK, Stages, TripsBound
<1>8. CASE BgpSummary
  <2>1. PICK outcome \in Outcomes, vs \in SUBSET Vrfs, count \in Counts :
           /\ status' = [status EXCEPT !.vrfs = [v \in vs |-> count],
                                       !.errors = Errors("bgpd", "bgp", outcome)]
           /\ Queried("bgp", outcome)
    BY <1>8, Zenon DEF BgpSummary
  <2>2. /\ Errors("bgpd", "bgp", outcome) \in Seq(Error)
        /\ Len(Errors("bgpd", "bgp", outcome)) <= MaxErrors
    BY <1>b, QueriedErrors DEF Daemons
  <2>3. [v \in vs |-> count] \in UNION {[us -> Counts] : us \in SUBSET Vrfs}
    OBVIOUS
  <2>4. /\ status' \in Status /\ Len(status'.errors) <= MaxErrors
        /\ status'.routes = status.routes
    BY <1>b, <2>1, <2>2, <2>3 DEF Status
  <2>5. /\ trips' = trips + 1
        /\ said' \in SUBSET ((Sections \cup Vrfs) \X {"empty", "garbled", "omitted"})
    BY <2>1, QueriedType DEF TypeOK, Sections
  <2>6. /\ pc = "bgp" /\ pc' = "bfd"
        /\ active' = active /\ todo' = todo /\ popup' = popup
    BY <1>8 DEF BgpSummary
  <2>7. status.routes = {} /\ todo = {}
    BY <2>6 DEF Stages
  <2> QED BY <2>4, <2>5, <2>6, <2>7, <1>a DEF TypeOK, Stages, TripsBound
<1>9. CASE BfdPeers
  <2>1. PICK outcome \in Outcomes, sessions \in [{"p1"} -> BOOLEAN] \cup {Nothing},
             drift \in Error \cup {None} :
           /\ status' = [status EXCEPT
                  !.bfd = sessions,
                  !.errors = AddQueryError(Errors("bfdd", "bfd", outcome), drift)]
           /\ Queried("bfd", outcome)
    <3>1. <<"bfdd", "drift">> \in Error
      BY DEF Error
    <3> QED BY <1>9, <3>1 DEF BfdPeers
  <2>2. /\ Errors("bfdd", "bfd", outcome) \in Seq(Error)
        /\ Len(Errors("bfdd", "bfd", outcome)) <= MaxErrors
    BY <1>b, QueriedErrors DEF Daemons
  <2> DEFINE errors == AddQueryError(Errors("bfdd", "bfd", outcome), drift)
  <2>3. errors \in Seq(Error) /\ Len(errors) <= MaxErrors
    BY <2>2, AddedError
  <2> HIDE DEF errors
  <2>4. /\ status' \in Status /\ Len(status'.errors) <= MaxErrors
        /\ status'.vrfs = status.vrfs /\ status'.routes = status.routes
    BY <1>b, <2>1, <2>3 DEF Status, errors
  <2>5. /\ trips' = trips + 1
        /\ said' \in SUBSET ((Sections \cup Vrfs) \X {"empty", "garbled", "omitted"})
    BY <2>1, QueriedType DEF TypeOK, Sections
  <2>6. /\ pc = "bfd" /\ pc' = "vrfAll"
        /\ active' = active /\ todo' = todo /\ popup' = popup
    BY <1>9 DEF BfdPeers
  <2> QED BY <2>4, <2>5, <2>6, <1>a DEF TypeOK, Stages, TripsBound
<1>10. CASE NotListed
  BY <1>10, <1>a DEF NotListed, TypeOK, Stages, TripsBound
<1>11. CASE VrfAll
  <2>1. PICK outcome \in Outcomes, got \in SUBSET DOMAIN status.vrfs :
           /\ status' = [status EXCEPT !.routes = got,
                                       !.errors = Errors("zebra", "vrfAll", outcome)]
           /\ todo' \in {{}, DOMAIN status.vrfs}
           /\ todo' # {} => Cardinality(DOMAIN status.vrfs) <= MaxVrfs
           /\ trips' = trips + 1
           /\ \E omitted \in SUBSET DOMAIN status.vrfs :
                 said' = said \cup omitted \X {"omitted"}
    <3>1. PICK outcome \in Outcomes :
          \E got \in IF outcome = "answered" THEN SUBSET DOMAIN status.vrfs ELSE {{}} :
             AllAsked(outcome, got)
      BY <1>11, Zenon DEF VrfAll
    <3>2. PICK got \in SUBSET DOMAIN status.vrfs : AllAsked(outcome, got)
      BY <3>1
    <3> QED BY <3>2 DEF AllAsked
  <2>2. /\ Errors("zebra", "vrfAll", outcome) \in Seq(Error)
        /\ Len(Errors("zebra", "vrfAll", outcome)) <= MaxErrors
    BY <1>b, QueriedErrors DEF Daemons
  <2>3. /\ status' \in Status /\ Len(status'.errors) <= MaxErrors
        /\ status'.vrfs = status.vrfs /\ status'.routes = got
    BY <1>b, <2>1, <2>2 DEF Status
  <2>4. /\ trips' = trips + 1
        /\ said' \in SUBSET ((Sections \cup Vrfs) \X {"empty", "garbled", "omitted"})
    <3>1. DOMAIN status.vrfs \in SUBSET Vrfs
      BY <1>b, StatusSections
    <3> QED BY <2>1, <3>1, <1>a DEF TypeOK
  <2>5. /\ pc = "vrfAll" /\ pc' = IF todo' = {} THEN "done" ELSE "vrf"
        /\ active' = active /\ popup' = popup
    BY <1>11 DEF VrfAll
  <2>6. todo' \in SUBSET DOMAIN status'.vrfs
    BY <2>1, <2>3
  <2>7. Cardinality(DOMAIN status.vrfs) \in Nat
    BY <1>b, FiniteVrfs
  <2>8. trips' + Cardinality(todo') <= 6 + MaxVrfs \/ todo' = {}
    BY <2>1, <2>4, <2>5, <2>7, <1>a DEF TripsBound, TypeOK
  <2> QED BY <2>3, <2>4, <2>5, <2>6, <2>8, <1>a DEF TypeOK, Stages, TripsBound
<1>12. CASE SkipVrf
  <2>1. NextVrf /\ trips' = trips /\ said' = said
        /\ status' = [status EXCEPT !.errors = AddQueryError(@, <<"routes", "name", this>>)]
    BY <1>12 DEF SkipVrf
  <2>2. /\ this \in todo /\ this \in Vrfs
        /\ todo' = todo \ {this} /\ todo' \in SUBSET DOMAIN status.vrfs
        /\ Cardinality(todo) \in Nat /\ Cardinality(todo') \in Nat
        /\ Cardinality(todo') = Cardinality(todo) - 1
        /\ pc = "vrf" /\ pc' = IF todo' = {} THEN "done" ELSE "vrf"
        /\ active' = active /\ popup' = popup
    BY <2>1, NextVrfTodo
  <2>3. <<"routes", "name", this>> \in Error
    BY <2>2 DEF Error
  <2> DEFINE errors == AddQueryError(status.errors, <<"routes", "name", this>>)
  <2>4. errors \in Seq(Error) /\ Len(errors) <= MaxErrors
    BY <1>b, <2>3, AddedError
  <2>5. status' = [status EXCEPT !.errors = errors]
    BY <2>1
  <2> HIDE DEF errors
  <2>6. /\ status' \in Status /\ Len(status'.errors) <= MaxErrors
        /\ status'.vrfs = status.vrfs /\ status'.routes = status.routes
    BY <1>b, <2>4, <2>5 DEF Status
  <2> QED BY <2>1, <2>2, <2>6, <1>a DEF TypeOK, Stages, TripsBound
<1>13. CASE VrfSummary
  <2>1. /\ NextVrf
        /\ \E outcome \in Outcomes \ {"empty"} :
              /\ status' = [status EXCEPT
                     !.routes = IF outcome = "answered" THEN @ \cup {this} ELSE @,
                     !.errors = Errors("zebra", this, outcome)]
              /\ Queried(this, outcome)
    BY <1>13 DEF VrfSummary
  <2>2. PICK outcome \in Outcomes :
           /\ status' = [status EXCEPT
                  !.routes = IF outcome = "answered" THEN @ \cup {this} ELSE @,
                  !.errors = Errors("zebra", this, outcome)]
           /\ Queried(this, outcome)
    BY <2>1
  <2>3. /\ this \in todo /\ this \in Vrfs
        /\ todo' = todo \ {this} /\ todo' \in SUBSET DOMAIN status.vrfs
        /\ Cardinality(todo) \in Nat /\ Cardinality(todo') \in Nat
        /\ Cardinality(todo') = Cardinality(todo) - 1
        /\ pc = "vrf" /\ pc' = IF todo' = {} THEN "done" ELSE "vrf"
        /\ active' = active /\ popup' = popup
    BY <2>1, NextVrfTodo
  <2>4. /\ Errors("zebra", this, outcome) \in Seq(Error)
        /\ Len(Errors("zebra", this, outcome)) <= MaxErrors
    BY <1>b, <2>3, QueriedErrors DEF Daemons
  <2>5. this \in DOMAIN status.vrfs
    BY <2>3 DEF TypeOK
  <2>6. /\ status' \in Status /\ Len(status'.errors) <= MaxErrors
        /\ status'.vrfs = status.vrfs /\ status'.routes \in SUBSET DOMAIN status.vrfs
    BY <1>b, <2>2, <2>3, <2>4, <2>5 DEF Status, TypeOK
  <2>7. /\ trips' = trips + 1
        /\ said' \in SUBSET ((Sections \cup Vrfs) \X {"empty", "garbled", "omitted"})
    BY <2>2, <2>3, QueriedType DEF TypeOK
  <2> QED BY <2>3, <2>6, <2>7, <1>a DEF TypeOK, Stages, TripsBound
<1>14. CASE Finish
  <2>1. /\ pc' = "idle" /\ status' = EmptyStatus /\ popup' = None /\ trips' = 0
        /\ said' = {} /\ active' = active /\ todo' = todo /\ todo = {}
    BY <1>14 DEF Finish, Stages
  <2>2. status' \in Status /\ Len(status'.errors) = 0 /\ status'.routes = {}
    BY <2>1, EmptyIsStatus DEF EmptyStatus
  <2> QED BY <2>1, <2>2, <1>a DEF TypeOK, Stages, TripsBound
<1>15. CASE UNCHANGED vars
  BY <1>15 DEF vars, TypeOK, Stages, TripsBound
<1> QED
  BY <1>1, <1>2, <1>3, <1>4, <1>5, <1>6, <1>7, <1>8, <1>9, <1>10, <1>11, <1>12,
     <1>13, <1>14, <1>15 DEF Next

\* Every variable of a tick keeps its type, the list of errors its limit, and
\* a tick makes at most six round trips and one per VRF up to the limit
\* (frr.rs:559-569, 595-631), for any VRFs and limits.
THEOREM TypeCorrect == Spec => []TypeOK
<1>1. TypeInv => TypeOK
  BY DEF TypeInv
<1> QED BY <1>1, InitTypeInv, NextTypeInv, PTL DEF Spec

\* What the verdict is given, as PanelsAgree has it.
Snapshot(unit, staged, memory, disk) ==
    [active |-> active, vrfs |-> status.vrfs, bfd |-> status.bfd,
     units |-> [u \in {"sync"} |-> unit], staged |-> staged,
     memory |-> memory, disk |-> disk]

LEMMA TickIsSnapshot ==
    ASSUME TypeOK, NEW unit \in {"Ok", "TimerNotActive", "Failed"}, NEW staged \in BOOLEAN,
           NEW memory \in {Unknown, 69, 70, 80, 89, 90}, NEW disk \in {Unknown, 69, 70, 80, 89, 90}
    PROVE  IsSnapshot(Snapshot(unit, staged, memory, disk))
<1> DEFINE s == Snapshot(unit, staged, memory, disk)
<1>1. s.vrfs = status.vrfs /\ s.memory = memory /\ s.disk = disk
      /\ s.units = [u \in {"sync"} |-> unit]
  BY DEF Snapshot
<1> HIDE DEF s
<1>2. IsFiniteSet(DOMAIN s.units)
  <2>1. DOMAIN s.units = {"sync"}
    BY <1>1
  <2> QED BY <2>1, FS_Singleton
<1>3. \A u \in DOMAIN s.units : s.units[u] \in {"Ok", "TimerNotActive", "Failed"}
  BY <1>1
<1>4. \A v \in DOMAIN s.vrfs : /\ s.vrfs[v].estab \in Nat /\ s.vrfs[v].total \in Nat
                               /\ s.vrfs[v].estab <= s.vrfs[v].total
  BY <1>1, StatusSections DEF TypeOK, Counts
<1>5. s.memory \in 0 .. 100 \cup {Unknown} /\ s.disk \in 0 .. 100 \cup {Unknown}
  BY <1>1
<1>6. IsSnapshot(s)
  BY <1>2, <1>3, <1>4, <1>5 DEF IsSnapshot
<1> QED BY <1>6 DEF s

\* The badge, the exit code and the panels tell the same story of everything
\* a tick of queries can end in (health.rs, ui.rs), for any VRFs.
THEOREM TicksAgree == Spec => []PanelsAgree
<1>1. TypeOK => PanelsAgree
  <2> SUFFICES ASSUME TypeOK, NEW unit \in {"Ok", "TimerNotActive", "Failed"},
                      NEW staged \in BOOLEAN,
                      NEW memory \in {Unknown, 69, 70, 80, 89, 90},
                      NEW disk \in {Unknown, 69, 70, 80, 89, 90}
               PROVE  PanelsAgreeOn(Snapshot(unit, staged, memory, disk))
    BY DEF PanelsAgree, Snapshot
  <2> QED BY TickIsSnapshot, VerdictAgrees
<1> QED BY <1>1, TypeCorrect, PTL

-----------------------------------------------------------------------------
(***************************************************************************)
(* The inductive invariant behind EmptinessIsReal.  One query of a tick    *)
(* adds at most one error, so before the rows of the VRFs, which may fill  *)
(* the list, there is room for every one; and what explains a blank        *)
(* section stays there for the rest of the tick.                           *)
(***************************************************************************)
RoomForErrors ==
    /\ pc = "summary" => Len(status.errors) = 0
    /\ pc = "bgp" => Len(status.errors) <= 1
    /\ pc = "bfd" => Len(status.errors) <= 2

SummaryExplained ==
    status.summary \/ Said("summary", {"garbled"}) \/ Explained("zebra", "summary")
BgpExplained ==
    status.vrfs # Nothing \/ Said("bgp", {"empty", "garbled"}) \/ Explained("bgpd", "bgp")
BfdExplained == status.bfd # Nothing \/ Said("bfd", {"empty"}) \/ Explained("bfdd", "bfd")

RowExplained(v) ==
    \/ Said(v, {"garbled", "omitted"}) \/ Explained("zebra", v)
    \/ <<"routes", "name", v>> \in ToSet(status.errors)
    \/ Len(status.errors) = MaxErrors
    \/ Cardinality(DOMAIN status.vrfs) > MaxVrfs

SectionsExplained ==
    /\ active /\ pc \in {"bgp", "bfd", "vrfAll", "vrf", "done"} => SummaryExplained
    /\ active /\ pc \in {"bfd", "vrfAll", "vrf", "done"} => BgpExplained
    /\ active /\ pc \in {"vrfAll", "vrf", "done"} => BfdExplained

RowsExplained ==
    pc \in {"vrf", "done"} =>
        \A v \in DOMAIN status.vrfs \ status.routes : v \in todo \/ RowExplained(v)

PopupExplained ==
    /\ pc \in {"idle", "routes"} => popup = None
    /\ popup # None /\ ~popup.error /\ ~popup.prefixes =>
           Said(IF popup.postPolicy THEN "fallback" ELSE "popup", {"empty"})

ExplainInv == RoomForErrors /\ SectionsExplained /\ RowsExplained /\ PopupExplained

\* Nothing a query does takes an explanation away.
LEMMA StillSaid ==
    ASSUME said \subseteq said', NEW section, NEW answers, Said(section, answers)
    PROVE  Said(section, answers)'
BY DEF Said

LEMMA StillExplained ==
    ASSUME ToSet(status.errors) \subseteq ToSet(status'.errors),
           status'.daemons = status.daemons, NEW d, NEW what, Explained(d, what)
    PROVE  Explained(d, what)'
BY DEF Explained

LEMMA RowStillExplained ==
    ASSUME said \subseteq said', ToSet(status.errors) \subseteq ToSet(status'.errors),
           status'.daemons = status.daemons, status'.vrfs = status.vrfs,
           Len(status.errors) <= Len(status'.errors), Len(status'.errors) <= MaxErrors,
           Len(status'.errors) \in Nat, MaxErrors \in Nat,
           NEW v, RowExplained(v)
    PROVE  RowExplained(v)'
BY StillSaid, StillExplained DEF RowExplained

\* A query for a section leaves a reason when it leaves the section blank.
LEMMA QueryLeavesReason ==
    ASSUME NEW d \in Daemons, NEW what \in {"summary", "bgp", "bfd", "vrfAll"} \cup Vrfs,
           NEW section, NEW outcome \in Outcomes, Queried(section, outcome),
           outcome # "answered",
           status \in Status, Len(status.errors) <= MaxErrors,
           ToSet(Errors(d, what, outcome)) \subseteq ToSet(status'.errors),
           Len(status.errors) < MaxErrors
    PROVE  \/ outcome \in {"empty", "garbled"} /\ <<section, outcome>> \in said'
           \/ Explained(d, what)'
<1>1. CASE outcome \in {"empty", "garbled"}
  BY <1>1 DEF Queried
<1>2. CASE outcome \in {"failed", "refused"}
  <2>1. Len(status.errors) \in Nat /\ MaxErrors \in Nat
    BY StatusSections, FrrStatusAssumption
  <2>3. \/ {<<d, "failed">>, <<d, "refused", what>>} \cap ToSet(Errors(d, what, outcome)) # {}
        \/ Len(status.errors) >= MaxErrors /\ Len(Errors(d, what, outcome)) = MaxErrors
    BY <1>2, QueriedErrors
  <2>4. ~ (Len(status.errors) >= MaxErrors)
    BY <2>1
  <2>2. {<<d, "failed">>, <<d, "refused", what>>} \cap ToSet(Errors(d, what, outcome)) # {}
    BY <2>3, <2>4
  <2> QED BY <2>2 DEF Explained
<1> QED BY <1>1, <1>2 DEF Outcomes

\* The error list after a query has all of the earlier entries.
LEMMA SetErrors ==
    ASSUME NEW s \in Status, NEW errors \in Seq(Error), Len(errors) <= MaxErrors,
           status \in Status, s.errors = errors, s.daemons = status.daemons,
           ToSet(status.errors) \subseteq ToSet(errors), status' = s, said \subseteq said',
           active' = active
    PROVE  /\ SummaryExplained /\ s.summary = status.summary => SummaryExplained'
           /\ BgpExplained /\ s.vrfs = status.vrfs => BgpExplained'
           /\ BfdExplained /\ s.bfd = status.bfd => BfdExplained'
BY StillSaid, StillExplained DEF SummaryExplained, BgpExplained, BfdExplained

\* After its query, the popup is not touched until the tick is over.
LEMMA PopupStillExplained ==
    ASSUME PopupExplained, popup' = popup, said \subseteq said',
           pc' \notin {"idle", "routes"}
    PROVE  PopupExplained'
BY StillSaid DEF PopupExplained

LEMMA NextExplainInv == TypeInv /\ TypeInv' /\ ExplainInv /\ [Next]_vars => ExplainInv'
<1> SUFFICES ASSUME TypeOK, Stages, TypeOK', Stages',
                    RoomForErrors, SectionsExplained, RowsExplained, PopupExplained, [Next]_vars
             PROVE  RoomForErrors' /\ SectionsExplained' /\ RowsExplained' /\ PopupExplained'
  BY DEF TypeInv, ExplainInv
<1>a. MaxVrfs \in Nat /\ MaxErrors \in Nat /\ MaxErrors >= 4
  BY FrrStatusAssumption
<1>b. /\ status \in Status /\ Len(status.errors) <= MaxErrors
      /\ status.daemons \in SUBSET Daemons
      /\ status.vrfs \in UNION {[vs -> Counts] : vs \in SUBSET Vrfs}
      /\ status.routes \in SUBSET Vrfs /\ status.errors \in Seq(Error)
      /\ DOMAIN status.vrfs \in SUBSET Vrfs /\ Len(status.errors) \in Nat
  BY StatusSections DEF TypeOK
<1>c. /\ status' \in Status /\ Len(status'.errors) <= MaxErrors
      /\ status'.errors \in Seq(Error) /\ Len(status'.errors) \in Nat
  <2>1. status' \in Status /\ Len(status'.errors) <= MaxErrors
    BY DEF TypeOK
  <2> QED BY <2>1, StatusSections
<1>1. CASE Begin
  <2>1. /\ pc = "idle" /\ pc' \in {"routes", "list"} /\ popup' = popup
    BY <1>1 DEF Begin
  <2>2. popup' = None
    BY <2>1 DEF PopupExplained
  <2> QED BY <2>1, <2>2 DEF RoomForErrors, SectionsExplained, RowsExplained, PopupExplained
<1>2. CASE PeerRoutes
  <2>1. PICK direction \in {"advertised", "received"}, outcome \in Outcomes :
           /\ popup' = Answer(direction, outcome)
           /\ Queried("popup", outcome)
    BY <1>2 DEF PeerRoutes
  <2>2. pc' \in {"fallback", "list"}
    BY <1>2 DEF PeerRoutes
  <2>3. /\ popup'.postPolicy = FALSE
        /\ ~ popup'.error /\ ~ popup'.prefixes => outcome = "empty"
    BY <2>1 DEF Answer, Outcomes
  <2>4. outcome = "empty" => Said("popup", {"empty"})'
    BY <2>1 DEF Queried, Said
  <2> QED BY <2>2, <2>3, <2>4 DEF RoomForErrors, SectionsExplained, RowsExplained, PopupExplained
<1>3. CASE SkipRoutes
  <2>1. PICK direction \in {"advertised", "received"} : popup' = Answer(direction, "refused")
    BY <1>3 DEF SkipRoutes
  <2>2. popup'.error
    BY <2>1 DEF Answer
  <2> QED BY <1>3, <2>2
      DEF SkipRoutes, RoomForErrors, SectionsExplained, RowsExplained, PopupExplained
<1>4. CASE FallbackRoutes
  <2>1. PICK outcome \in Outcomes :
           /\ popup' = IF Answer("received", outcome).error THEN popup
                       ELSE [Answer("received", outcome) EXCEPT !.postPolicy = TRUE]
           /\ Queried("fallback", outcome)
    BY <1>4 DEF FallbackRoutes
  <2>2. pc = "fallback" /\ pc' = "list" /\ said \subseteq said'
    BY <1>4, <2>1 DEF FallbackRoutes, Queried
  <2>3. CASE Answer("received", outcome).error
    BY <2>1, <2>2, <2>3, PopupStillExplained
       DEF RoomForErrors, SectionsExplained, RowsExplained
  <2>4. CASE ~ Answer("received", outcome).error
    <3>1. popup' = [direction |-> "received", postPolicy |-> TRUE,
                    prefixes |-> outcome = "answered", error |-> outcome \notin {"answered", "empty"}]
      BY <2>1, <2>4 DEF Answer
    <3>2. popup'.postPolicy /\ (~ popup'.error /\ ~ popup'.prefixes => outcome = "empty")
      BY <3>1
    <3>3. outcome = "empty" => Said("fallback", {"empty"})'
      BY <2>1 DEF Queried, Said
    <3> QED BY <2>2, <3>2, <3>3
        DEF RoomForErrors, SectionsExplained, RowsExplained, PopupExplained
  <2> QED BY <2>3, <2>4
<1>5. CASE Inactive
  <2>1. /\ pc = "list" /\ pc' = "done" /\ ~ active' /\ status' = status /\ popup' = popup
        /\ said' = said
    BY <1>5 DEF Inactive
  <2>2. status'.vrfs = Nothing /\ DOMAIN Nothing = {}
    BY <2>1, EmptyIsStatus DEF Stages, EmptyStatus
  <2> QED BY <2>1, <2>2, PopupStillExplained DEF RoomForErrors, SectionsExplained, RowsExplained
<1>6. CASE ListDaemons
  <2>1. /\ pc = "list" /\ pc' = "summary" /\ popup' = popup /\ said' = said
    BY <1>6 DEF ListDaemons
  <2>2. PICK listed \in SUBSET Daemons : status' = [EmptyStatus EXCEPT !.daemons = listed]
    BY <1>6 DEF ListDaemons, Stages
  <2>3. Len(status'.errors) = 0
    BY <2>2 DEF EmptyStatus
  <2> QED BY <2>1, <2>3, PopupStillExplained DEF RoomForErrors, SectionsExplained, RowsExplained
<1>7. CASE RouteSummary
  <2>1. PICK outcome \in Outcomes \ {"empty"} :
           /\ status' = [status EXCEPT !.summary = (outcome = "answered"),
                                       !.errors = Errors("zebra", "summary", outcome)]
           /\ Queried("summary", outcome)
    BY <1>7 DEF RouteSummary
  <2>2. /\ pc = "summary" /\ pc' = "bgp"
        /\ active' = active /\ popup' = popup /\ said \subseteq said'
    BY <1>7, <2>1 DEF RouteSummary, Queried
  <2>3. /\ status'.errors = Errors("zebra", "summary", outcome)
        /\ status'.summary = (outcome = "answered")
    BY <1>b, <2>1 DEF Status
  <2>4. Len(status'.errors) <= Len(status.errors) + 1
    BY <1>b, <2>3, QueriedErrors DEF Daemons
  <2>5. Len(status.errors) = 0
    BY <2>2 DEF RoomForErrors
  <2>6. outcome # "answered" =>
           \/ outcome = "garbled" /\ <<"summary", outcome>> \in said'
           \/ Explained("zebra", "summary")'
    BY <1>a, <1>b, <2>1, <2>3, <2>5, QueryLeavesReason DEF Daemons
  <2>7. SummaryExplained'
    BY <2>3, <2>6 DEF SummaryExplained, Said
  <2> QED BY <1>a, <1>c, <2>2, <2>4, <2>5, <2>7, PopupStillExplained
      DEF RoomForErrors, SectionsExplained, RowsExplained
<1>8. CASE BgpSummary
  <2>1. PICK outcome \in Outcomes, vs \in SUBSET Vrfs, count \in Counts :
           /\ status' = [status EXCEPT !.vrfs = [v \in vs |-> count],
                                       !.errors = Errors("bgpd", "bgp", outcome)]
           /\ Queried("bgp", outcome)
           /\ outcome = "answered" => vs # {}
    <3>0. PICK outcome \in Outcomes :
          \E vs \in IF outcome = "answered" THEN (SUBSET Vrfs) \ {{}} ELSE {{}} :
          \E count \in Counts :
             /\ status' = [status EXCEPT !.vrfs = [v \in vs |-> count],
                                         !.errors = Errors("bgpd", "bgp", outcome)]
             /\ Queried("bgp", outcome)
      BY <1>8, Zenon DEF BgpSummary
    <3>1. PICK vs :
            /\ vs \in IF outcome = "answered" THEN (SUBSET Vrfs) \ {{}} ELSE {{}}
            /\ \E count \in Counts :
                  /\ status' = [status EXCEPT !.vrfs = [v \in vs |-> count],
                                              !.errors = Errors("bgpd", "bgp", outcome)]
                  /\ Queried("bgp", outcome)
      BY <3>0, Zenon
    <3>2. vs \in SUBSET Vrfs /\ (outcome = "answered" => vs # {})
      <4>1. vs \in IF outcome = "answered" THEN (SUBSET Vrfs) \ {{}} ELSE {{}}
        BY <3>1, Zenon
      <4> QED BY <4>1
    <3> QED BY <3>1, <3>2, Zenon
  <2>2. /\ pc = "bgp" /\ pc' = "bfd"
        /\ active' = active /\ popup' = popup /\ said \subseteq said'
    BY <1>8, <2>1 DEF BgpSummary, Queried
  <2>3. /\ status'.errors = Errors("bgpd", "bgp", outcome)
        /\ status'.vrfs = [v \in vs |-> count]
        /\ status'.summary = status.summary /\ status'.daemons = status.daemons
    BY <1>b, <2>1 DEF Status
  <2>4. /\ Len(status'.errors) <= Len(status.errors) + 1
        /\ ToSet(status.errors) \subseteq ToSet(status'.errors)
    BY <1>b, <2>3, QueriedErrors DEF Daemons
  <2>5. Len(status.errors) <= 1
    BY <2>2 DEF RoomForErrors
  <2>6. outcome # "answered" =>
           \/ outcome \in {"empty", "garbled"} /\ <<"bgp", outcome>> \in said'
           \/ Explained("bgpd", "bgp")'
    BY <1>a, <1>b, <2>1, <2>3, <2>5, QueryLeavesReason DEF Daemons
  <2>7. outcome = "answered" => status'.vrfs # Nothing
    BY <2>1, <2>3, EmptyIsStatus
  <2>8. BgpExplained'
    BY <2>6, <2>7 DEF BgpExplained, Said
  <2>9. active => SummaryExplained'
    BY <1>b, <1>c, <2>2, <2>3, <2>4, SetErrors DEF SectionsExplained
  <2> QED BY <1>a, <1>c, <2>2, <2>4, <2>5, <2>8, <2>9, PopupStillExplained
      DEF RoomForErrors, SectionsExplained, RowsExplained
<1>9. CASE BfdPeers
  <2>1. PICK outcome \in Outcomes, sessions \in [{"p1"} -> BOOLEAN] \cup {Nothing},
             drift \in Error \cup {None} :
           /\ status' = [status EXCEPT
                  !.bfd = sessions,
                  !.errors = AddQueryError(Errors("bfdd", "bfd", outcome), drift)]
           /\ Queried("bfd", outcome)
           /\ outcome = "answered" => sessions \in [{"p1"} -> BOOLEAN]
           /\ outcome = "garbled" => drift = <<"bfdd", "drift">>
    <3>1. <<"bfdd", "drift">> \in Error
      BY DEF Error
    <3> QED BY <1>9, <3>1 DEF BfdPeers
  <2> DEFINE errors == AddQueryError(Errors("bfdd", "bfd", outcome), drift)
  <2>2. /\ pc = "bfd" /\ pc' = "vrfAll"
        /\ active' = active /\ popup' = popup /\ said \subseteq said'
    BY <1>9, <2>1 DEF BfdPeers, Queried
  <2>5. Len(status.errors) <= 2
    BY <2>2 DEF RoomForErrors
  <2>3. /\ Errors("bfdd", "bfd", outcome) \in Seq(Error)
        /\ Len(Errors("bfdd", "bfd", outcome)) <= MaxErrors
        /\ Len(Errors("bfdd", "bfd", outcome)) <= Len(status.errors) + 1
        /\ ToSet(status.errors) \subseteq ToSet(Errors("bfdd", "bfd", outcome))
        /\ Len(Errors("bfdd", "bfd", outcome)) \in Nat
    BY <1>b, QueriedErrors DEF Daemons
  <2>4. /\ ToSet(Errors("bfdd", "bfd", outcome)) \subseteq ToSet(errors)
        /\ drift # None => drift \in ToSet(errors)
    <3>1. Len(Errors("bfdd", "bfd", outcome)) < MaxErrors
      BY <1>a, <1>b, <2>3, <2>5
    <3> QED BY <2>3, <3>1, AddedError
  <2>6. /\ status'.errors = errors /\ status'.bfd = sessions
        /\ status'.summary = status.summary /\ status'.daemons = status.daemons
        /\ status'.vrfs = status.vrfs
    BY <1>b, <2>1 DEF Status
  <2> HIDE DEF errors
  <2>10. BfdExplained'
    <3>1. CASE outcome = "answered"
      <4>1. sessions # Nothing
        BY <2>1, <3>1, EmptyIsStatus
      <4> QED BY <4>1, <2>6 DEF BfdExplained
    <3>2. CASE outcome = "garbled"
      <4>1. <<"bfdd", "drift">> \in ToSet(status'.errors)
        BY <2>1, <2>4, <2>6, <3>2, FrrStatusAssumption DEF Error
      <4> QED BY <4>1 DEF BfdExplained, Explained
    <3>3. CASE outcome \notin {"answered", "garbled"}
      <4>1. \/ outcome \in {"empty", "garbled"} /\ <<"bfd", outcome>> \in said'
            \/ Explained("bfdd", "bfd")'
        BY <1>a, <1>b, <2>1, <2>4, <2>5, <2>6, <3>3, QueryLeavesReason DEF Daemons
      <4> QED BY <3>3, <4>1 DEF BfdExplained, Said
    <3> QED BY <3>1, <3>2, <3>3
  <2>11. ToSet(status.errors) \subseteq ToSet(status'.errors)
    BY <2>3, <2>4, <2>6
  <2>12. active => SummaryExplained' /\ BgpExplained'
    BY <1>b, <1>c, <2>2, <2>6, <2>11, SetErrors DEF SectionsExplained
  <2> QED BY <2>2, <2>10, <2>12, PopupStillExplained
      DEF RoomForErrors, SectionsExplained, RowsExplained
<1>10. CASE NotListed
  <2>1. /\ status' = status /\ popup' = popup /\ said' = said /\ active' = active
        /\ todo' = todo /\ pc' \notin {"idle", "routes"} /\ pc' \in {"bfd", "vrfAll", "done"}
    BY <1>10 DEF NotListed
  <2>2. /\ SummaryExplained' <=> SummaryExplained
        /\ BgpExplained' <=> BgpExplained
        /\ BfdExplained' <=> BfdExplained
    BY <2>1 DEF SummaryExplained, BgpExplained, BfdExplained, Said, Explained
  <2>3. CASE pc = "bgp" /\ "bgpd" \notin status.daemons /\ pc' = "bfd"
    <3>1. BgpExplained'
      BY <2>1, <2>3 DEF BgpExplained, Explained
    <3> QED BY <1>a, <1>b, <2>1, <2>2, <2>3, <3>1, PopupStillExplained
        DEF RoomForErrors, SectionsExplained, RowsExplained
  <2>4. CASE pc = "bfd" /\ "bfdd" \notin status.daemons /\ pc' = "vrfAll"
    <3>1. BfdExplained'
      BY <2>1, <2>4 DEF BfdExplained, Explained
    <3> QED BY <2>1, <2>2, <2>4, <3>1, PopupStillExplained
        DEF RoomForErrors, SectionsExplained, RowsExplained
  <2>5. CASE pc = "vrfAll" /\ ~AsksVrfs /\ pc' = "done"
    <3>1. \A v \in DOMAIN status'.vrfs \ status'.routes : RowExplained(v)'
      <4>1. CASE "zebra" \notin status.daemons
        BY <2>1, <4>1 DEF RowExplained, Explained
      <4>2. CASE status.vrfs = Nothing
        BY <2>1, <4>2, EmptyIsStatus
      <4> QED BY <2>5, <4>1, <4>2 DEF AsksVrfs
    <3> QED BY <2>1, <2>2, <2>5, <3>1, PopupStillExplained
        DEF RoomForErrors, SectionsExplained, RowsExplained
  <2> QED BY <1>10, <2>3, <2>4, <2>5 DEF NotListed
<1>11. CASE VrfAll
  <2>1. PICK outcome \in Outcomes :
          \E got \in IF outcome = "answered" THEN SUBSET DOMAIN status.vrfs ELSE {{}} :
             AllAsked(outcome, got)
    BY <1>11, Zenon DEF VrfAll
  <2>0. PICK got \in SUBSET DOMAIN status.vrfs : AllAsked(outcome, got)
    BY <2>1
  <2>2. /\ pc = "vrfAll" /\ pc' \in {"vrf", "done"}
        /\ active' = active /\ popup' = popup /\ said \subseteq said'
        /\ status' = [status EXCEPT !.routes = got,
                                    !.errors = Errors("zebra", "vrfAll", outcome)]
    BY <1>11, <2>0 DEF VrfAll, AllAsked
  <2>3. /\ status'.errors = Errors("zebra", "vrfAll", outcome) /\ status'.routes = got
        /\ status'.summary = status.summary /\ status'.daemons = status.daemons
        /\ status'.vrfs = status.vrfs /\ status'.bfd = status.bfd
    BY <1>b, <2>2 DEF Status
  <2>4. ToSet(status.errors) \subseteq ToSet(status'.errors)
    BY <1>b, <2>3, QueriedErrors DEF Daemons
  <2>5. active => SummaryExplained' /\ BgpExplained' /\ BfdExplained'
    BY <1>b, <1>c, <2>2, <2>3, <2>4, SetErrors DEF SectionsExplained
  <2>6. \A v \in DOMAIN status'.vrfs \ status'.routes : v \in todo' \/ RowExplained(v)'
    <3> TAKE v \in DOMAIN status'.vrfs \ status'.routes
    <3>1. CASE outcome = "answered"
      <4>1. v \in DOMAIN status.vrfs \ got
        BY <2>3
      <4>2. Said(v, {"garbled", "omitted"})'
        BY <2>0, <3>1, <4>1 DEF AllAsked, Said
      <4> QED BY <4>2 DEF RowExplained
    <3>2. CASE outcome # "answered"
      <4>1. Cardinality(DOMAIN status.vrfs) \in Nat
        BY <1>b, FiniteVrfs
      <4>2. v \in todo' \/ Cardinality(DOMAIN status'.vrfs) > MaxVrfs
        BY <1>a, <2>0, <2>3, <3>2, <4>1 DEF AllAsked
      <4> QED BY <4>2 DEF RowExplained
    <3> QED BY <3>1, <3>2
  <2> QED BY <2>2, <2>5, <2>6, PopupStillExplained
      DEF RoomForErrors, SectionsExplained, RowsExplained
<1>12. CASE SkipVrf
  <2>1. /\ NextVrf /\ said' = said
        /\ status' = [status EXCEPT !.errors = AddQueryError(@, <<"routes", "name", this>>)]
    BY <1>12 DEF SkipVrf
  <2>2. /\ this \in Vrfs /\ todo' = todo \ {this} /\ pc = "vrf" /\ pc' \in {"vrf", "done"}
        /\ active' = active /\ popup' = popup
    BY <2>1, NextVrfTodo
  <2>3. <<"routes", "name", this>> \in Error /\ <<"routes", "name", this>> # None
    BY <2>2, FrrStatusAssumption DEF Error
  <2> DEFINE errors == AddQueryError(status.errors, <<"routes", "name", this>>)
  <2>4. /\ ToSet(status.errors) \subseteq ToSet(errors) /\ Len(status.errors) <= Len(errors)
        /\ <<"routes", "name", this>> \in ToSet(errors) \/ Len(errors) = MaxErrors
    BY <1>b, <2>3, AddedError
  <2>5. status' = [status EXCEPT !.errors = errors]
    BY <2>1
  <2> HIDE DEF errors
  <2>6. /\ status'.errors = errors /\ status'.routes = status.routes
        /\ status'.summary = status.summary /\ status'.daemons = status.daemons
        /\ status'.vrfs = status.vrfs /\ status'.bfd = status.bfd
    BY <1>b, <2>5 DEF Status
  <2>7. active => SummaryExplained' /\ BgpExplained' /\ BfdExplained'
    BY <1>b, <1>c, <2>1, <2>2, <2>4, <2>6, SetErrors DEF SectionsExplained
  <2>8. \A v \in DOMAIN status'.vrfs \ status'.routes : v \in todo' \/ RowExplained(v)'
    <3> TAKE v \in DOMAIN status'.vrfs \ status'.routes
    <3>1. CASE v = this
      BY <2>4, <2>6, <3>1 DEF RowExplained
    <3>2. CASE v # this /\ v \in todo
      BY <2>2, <3>2
    <3>3. CASE RowExplained(v)
      BY <1>a, <1>b, <1>c, <2>1, <2>4, <2>6, <3>3, RowStillExplained
    <3> QED BY <2>2, <2>6, <3>1, <3>2, <3>3 DEF RowsExplained
  <2> QED BY <2>2, <2>7, <2>8, <2>1, PopupStillExplained
      DEF RoomForErrors, SectionsExplained, RowsExplained
<1>13. CASE VrfSummary
  <2>1. /\ NextVrf
        /\ \E outcome \in Outcomes \ {"empty"} :
              /\ status' = [status EXCEPT
                     !.routes = IF outcome = "answered" THEN @ \cup {this} ELSE @,
                     !.errors = Errors("zebra", this, outcome)]
              /\ Queried(this, outcome)
    BY <1>13 DEF VrfSummary
  <2>2. PICK outcome \in Outcomes \ {"empty"} :
           /\ status' = [status EXCEPT
                  !.routes = IF outcome = "answered" THEN @ \cup {this} ELSE @,
                  !.errors = Errors("zebra", this, outcome)]
           /\ Queried(this, outcome)
    BY <2>1
  <2>3. /\ this \in Vrfs /\ todo' = todo \ {this} /\ pc = "vrf" /\ pc' \in {"vrf", "done"}
        /\ active' = active /\ popup' = popup /\ said \subseteq said'
    BY <2>1, <2>2, NextVrfTodo DEF Queried
  <2>4. /\ Len(status.errors) <= Len(Errors("zebra", this, outcome))
        /\ ToSet(status.errors) \subseteq ToSet(Errors("zebra", this, outcome))
        /\ outcome \in {"failed", "refused"} =>
              \/ {<<"zebra", "failed">>, <<"zebra", "refused", this>>}
                     \cap ToSet(Errors("zebra", this, outcome)) # {}
              \/ Len(Errors("zebra", this, outcome)) = MaxErrors
    BY <1>b, <2>3, QueriedErrors DEF Daemons
  <2>5. /\ status'.errors = Errors("zebra", this, outcome)
        /\ status.routes \subseteq status'.routes
        /\ outcome = "answered" => this \in status'.routes
        /\ status'.summary = status.summary /\ status'.daemons = status.daemons
        /\ status'.vrfs = status.vrfs /\ status'.bfd = status.bfd
    BY <1>b, <2>2 DEF Status
  <2>6. active => SummaryExplained' /\ BgpExplained' /\ BfdExplained'
    BY <1>b, <1>c, <2>3, <2>4, <2>5, SetErrors DEF SectionsExplained
  <2>7. \A v \in DOMAIN status'.vrfs \ status'.routes : v \in todo' \/ RowExplained(v)'
    <3> TAKE v \in DOMAIN status'.vrfs \ status'.routes
    <3>1. CASE v = this
      <4>1. outcome \in {"failed", "refused", "garbled"}
        BY <2>5, <3>1 DEF Outcomes
      <4>2. CASE outcome = "garbled"
        <5>1. Said(v, {"garbled", "omitted"})'
          BY <2>2, <3>1, <4>2 DEF Said, Queried
        <5> QED BY <5>1 DEF RowExplained
      <4>3. CASE outcome \in {"failed", "refused"}
        <5>1. \/ {<<"zebra", "failed">>, <<"zebra", "refused", v>>} \cap ToSet(status'.errors) # {}
              \/ Len(status'.errors) = MaxErrors
          BY <2>4, <2>5, <3>1, <4>3
        <5> QED BY <5>1 DEF RowExplained, Explained
      <4> QED BY <4>1, <4>2, <4>3
    <3>2. CASE v # this /\ v \in todo
      BY <2>3, <3>2
    <3>3. CASE RowExplained(v)
      BY <1>a, <1>b, <1>c, <2>3, <2>4, <2>5, <3>3, RowStillExplained
    <3> QED BY <2>3, <2>5, <3>1, <3>2, <3>3 DEF RowsExplained
  <2> QED BY <2>3, <2>6, <2>7, PopupStillExplained
      DEF RoomForErrors, SectionsExplained, RowsExplained
<1>14. CASE Finish
  <2>1. pc' = "idle" /\ popup' = None
    BY <1>14 DEF Finish
  <2> QED BY <2>1 DEF RoomForErrors, SectionsExplained, RowsExplained, PopupExplained
<1>15. CASE UNCHANGED vars
  BY <1>15 DEF vars, RoomForErrors, SectionsExplained, RowsExplained, PopupExplained,
     SummaryExplained, BgpExplained, BfdExplained, RowExplained, Said, Explained
<1> QED
  BY <1>1, <1>2, <1>3, <1>4, <1>5, <1>6, <1>7, <1>8, <1>9, <1>10, <1>11, <1>12,
     <1>13, <1>14, <1>15 DEF Next

\* A section is blank at the end of a tick only if its daemon said so, is
\* missing from the list, or has an error in query_errors (frr.rs:57-63); a
\* VRF's row also if the one answer for all VRFs omits it, if there are too
\* many VRFs to ask or if the list is full - however many VRFs there are and
\* whatever the limit of query_errors, from four up.
THEOREM EmptinessExplained == Spec => []EmptinessIsReal
<1>1. Init => ExplainInv
  BY EmptyIsStatus DEF Init, ExplainInv, RoomForErrors, SectionsExplained, RowsExplained,
     PopupExplained
<1>2. TypeInv /\ ExplainInv => EmptinessIsReal
  BY DEF TypeInv, Stages, ExplainInv, SectionsExplained, RowsExplained, PopupExplained,
     EmptinessIsReal, SummaryExplained, BgpExplained, BfdExplained, RowExplained
<1> QED BY <1>1, <1>2, InitTypeInv, NextTypeInv, NextExplainInv, PTL DEF Spec

=============================================================================
