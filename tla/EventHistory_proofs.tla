-------------------------- MODULE EventHistory_proofs --------------------------
(***************************************************************************)
(* Proofs about EventHistory, for any consoles, peers, router states and   *)
(* sizes of the ring, the channel and the log.                             *)
(***************************************************************************)
EXTENDS EventHistory, FiniteSetTheorems, WellFoundedInduction, TLAPS

\* A nonempty set of numbers has a least one: every proof below
\* about the order of something rests on it.
LEMMA LeastNumber ==
    ASSUME NEW T \in SUBSET Nat, T # {}
    PROVE  \E n \in T : \A m \in T : n <= m
<1> DEFINE R == {ss \in Nat \X Nat : ss[1] < ss[2]}
<1>1. R = OpToRel(<, Nat)
  BY DEF OpToRel
<1>2. IsWellFoundedOn(R, Nat)
  BY <1>1, NatLessThanWellFounded
<1>3. \E n \in T : \A m \in T : ~ (<<m, n>> \in R)
  <2> HIDE DEF R
  <2> QED BY <1>2, WFMin
<1>4. PICK n \in T : \A m \in T : ~ (<<m, n>> \in R)
  BY <1>3
<1>5. ASSUME NEW m \in T PROVE n <= m
  <2>1. m \in Nat /\ n \in Nat
    OBVIOUS
  <2>2. ~ (m < n)
    BY <1>4, <2>1
  <2> QED BY <2>1, <2>2
<1> QED BY <1>5

-----------------------------------------------------------------------------
(***************************************************************************)
(* The operators of the model                                              *)
(***************************************************************************)
LEMMA LastNType ==
    ASSUME NEW S, NEW s \in Seq(S), NEW n \in Nat
    PROVE  /\ LastN(s, n) \in Seq(S)
           /\ Len(LastN(s, n)) = IF Len(s) <= n THEN Len(s) ELSE n
           /\ \A i \in 1 .. Len(LastN(s, n)) :
                 LastN(s, n)[i] = s[Len(s) - Len(LastN(s, n)) + i]
<1>1. CASE Len(s) <= n
  BY <1>1 DEF LastN
<1>2. CASE ~ (Len(s) <= n)
  <2>1. Len(s) \in Nat /\ Len(s) - n + 1 \in 1 .. Len(s) + 1
    BY <1>2
  <2>2. LastN(s, n) = SubSeq(s, Len(s) - n + 1, Len(s))
    BY <1>2 DEF LastN
  <2>3. /\ LastN(s, n) \in Seq(S) /\ Len(LastN(s, n)) = n
        /\ \A i \in 1 .. n : LastN(s, n)[i] = s[Len(s) - n + 1 + i - 1]
    BY <1>2, <2>1, <2>2
  <2> QED BY <1>2, <2>3
<1> QED BY <1>1, <1>2

\* A finite set can be listed.
LEMMA SetToSeqType ==
    ASSUME NEW S, IsFiniteSet(S)
    PROVE  SetToSeq(S) \in Seq(S)
<1>1. PICK n \in Nat : ExistsBijection(1 .. n, S)
  BY FS_NatBijection
<1>2. Cardinality(S) = n
  BY <1>1, FS_CountingElements
<1>3. \E f \in [1 .. Cardinality(S) -> S] : IsInjective(f)
  BY <1>1, <1>2 DEF ExistsBijection, Bijection, Injection, IsInjective
<1>4. SetToSeq(S) \in [1 .. Cardinality(S) -> S]
  BY <1>3 DEF SetToSeq
<1> QED BY <1>2, <1>4

\* An event is three words and no newline.
LEMMA EventsAreNoNewlines ==
    ASSUME NEW event \in Event
    PROVE  event # NL
<1>1. CASE event = Started
  BY <1>1 DEF Started, NL
<1>2. CASE event # Started
  <2>0. event \in UNION {Diff(t[1], t[2]) : t \in Compared \X Compared}
    BY <1>2 DEF Event
  <2>1. PICK o \in Compared, n \in Compared : event \in Diff(o, n)
    BY <2>0, Zenon
  <2>2. \E a, b, c : event = <<a, b, c>>
    BY <2>1 DEF Diff, InterfaceEvents, ServiceEvents, BgpEvents, BfdEvents, UnitEvents,
       ErrorEvents, BootcEvents
  <2> QED BY <2>2 DEF NL
<1> QED BY <1>1, <1>2

\* What a receipt records is events, and finitely many.
LEMMA DiffIsEvents ==
    ASSUME NEW o \in Snapshot \union {None}, NEW n \in Snapshot
    PROVE  /\ Diff(o, n) \in SUBSET Event
           /\ SetToSeq(Diff(o, n)) \in Seq(Event)
<1>1. Diff(o, n) \in SUBSET Event
  <2>1. CASE o = None
    BY <2>1 DEF Diff
  <2>2. CASE o \in Snapshot
    <3> DEFINE Bare(s) == [s EXCEPT !.daemons = {}]
    <3>1. ASSUME NEW s \in Snapshot
          PROVE  /\ Bare(s) \in Compared
                 /\ Bare(s).ifaces = s.ifaces /\ Bare(s).frr = s.frr /\ Bare(s).peers = s.peers
                 /\ Bare(s).bfd = s.bfd /\ Bare(s).errors = s.errors
                 /\ Bare(s).units = s.units /\ Bare(s).bootc = s.bootc
      BY DEF Snapshot, Compared
    <3>2. o # None /\ Bare(o) # None
      BY <2>2, <3>1, ConstantsAssumption DEF Compared
    <3>3. Diff(Bare(o), Bare(n)) = Diff(o, n)
      <4>1. /\ Bare(o).ifaces = o.ifaces /\ Bare(o).frr = o.frr /\ Bare(o).peers = o.peers
            /\ Bare(o).bfd = o.bfd /\ Bare(o).errors = o.errors
            /\ Bare(o).units = o.units /\ Bare(o).bootc = o.bootc
        BY <2>2, <3>1
      <4>2. /\ Bare(n).ifaces = n.ifaces /\ Bare(n).frr = n.frr /\ Bare(n).peers = n.peers
            /\ Bare(n).bfd = n.bfd /\ Bare(n).errors = n.errors
            /\ Bare(n).units = n.units /\ Bare(n).bootc = n.bootc
        BY <3>1
      <4> HIDE DEF Bare
      <4> QED BY <3>2, <4>1, <4>2 DEF Diff
    <3>4. <<Bare(o), Bare(n)>> \in Compared \X Compared
      BY <2>2, <3>1
    <3>5. Diff(Bare(o), Bare(n)) \subseteq Event
      <4> HIDE DEF Bare
      <4> QED BY <3>4 DEF Event
    <3> QED BY <3>3, <3>5
  <2> QED BY <2>1, <2>2
<1>2. IsFiniteSet(Diff(o, n))
  BY <1>1, FS_Subset, ConstantsAssumption
<1>3. SetToSeq(Diff(o, n)) \in Seq(Diff(o, n))
  BY <1>2, SetToSeqType
<1> QED BY <1>1, <1>3

-----------------------------------------------------------------------------
(***************************************************************************)
(* The lines of the log file                                               *)
(***************************************************************************)
LEMMA MaxOfBounded ==
    ASSUME NEW n \in Nat, NEW A \in SUBSET (0 .. n), A # {}
    PROVE  Max(A) \in A /\ \A x \in A : x <= Max(A)
<1> DEFINE T == {d \in Nat : n - d \in A}
<1>1. PICK x \in A : TRUE
  OBVIOUS
<1>2. n - x \in T
  BY <1>1
<1>3. PICK d \in T : \A e \in T : d <= e
  BY <1>2, LeastNumber
<1>4. n - d \in A
  BY <1>3
<1>5. ASSUME NEW y \in A PROVE n - d >= y
  <2>1. n - y \in T
    OBVIOUS
  <2>2. d \in Nat /\ y \in Nat
    BY <1>3
  <2>3. d <= n - y
    <3> HIDE DEF T
    <3> QED BY <1>3, <2>1
  <2> QED BY <2>2, <2>3
<1>6. \E m \in A : \A y \in A : m >= y
  BY <1>4, <1>5
<1>7. Max(A) \in A /\ \A y \in A : Max(A) >= y
  BY <1>6 DEF Max
<1> QED BY <1>7

\* How many elements of a set come up to a number.
UpTo(S, j) == {k \in S : k <= j}

LEMMA UpToFinite ==
    ASSUME NEW n \in Nat, NEW S \in SUBSET (1 .. n), NEW j
    PROVE  /\ IsFiniteSet(S) /\ Cardinality(S) \in Nat
           /\ IsFiniteSet(UpTo(S, j)) /\ Cardinality(UpTo(S, j)) \in Nat
<1>1. IsFiniteSet(1 .. n)
  BY FS_Interval
<1>2. UpTo(S, j) \in SUBSET (1 .. n)
  BY DEF UpTo
<1> QED BY <1>1, <1>2, FS_Subset, FS_CardinalityType

\* Any set of positions has an nth.
LEMMA NthOfMember ==
    ASSUME NEW n \in Nat, NEW S \in SUBSET (1 .. n), NEW m \in 1 .. Cardinality(S)
    PROVE  NthOf(S, m) \in S
<1>0. \A k \in S : k \in Nat /\ 1 <= k /\ k <= n
  OBVIOUS
<1> DEFINE T == {i \in Nat : Cardinality(UpTo(S, i)) >= m}
<1>1. n \in T
  <2>1. UpTo(S, n) = S
    BY <1>0 DEF UpTo
  <2>2. Cardinality(S) \in Nat
    BY UpToFinite
  <2> QED BY <2>1, <2>2
<1>2. PICK i \in T : \A e \in T : i <= e
  BY <1>1, LeastNumber
<1>3. i # 0
  <2>0. \A k \in S : ~ (k <= 0)
    BY <1>0
  <2>1. UpTo(S, 0) = {}
    BY <2>0 DEF UpTo
  <2>2. 0 \notin T
    BY <2>1, FS_EmptySet
  <2> QED BY <1>2, <2>2
<1>4. i - 1 \in Nat /\ i - 1 \notin T
  BY <1>2, <1>3
<1>5. /\ Cardinality(UpTo(S, i - 1)) < m /\ Cardinality(UpTo(S, i)) >= m
      /\ Cardinality(UpTo(S, i - 1)) \in Nat /\ Cardinality(UpTo(S, i)) \in Nat
  <2>1. Cardinality(UpTo(S, i - 1)) \in Nat /\ Cardinality(UpTo(S, i)) \in Nat
    BY UpToFinite
  <2>2. Cardinality(S) \in Nat
    BY UpToFinite
  <2> QED BY <1>2, <1>4, <2>1, <2>2
<1>6. i \in S
  <2> SUFFICES ASSUME i \notin S PROVE FALSE
    OBVIOUS
  <2>1. \A k \in S : k <= i <=> k <= i - 1
    BY <1>0, <1>2
  <2>2. UpTo(S, i) = UpTo(S, i - 1)
    BY <2>1 DEF UpTo
  <2>3. Cardinality(S) \in Nat
    BY UpToFinite
  <2> QED BY <1>5, <2>2, <2>3
<1>7. Cardinality(UpTo(S, i)) = m
  <2>0. \A k \in S : k <= i <=> k <= i - 1 \/ k = i
    BY <1>0, <1>2
  <2>4. i <= i /\ ~ (i <= i - 1)
    BY <1>2
  <2>1. UpTo(S, i) = UpTo(S, i - 1) \cup {i} /\ i \notin UpTo(S, i - 1)
    BY <1>6, <2>0, <2>4 DEF UpTo
  <2>2. Cardinality(UpTo(S, i)) = Cardinality(UpTo(S, i - 1)) + 1
    BY <2>1, UpToFinite, FS_AddElement
  <2>3. Cardinality(S) \in Nat
    BY UpToFinite
  <2> QED BY <1>5, <2>2, <2>3
<1>8. i \in {j \in S : Cardinality({k \in S : k <= j}) = m}
  BY <1>6, <1>7 DEF UpTo
<1> QED BY <1>8 DEF NthOf

\* Up to where the line at a position goes.
LineEnds(f, i) == {j \in i .. Len(f) : \A k \in i .. j : f[k] # NL}

LEMMA LineFromType ==
    ASSUME NEW S, NEW f \in Seq(S), NEW i \in LineStarts(f)
    PROVE  /\ Max(LineEnds(f, i)) \in i .. Len(f)
           /\ LineFrom(f, i) = SubSeq(f, i, Max(LineEnds(f, i)))
           /\ LineFrom(f, i) \in Seq(S)
<1>1. i \in 1 .. Len(f) /\ f[i] # NL /\ Len(f) \in Nat
  BY DEF LineStarts
<1>2. i \in LineEnds(f, i) /\ LineEnds(f, i) \in SUBSET (0 .. Len(f))
  BY <1>1 DEF LineEnds
<1>3. Max(LineEnds(f, i)) \in LineEnds(f, i)
  BY <1>1, <1>2, MaxOfBounded
<1>4. Max(LineEnds(f, i)) \in i .. Len(f)
  BY <1>3 DEF LineEnds
<1>5. LineFrom(f, i) = SubSeq(f, i, Max(LineEnds(f, i)))
  BY DEF LineFrom, LineEnds
<1>6. SubSeq(f, i, Max(LineEnds(f, i))) \in Seq(S)
  BY <1>1, <1>4
<1> QED BY <1>4, <1>5, <1>6

LEMMA LinesType ==
    ASSUME NEW S, NEW f \in Seq(S)
    PROVE  /\ Lines(f) \in Seq(Seq(S)) /\ Len(Lines(f)) = Cardinality(LineStarts(f))
           /\ LineStarts(f) \in SUBSET (1 .. Len(f)) /\ Cardinality(LineStarts(f)) \in Nat
<1>1. LineStarts(f) \in SUBSET (1 .. Len(f)) /\ Len(f) \in Nat
  BY DEF LineStarts
<1>2. Cardinality(LineStarts(f)) \in Nat
  BY <1>1, UpToFinite
<1>3. ASSUME NEW n \in 1 .. Cardinality(LineStarts(f))
      PROVE  LineFrom(f, NthOf(LineStarts(f), n)) \in Seq(S)
  BY <1>1, NthOfMember, LineFromType
<1>4. Lines(f) \in [1 .. Cardinality(LineStarts(f)) -> Seq(S)]
  BY <1>3 DEF Lines
<1> QED BY <1>1, <1>2, <1>4

\* What a new dashboard restores is within the limit of the ring.
LEMMA LoadFileType ==
    ASSUME NEW S, NEW f \in Seq(S)
    PROVE  LoadFile(f) \in Seq(Seq(S)) /\ Len(LoadFile(f)) <= Capacity
<1>1. Lines(f) \in Seq(Seq(S)) /\ Capacity \in Nat
  BY LinesType, ConstantsAssumption
<1> HIDE DEF Lines
<1>2. /\ LastN(Lines(f), Capacity) \in Seq(Seq(S))
      /\ Len(LastN(Lines(f), Capacity)) = IF Len(Lines(f)) <= Capacity THEN Len(Lines(f)) ELSE Capacity
  BY <1>1, LastNType
<1> QED BY <1>1, <1>2 DEF LoadFile

-----------------------------------------------------------------------------
(***************************************************************************)
(* Types                                                                   *)
(***************************************************************************)
\* One entry of a variable changes.
LEMMA HalfType ==
    ASSUME NEW f \in [Consoles -> BOOLEAN], NEW c \in Consoles, NEW v \in BOOLEAN
    PROVE  /\ Put(f, c, v) \in [Consoles -> BOOLEAN]
           /\ Put(f, c, v)[c] = v
           /\ \A d \in Consoles \ {c} : Put(f, c, v)[d] = f[d]
BY DEF Put

\* What a gather gets of FRR, together with the rest, is a snapshot.
LEMMA GatheredType ==
    ASSUME TypeOK, NEW c \in Consoles, active[c] # None
    PROVE  LET frr == FrrPart(active[c].frr)
           IN  [ifaces |-> active[c].ifaces, frr |-> active[c].frr,
                peers |-> frr.peers, bfd |-> frr.bfd,
                daemons |-> frr.daemons, errors |-> frr.errors,
                units |-> world.units, bootc |-> cache[c]] \in Snapshot
<1> DEFINE was == active[c].frr
<1>1. active[c] \in [frr : BOOLEAN, ifaces : {w.ifaces : w \in Worlds}]
  BY DEF TypeOK
<1>2. was \in BOOLEAN /\ active[c].ifaces \in {w.ifaces : w \in Worlds}
  BY <1>1
<1>3. /\ FrrPart(was).peers \in {w.peers : w \in Worlds} \union {NoPeers}
      /\ FrrPart(was).bfd \in {w.bfd : w \in Worlds} \union {NoBfdPeers}
  BY DEF TypeOK, FrrPart
<1>4. FrrPart(was).errors \in SUBSET Daemons /\ FrrPart(was).daemons \in SUBSET Daemons
  BY ConstantsAssumption DEF FrrPart, Listening
<1>5. world.units \in {w.units : w \in Worlds}
      /\ cache[c] \in {w.bootc : w \in Worlds} \union {None}
  BY DEF TypeOK
<1> QED BY <1>2, <1>3, <1>4, <1>5 DEF Snapshot

\* The two parts of TypeOK.
VariableTypes ==
    /\ world \in Worlds /\ running \subseteq Consoles
    /\ active \in [Consoles -> [frr : BOOLEAN, ifaces : {w.ifaces : w \in Worlds}] \union {None}]
    /\ cache \in [Consoles -> {w.bootc : w \in Worlds} \union {None}]
    /\ chan \in [Consoles -> Seq(Snapshot)]
    /\ prev \in [Consoles -> Snapshot \union {None}]
    /\ snap \in [Consoles -> Snapshot \union {None}]
    /\ ring \in [Consoles -> Seq(Seq(Event \union {NL}))]
    /\ todo \in [Consoles -> Seq(Event)]
    /\ half \in [Consoles -> BOOLEAN]
    /\ file \in Seq(Event \union {NL})
    /\ older \in [Consoles -> Seq(Snapshot \union {None})]
    /\ batches \in [Consoles -> (SUBSET Event) \X (SUBSET Event)]
    /\ dipped \subseteq Peers /\ alone \subseteq Consoles
    /\ {changes, ends} \subseteq Nat

ConsoleLimits ==
    \A c \in Consoles :
        /\ Len(chan[c]) <= MaxQueue /\ Len(ring[c]) <= Capacity /\ Len(older[c]) <= 2
        /\ half[c] => todo[c] # <<>>
        /\ c \notin running =>
              chan[c] = <<>> /\ snap[c] = None /\ todo[c] = <<>>
        /\ snap[c] = None => prev[c] = None

LEMMA TypeOKParts == TypeOK <=> VariableTypes /\ ConsoleLimits
BY DEF TypeOK, VariableTypes, ConsoleLimits

\* A receipt.
LEMMA ReceivedTypes ==
    ASSUME TypeOK, NEW c \in Consoles, Receive(c)
    PROVE  /\ Head(chan[c]) \in Snapshot /\ Tail(chan[c]) \in Seq(Snapshot)
           /\ Len(Tail(chan[c])) <= MaxQueue
           /\ SetToSeq(Diff(prev[c], Head(chan[c]))) \in Seq(Event)
           /\ Diff(prev[c], Head(chan[c])) \in SUBSET Event
           /\ LastN(Append(older[c], prev[c]), 2) \in Seq(Snapshot \union {None})
           /\ Len(LastN(Append(older[c], prev[c]), 2)) <= 2
           /\ batches[c][2] \in SUBSET Event
<1>1. chan[c] \in Seq(Snapshot) /\ chan[c] # <<>> /\ Len(chan[c]) <= MaxQueue
  BY DEF TypeOK, Receive
<1>2. Head(chan[c]) \in Snapshot /\ Tail(chan[c]) \in Seq(Snapshot)
      /\ Len(Tail(chan[c])) <= MaxQueue
  BY <1>1, ConstantsAssumption
<1>3. prev[c] \in Snapshot \union {None} /\ older[c] \in Seq(Snapshot \union {None})
  BY DEF TypeOK
<1>4. Append(older[c], prev[c]) \in Seq(Snapshot \union {None})
  BY <1>3
<1>5. /\ LastN(Append(older[c], prev[c]), 2) \in Seq(Snapshot \union {None})
      /\ Len(LastN(Append(older[c], prev[c]), 2)) <= 2
  <2> DEFINE l == Append(older[c], prev[c])
  <2>1. l \in Seq(Snapshot \union {None}) /\ 2 \in Nat
    BY <1>4
  <2> HIDE DEF l
  <2>2. LastN(l, 2) \in Seq(Snapshot \union {None})
        /\ Len(LastN(l, 2)) = IF Len(l) <= 2 THEN Len(l) ELSE 2
    BY <2>1, LastNType
  <2>3. Len(l) \in Nat
    BY <2>1
  <2>5. Len(LastN(l, 2)) = IF Len(l) <= 2 THEN Len(l) ELSE 2
    BY <2>2
  <2>4. Len(LastN(l, 2)) <= 2
    BY <2>3, <2>5
  <2> QED BY <2>2, <2>4 DEF l
<1>6. batches[c][2] \in SUBSET Event
  BY DEF TypeOK
<1> QED BY <1>2, <1>3, <1>5, <1>6, DiffIsEvents

LEMMA InitTypeOK == Init => TypeOK
<1> SUFFICES ASSUME Init PROVE VariableTypes /\ ConsoleLimits
  BY TypeOKParts
<1>1. DownIn(world) \subseteq Peers
  BY ConstantsAssumption DEF Init, DownIn, Known
<1>2. \A c \in Consoles : /\ chan[c] = <<>> /\ snap[c] = None /\ prev[c] = None
                          /\ ring[c] = <<>> /\ todo[c] = <<>> /\ half[c] = FALSE
                          /\ older[c] = <<>>
  BY DEF Init
<1>3. ConsoleLimits
  BY <1>2, ConstantsAssumption DEF ConsoleLimits
<1>4. half \in [Consoles -> BOOLEAN]
  BY Zenon DEF Init
<1>5. VariableTypes
  BY <1>1, <1>4, ConstantsAssumption DEF Init, VariableTypes
<1> QED BY <1>3, <1>5

\* What TypeOK rests on: a gather begins only with room in the channel and
\* under a dashboard that runs.
GatherRoom ==
    \A c \in Consoles : /\ active[c] # None => Len(chan[c]) < MaxQueue
                        /\ c \notin running => active[c] = None

TypeInv == VariableTypes /\ ConsoleLimits /\ GatherRoom

LEMMA InitTypeInv == Init => TypeInv
<1> SUFFICES ASSUME Init PROVE TypeInv
  OBVIOUS
<1>1. VariableTypes /\ ConsoleLimits
  BY InitTypeOK, TypeOKParts
<1>2. GatherRoom
  BY DEF Init, GatherRoom
<1> QED BY <1>1, <1>2 DEF TypeInv

LEMMA NextTypeInv == TypeInv /\ [Next]_vars => TypeInv'
<1> SUFFICES ASSUME TypeOK, VariableTypes, ConsoleLimits, GatherRoom, [Next]_vars
             PROVE  VariableTypes' /\ ConsoleLimits' /\ GatherRoom'
  BY TypeOKParts DEF TypeInv
<1>c. Capacity \in Nat \ {0} /\ MaxQueue \in Nat \ {0}
  BY ConstantsAssumption
<1>1. CASE Change
  <2>1. PICK w \in Worlds : world' = w /\ dipped' = dipped \union DownIn(w)
    BY <1>1 DEF Change
  <2>2. DownIn(w) \subseteq Peers
    BY ConstantsAssumption DEF DownIn, Known
  <2>3. changes' \in Nat
    BY <1>1 DEF Change, VariableTypes
  <2>4. UNCHANGED <<running, gatherVars, uiVars, file, older, batches, alone, ends>>
    BY <1>1 DEF Change
  <2> QED BY <2>1, <2>2, <2>3, <2>4 DEF VariableTypes, ConsoleLimits, GatherRoom, gatherVars, uiVars
<1>2. ASSUME NEW c \in Consoles, Launch(c)
      PROVE  VariableTypes' /\ ConsoleLimits' /\ GatherRoom'
  <2>1. LoadFile(file) \in Seq(Seq(Event \union {NL})) /\ Len(LoadFile(file)) <= Capacity
    BY LoadFileType DEF VariableTypes
  <2>2. <<Started>> \in Seq(Event) /\ <<Started>> # <<>>
    BY DEF Event
  <2>3. /\ running' = running \union {c}
        /\ ring' = Put(ring, c, LoadFile(file)) /\ todo' = Put(todo, c, <<Started>>)
        /\ alone' \subseteq alone \union {c}
        /\ UNCHANGED <<world, gatherVars, prev, snap, half, file, older, batches, dipped, counters>>
    BY <1>2 DEF Launch
  <2>4. ring' \in [Consoles -> Seq(Seq(Event \union {NL}))]
        /\ ring'[c] = LoadFile(file) /\ \A d \in Consoles \ {c} : ring'[d] = ring[d]
    <3>1. ring \in [Consoles -> Seq(Seq(Event \union {NL}))]
      BY DEF VariableTypes
    <3> QED BY <2>1, <2>3, <3>1 DEF Put
  <2>5. todo' \in [Consoles -> Seq(Event)]
        /\ todo'[c] = <<Started>> /\ \A d \in Consoles \ {c} : todo'[d] = todo[d]
    <3>1. todo \in [Consoles -> Seq(Event)]
      BY DEF VariableTypes
    <3> QED BY <2>2, <2>3, <3>1 DEF Put
  <2>6. VariableTypes'
    BY <2>3, <2>4, <2>5 DEF VariableTypes, gatherVars, counters
  <2>7. ConsoleLimits' /\ GatherRoom'
    BY <2>1, <2>2, <2>3, <2>4, <2>5 DEF ConsoleLimits, GatherRoom, gatherVars, counters
  <2> QED BY <2>6, <2>7
<1>3. ASSUME NEW c \in Consoles, GatherFirst(c)
      PROVE  VariableTypes' /\ ConsoleLimits' /\ GatherRoom'
  <2>1. world.frr \in BOOLEAN /\ world \in Worlds
    BY ConstantsAssumption DEF VariableTypes
  <2>2. PICK b \in {world.bootc, cache[c]} : cache' = Put(cache, c, b)
    BY <1>3 DEF GatherFirst
  <2>3. /\ active' = Put(active, c, [frr |-> world.frr, ifaces |-> world.ifaces])
        /\ c \in running /\ Len(chan[c]) < MaxQueue
        /\ UNCHANGED <<world, running, chan, uiVars, file, history, counters>>
    BY <1>3 DEF GatherFirst
  <2>4. /\ active' \in [Consoles -> [frr : BOOLEAN, ifaces : {w.ifaces : w \in Worlds}] \union {None}]
        /\ \A d \in Consoles \ {c} : active'[d] = active[d]
    <3>1. active \in [Consoles -> [frr : BOOLEAN, ifaces : {w.ifaces : w \in Worlds}] \union {None}]
      BY DEF VariableTypes
    <3>2. [frr |-> world.frr, ifaces |-> world.ifaces]
             \in [frr : BOOLEAN, ifaces : {w.ifaces : w \in Worlds}] \union {None}
      BY <2>1
    <3> QED BY <2>3, <3>1, <3>2 DEF Put
  <2>5. cache' \in [Consoles -> {w.bootc : w \in Worlds} \union {None}]
    <3>1. cache \in [Consoles -> {w.bootc : w \in Worlds} \union {None}]
      BY DEF VariableTypes
    <3>2. b \in {w.bootc : w \in Worlds} \union {None}
      BY <2>1, <3>1
    <3> QED BY <2>2, <3>1, <3>2 DEF Put
  <2>6. VariableTypes'
    BY <2>3, <2>4, <2>5 DEF VariableTypes, uiVars, history, counters
  <2>7. ConsoleLimits' /\ GatherRoom'
    BY <2>3, <2>4 DEF ConsoleLimits, GatherRoom, uiVars, history, counters
  <2> QED BY <2>6, <2>7
<1>4. ASSUME NEW c \in Consoles, GatherRest(c)
      PROVE  VariableTypes' /\ ConsoleLimits' /\ GatherRoom'
  <2>1. /\ active' = Put(active, c, None) /\ active[c] # None
        /\ UNCHANGED <<world, running, cache, uiVars, file, history, counters>>
    BY <1>4 DEF GatherRest
  <2>2. PICK s \in Snapshot : chan' = Put(chan, c, Append(chan[c], s))
    BY <1>4, GatheredType DEF GatherRest
  <2>3. c \in running /\ Len(chan[c]) < MaxQueue
    BY <2>1 DEF GatherRoom
  <2>4. chan[c] \in Seq(Snapshot) /\ chan \in [Consoles -> Seq(Snapshot)]
    BY DEF VariableTypes
  <2>5. Append(chan[c], s) \in Seq(Snapshot) /\ Len(Append(chan[c], s)) <= MaxQueue
    BY <1>c, <2>3, <2>4
  <2>6. /\ chan' \in [Consoles -> Seq(Snapshot)] /\ Len(chan'[c]) <= MaxQueue
        /\ \A d \in Consoles \ {c} : chan'[d] = chan[d]
    BY <2>2, <2>4, <2>5 DEF Put
  <2>7. /\ active' \in [Consoles -> [frr : BOOLEAN, ifaces : {w.ifaces : w \in Worlds}] \union {None}]
        /\ active'[c] = None /\ \A d \in Consoles \ {c} : active'[d] = active[d]
    <3>1. active \in [Consoles -> [frr : BOOLEAN, ifaces : {w.ifaces : w \in Worlds}] \union {None}]
      BY DEF VariableTypes
    <3> QED BY <2>1, <3>1 DEF Put
  <2>8. VariableTypes'
    BY <2>1, <2>6, <2>7 DEF VariableTypes, uiVars, history, counters
  <2>9. ConsoleLimits' /\ GatherRoom'
    BY <2>1, <2>3, <2>6, <2>7 DEF ConsoleLimits, GatherRoom, uiVars, history, counters
  <2> QED BY <2>8, <2>9
<1>5. ASSUME NEW c \in Consoles, Receive(c)
      PROVE  VariableTypes' /\ ConsoleLimits' /\ GatherRoom'
  <2> DEFINE new == Head(chan[c])
             events == Diff(prev[c], new)
             list == SetToSeq(events)
             past == LastN(Append(older[c], prev[c]), 2)
  <2>1. /\ todo' = Put(todo, c, list) /\ prev' = Put(prev, c, snap[c])
        /\ snap' = Put(snap, c, new) /\ older' = Put(older, c, past)
        /\ batches' = Put(batches, c, <<batches[c][2], events>>)
        /\ chan' = Put(chan, c, Tail(chan[c]))
        /\ c \in running /\ todo[c] = <<>> /\ chan[c] # <<>>
        /\ UNCHANGED <<world, running, active, cache, ring, half, file, dipped, alone, counters>>
    BY <1>5 DEF Receive
  <2>2. /\ new \in Snapshot /\ Tail(chan[c]) \in Seq(Snapshot)
        /\ Len(Tail(chan[c])) <= MaxQueue
        /\ list \in Seq(Event) /\ events \in SUBSET Event
        /\ past \in Seq(Snapshot \union {None}) /\ Len(past) <= 2
        /\ batches[c][2] \in SUBSET Event
    BY <1>5, ReceivedTypes
  <2> HIDE DEF new, events, list, past
  <2>3. /\ chan \in [Consoles -> Seq(Snapshot)] /\ chan[c] \in Seq(Snapshot)
        /\ prev \in [Consoles -> Snapshot \union {None}]
        /\ snap \in [Consoles -> Snapshot \union {None}] /\ snap[c] \in Snapshot \union {None}
        /\ todo \in [Consoles -> Seq(Event)]
        /\ older \in [Consoles -> Seq(Snapshot \union {None})]
        /\ batches \in [Consoles -> (SUBSET Event) \X (SUBSET Event)]
    BY DEF VariableTypes
  <2>4. /\ chan' \in [Consoles -> Seq(Snapshot)] /\ chan'[c] = Tail(chan[c])
        /\ \A d \in Consoles \ {c} : chan'[d] = chan[d]
    BY <2>1, <2>2, <2>3 DEF Put
  <2>5. /\ prev' \in [Consoles -> Snapshot \union {None}]
        /\ \A d \in Consoles \ {c} : prev'[d] = prev[d]
    BY <2>1, <2>2, <2>3 DEF Put
  <2>6. /\ snap' \in [Consoles -> Snapshot \union {None}] /\ snap'[c] = new
        /\ \A d \in Consoles \ {c} : snap'[d] = snap[d]
    <3>1. new \in Snapshot \union {None}
      BY <2>2
    <3> QED BY <2>1, <2>3, <3>1 DEF Put
  <2>7. /\ todo' \in [Consoles -> Seq(Event)]
        /\ \A d \in Consoles \ {c} : todo'[d] = todo[d]
    BY <2>1, <2>2, <2>3 DEF Put
  <2>8. /\ older' \in [Consoles -> Seq(Snapshot \union {None})] /\ older'[c] = past
        /\ \A d \in Consoles \ {c} : older'[d] = older[d]
    BY <2>1, <2>2, <2>3 DEF Put
  <2>9. batches' \in [Consoles -> (SUBSET Event) \X (SUBSET Event)]
    <3>1. <<batches[c][2], events>> \in (SUBSET Event) \X (SUBSET Event)
      BY <2>2
    <3> QED BY <2>1, <2>3, <3>1 DEF Put
  <2>10. VariableTypes'
    BY <2>1, <2>4, <2>5, <2>6, <2>7, <2>8, <2>9 DEF VariableTypes, counters
  <2>11. new # None /\ ~ half[c] /\ Len(Tail(chan[c])) < Len(chan[c])
    BY <2>1, <2>2, <2>3, ConstantsAssumption DEF ConsoleLimits
  <2>12. Len(chan[c]) \in Nat /\ Len(Tail(chan[c])) \in Nat
    BY <2>2, <2>3
  <2>13. ConsoleLimits'
    <3>1. \A d \in Consoles \ {c} :
             /\ Len(chan'[d]) <= MaxQueue /\ Len(ring'[d]) <= Capacity /\ Len(older'[d]) <= 2
             /\ half'[d] => todo'[d] # <<>>
             /\ d \notin running' => chan'[d] = <<>> /\ snap'[d] = None /\ todo'[d] = <<>>
             /\ snap'[d] = None => prev'[d] = None
      <4> TAKE d \in Consoles \ {c}
      <4>1. /\ chan'[d] = chan[d] /\ ring' = ring /\ older'[d] = older[d]
            /\ half' = half /\ todo'[d] = todo[d] /\ running' = running
            /\ snap'[d] = snap[d] /\ prev'[d] = prev[d]
        BY <2>1, <2>4, <2>5, <2>6, <2>7, <2>8
      <4> QED BY <4>1 DEF ConsoleLimits
    <3>2. Len(ring'[c]) <= Capacity /\ ~ half'[c] /\ c \in running'
      BY <2>1, <2>11 DEF ConsoleLimits
    <3>3. Len(chan'[c]) <= MaxQueue /\ Len(older'[c]) <= 2 /\ snap'[c] # None
      BY <2>2, <2>4, <2>6, <2>8, <2>11
    <3>4. \A d \in Consoles : d = c \/ d \in Consoles \ {c}
      OBVIOUS
    <3> QED BY <3>1, <3>2, <3>3, <3>4 DEF ConsoleLimits
  <2>14. GatherRoom'
    <3>1. Len(Tail(chan[c])) <= Len(chan[c])
      BY <2>11, <2>12
    <3>2. active' = active /\ running' = running
      BY <2>1
    <3>3. Len(chan[c]) < MaxQueue => Len(chan'[c]) < MaxQueue
      BY <1>c, <2>4, <2>12, <3>1
    <3> QED BY <2>4, <3>2, <3>3 DEF GatherRoom
  <2> QED BY <2>10, <2>13, <2>14
<1>6. ASSUME NEW c \in Consoles, WriteText(c)
      PROVE  VariableTypes' /\ ConsoleLimits' /\ GatherRoom'
  <2>1. /\ todo[c] # <<>> /\ file' = Append(file, Head(todo[c])) /\ half' = Put(half, c, TRUE)
        /\ alone' = alone \intersect {c}
        /\ UNCHANGED <<world, running, gatherVars, prev, snap, ring, todo, older, batches, dipped,
                       counters>>
    BY <1>6 DEF WriteText
  <2>2. todo[c] \in Seq(Event) /\ file \in Seq(Event \union {NL}) /\ half \in [Consoles -> BOOLEAN]
    BY DEF VariableTypes
  <2>3. file' \in Seq(Event \union {NL})
    BY <2>1, <2>2
  <2>4. half' \in [Consoles -> BOOLEAN] /\ \A d \in Consoles \ {c} : half'[d] = half[d]
    <3>1. /\ Put(half, c, TRUE) \in [Consoles -> BOOLEAN]
          /\ \A d \in Consoles \ {c} : Put(half, c, TRUE)[d] = half[d]
      BY <2>2, HalfType
    <3> QED BY <2>1, <3>1
  <2>5. VariableTypes'
    BY <2>1, <2>3, <2>4 DEF VariableTypes, gatherVars, counters
  <2>6. ConsoleLimits' /\ GatherRoom'
    BY <2>1, <2>4 DEF ConsoleLimits, GatherRoom, gatherVars, counters
  <2> QED BY <2>5, <2>6
<1>7. ASSUME NEW c \in Consoles, WriteNewline(c)
      PROVE  VariableTypes' /\ ConsoleLimits' /\ GatherRoom'
  <2> DEFINE lines == LastN(Append(ring[c], <<Head(todo[c])>>), Capacity)
  <2>1. /\ half[c] /\ file' = Append(file, NL) /\ half' = Put(half, c, FALSE)
        /\ ring' = Put(ring, c, lines) /\ todo' = Put(todo, c, Tail(todo[c]))
        /\ alone' = alone \intersect {c}
        /\ UNCHANGED <<world, running, gatherVars, prev, snap, older, batches, dipped, counters>>
    BY <1>7 DEF WriteNewline
  <2>2. /\ todo[c] \in Seq(Event) /\ todo \in [Consoles -> Seq(Event)]
        /\ file \in Seq(Event \union {NL}) /\ half \in [Consoles -> BOOLEAN]
        /\ ring \in [Consoles -> Seq(Seq(Event \union {NL}))]
        /\ ring[c] \in Seq(Seq(Event \union {NL}))
    BY DEF VariableTypes
  <2>3. todo[c] # <<>> /\ c \in running
    BY <2>1 DEF ConsoleLimits
  <2>4. Head(todo[c]) \in Event /\ Tail(todo[c]) \in Seq(Event)
    BY <2>2, <2>3
  <2>5. lines \in Seq(Seq(Event \union {NL})) /\ Len(lines) <= Capacity
    <3> DEFINE longer == Append(ring[c], <<Head(todo[c])>>)
    <3>1. <<Head(todo[c])>> \in Seq(Event \union {NL})
      BY <2>4
    <3>2. longer \in Seq(Seq(Event \union {NL}))
      BY <2>2, <3>1
    <3> HIDE DEF longer
    <3>3. Len(longer) \in Nat
      BY <3>2
    <3>4. /\ LastN(longer, Capacity) \in Seq(Seq(Event \union {NL}))
          /\ Len(LastN(longer, Capacity)) = IF Len(longer) <= Capacity THEN Len(longer) ELSE Capacity
      BY <1>c, <3>2, LastNType
    <3>5. Len(LastN(longer, Capacity)) <= Capacity
      BY <1>c, <3>3, <3>4
    <3> QED BY <3>4, <3>5 DEF longer
  <2> HIDE DEF lines
  <2>6. file' \in Seq(Event \union {NL})
    BY <2>1, <2>2
  <2>7. /\ half' \in [Consoles -> BOOLEAN] /\ half'[c] = FALSE
        /\ \A d \in Consoles \ {c} : half'[d] = half[d]
    <3>1. /\ Put(half, c, FALSE) \in [Consoles -> BOOLEAN] /\ Put(half, c, FALSE)[c] = FALSE
          /\ \A d \in Consoles \ {c} : Put(half, c, FALSE)[d] = half[d]
      BY <2>2, HalfType
    <3> QED BY <2>1, <3>1
  <2>8. ring' \in [Consoles -> Seq(Seq(Event \union {NL}))] /\ ring'[c] = lines
        /\ \A d \in Consoles \ {c} : ring'[d] = ring[d]
    BY <2>1, <2>2, <2>5 DEF Put
  <2>9. todo' \in [Consoles -> Seq(Event)] /\ \A d \in Consoles \ {c} : todo'[d] = todo[d]
    BY <2>1, <2>2, <2>4 DEF Put
  <2>10. VariableTypes'
    BY <2>1, <2>6, <2>7, <2>8, <2>9 DEF VariableTypes, gatherVars, counters
  <2>11. ConsoleLimits' /\ GatherRoom'
    BY <2>1, <2>3, <2>5, <2>7, <2>8, <2>9 DEF ConsoleLimits, GatherRoom, gatherVars, counters
  <2> QED BY <2>10, <2>11
<1>8. ASSUME NEW c \in Consoles, Ends(c)
      PROVE  VariableTypes' /\ ConsoleLimits' /\ GatherRoom'
  <2>1. /\ c \in running /\ running' = running \ {c}
        /\ active' = Put(active, c, None) /\ cache' = Put(cache, c, None)
        /\ chan' = Put(chan, c, <<>>)
        /\ prev' = Put(prev, c, None) /\ snap' = Put(snap, c, None)
        /\ ring' = Put(ring, c, <<>>) /\ todo' = Put(todo, c, <<>>)
        /\ half' = Put(half, c, FALSE) /\ alone' = alone \ {c}
        /\ older' = Put(older, c, <<>>) /\ batches' = Put(batches, c, <<{}, {}>>)
        /\ ends' = ends + 1 /\ UNCHANGED <<world, file, dipped, changes>>
    BY <1>8 DEF Ends
  <2>2. /\ active' \in [Consoles -> [frr : BOOLEAN, ifaces : {w.ifaces : w \in Worlds}] \union {None}]
        /\ active'[c] = None /\ \A d \in Consoles \ {c} : active'[d] = active[d]
    BY <2>1 DEF VariableTypes, Put
  <2>3. cache' \in [Consoles -> {w.bootc : w \in Worlds} \union {None}]
    BY <2>1 DEF VariableTypes, Put
  <2>4. /\ chan' \in [Consoles -> Seq(Snapshot)] /\ chan'[c] = <<>>
        /\ \A d \in Consoles \ {c} : chan'[d] = chan[d]
    BY <2>1 DEF VariableTypes, Put
  <2>5. /\ prev' \in [Consoles -> Snapshot \union {None}] /\ prev'[c] = None
        /\ \A d \in Consoles \ {c} : prev'[d] = prev[d]
    BY <2>1 DEF VariableTypes, Put
  <2>6. /\ snap' \in [Consoles -> Snapshot \union {None}] /\ snap'[c] = None
        /\ \A d \in Consoles \ {c} : snap'[d] = snap[d]
    BY <2>1 DEF VariableTypes, Put
  <2>7. /\ ring' \in [Consoles -> Seq(Seq(Event \union {NL}))] /\ ring'[c] = <<>>
        /\ \A d \in Consoles \ {c} : ring'[d] = ring[d]
    BY <2>1 DEF VariableTypes, Put
  <2>8. /\ todo' \in [Consoles -> Seq(Event)] /\ todo'[c] = <<>>
        /\ \A d \in Consoles \ {c} : todo'[d] = todo[d]
    BY <2>1 DEF VariableTypes, Put
  <2>9. /\ half' \in [Consoles -> BOOLEAN] /\ half'[c] = FALSE
        /\ \A d \in Consoles \ {c} : half'[d] = half[d]
    <3>1. half \in [Consoles -> BOOLEAN]
      BY DEF VariableTypes
    <3>2. /\ Put(half, c, FALSE) \in [Consoles -> BOOLEAN] /\ Put(half, c, FALSE)[c] = FALSE
          /\ \A d \in Consoles \ {c} : Put(half, c, FALSE)[d] = half[d]
      BY <3>1, HalfType
    <3> QED BY <2>1, <3>2
  <2>10. /\ older' \in [Consoles -> Seq(Snapshot \union {None})] /\ older'[c] = <<>>
         /\ \A d \in Consoles \ {c} : older'[d] = older[d]
    BY <2>1 DEF VariableTypes, Put
  <2>11. batches' \in [Consoles -> (SUBSET Event) \X (SUBSET Event)]
    BY <2>1 DEF VariableTypes, Put
  <2>a. {changes', ends'} \subseteq Nat
    <3>1. changes \in Nat /\ ends \in Nat
      BY DEF VariableTypes
    <3> QED BY <2>1, <3>1
  <2>12. VariableTypes'
    BY <2>a, <2>1, <2>2, <2>3, <2>4, <2>5, <2>6, <2>7, <2>8, <2>9, <2>10, <2>11 DEF VariableTypes
  <2>13. Len(chan'[c]) = 0 /\ Len(ring'[c]) = 0 /\ Len(older'[c]) = 0
    BY <2>4, <2>7, <2>10
  <2>14. ConsoleLimits'
    <3> SUFFICES ASSUME NEW d \in Consoles
                 PROVE  /\ Len(chan'[d]) <= MaxQueue /\ Len(ring'[d]) <= Capacity
                        /\ Len(older'[d]) <= 2 /\ (half'[d] => todo'[d] # <<>>)
                        /\ d \notin running' =>
                              chan'[d] = <<>> /\ snap'[d] = None /\ todo'[d] = <<>>
                        /\ snap'[d] = None => prev'[d] = None
      BY DEF ConsoleLimits
    <3>1. CASE d = c
      BY <1>c, <2>4, <2>5, <2>6, <2>8, <2>9, <2>13, <3>1
    <3>2. CASE d # c
      BY <2>1, <2>4, <2>5, <2>6, <2>7, <2>8, <2>9, <2>10, <3>2 DEF ConsoleLimits
    <3> QED BY <3>1, <3>2
  <2>15. GatherRoom'
    BY <2>1, <2>2, <2>4 DEF GatherRoom
  <2> QED BY <2>12, <2>14, <2>15
<1>9. CASE UNCHANGED vars
  BY <1>9 DEF vars, VariableTypes, ConsoleLimits, GatherRoom, gatherVars, uiVars, history, counters
<1>10. ASSUME NEW c \in Consoles, Login(c) \/ Killed(c)
       PROVE  VariableTypes' /\ ConsoleLimits' /\ GatherRoom'
  <2>1. Ends(c)
    BY <1>10 DEF Login, Killed
  <2> QED BY <1>8, <2>1
<1>11. CASE \E c \in Consoles : Step(c) \/ Login(c) \/ Killed(c)
  BY <1>2, <1>3, <1>4, <1>5, <1>6, <1>7, <1>10, <1>11 DEF Step
<1> QED BY <1>1, <1>9, <1>11 DEF Next

\* The types, the limits of the ring and the channel, and what a console
\* without a dashboard has left (events.rs:79-92, main.rs:166-238), for any number
\* of consoles, any router and any limits.
THEOREM TypeCorrect == Spec => []TypeOK
<1>1. TypeInv => TypeOK
  BY TypeOKParts DEF TypeInv
<1> QED BY <1>1, InitTypeInv, NextTypeInv, PTL DEF Spec

-----------------------------------------------------------------------------
(***************************************************************************)
(* What a dashboard knows                                                  *)
(***************************************************************************)
\* The snapshots it has, received or not.
Snapshots(c) == ToSet(chan[c]) \cup {prev[c], snap[c]}

\* The one a gather completes.
Gathered(c) ==
    LET frr == FrrPart(active[c].frr)
    IN  [ifaces |-> active[c].ifaces, frr |-> active[c].frr,
         peers |-> frr.peers, bfd |-> frr.bfd,
         daemons |-> frr.daemons, errors |-> frr.errors,
         units |-> world.units, bootc |-> cache[c]]

LEMMA ToSetOf ==
    ASSUME NEW S, NEW s \in Seq(S)
    PROVE  /\ \A e \in S : ToSet(Append(s, e)) \subseteq ToSet(s) \cup {e}
           /\ s # <<>> => Head(s) \in ToSet(s) /\ ToSet(Tail(s)) \subseteq ToSet(s)
<1>1. \A e \in S : ToSet(Append(s, e)) \subseteq ToSet(s) \cup {e}
  <2> TAKE e \in S
  <2>1. DOMAIN Append(s, e) = 1 .. Len(s) + 1 /\ DOMAIN s = 1 .. Len(s) /\ Len(s) \in Nat
    OBVIOUS
  <2>2. \A i \in 1 .. Len(s) + 1 : Append(s, e)[i] = e \/ (i \in 1 .. Len(s) /\ Append(s, e)[i] = s[i])
    OBVIOUS
  <2> QED BY <2>1, <2>2 DEF ToSet
<1>2. ASSUME s # <<>> PROVE Head(s) \in ToSet(s) /\ ToSet(Tail(s)) \subseteq ToSet(s)
  <2>1. /\ DOMAIN s = 1 .. Len(s) /\ Len(s) \in Nat \ {0} /\ Head(s) = s[1]
        /\ DOMAIN Tail(s) = 1 .. Len(s) - 1
        /\ \A i \in 1 .. Len(s) - 1 : Tail(s)[i] = s[i + 1]
    BY <1>2
  <2>2. \A i \in 1 .. Len(s) - 1 : i + 1 \in 1 .. Len(s)
    BY <2>1
  <2> QED BY <2>1, <2>2 DEF ToSet
<1> QED BY <1>1, <1>2

\* A snapshot comes from a gather that is completed, and from nowhere else.
LEMMA SnapshotsComeFromGathers ==
    ASSUME TypeInv, [Next]_vars, NEW c \in Consoles, NEW s \in Snapshots(c)', s # None
    PROVE  s \in Snapshots(c) \/ (s = Gathered(c) /\ active[c] # None)
<1>a. chan \in [Consoles -> Seq(Snapshot)] /\ TypeOK
  BY TypeOKParts DEF TypeInv, VariableTypes
<1>b. prev \in [Consoles -> Snapshot \union {None}] /\ snap \in [Consoles -> Snapshot \union {None}]
  BY DEF TypeInv, VariableTypes
<1>1. CASE UNCHANGED <<chan, prev, snap>>
  BY <1>1 DEF Snapshots
<1>2. ASSUME NEW d \in Consoles, GatherRest(d)
      PROVE  s \in Snapshots(c) \/ (s = Gathered(c) /\ active[c] # None)
  <2>1. /\ chan' = [chan EXCEPT ![d] = Append(chan[d], Gathered(d))]
        /\ prev' = prev /\ snap' = snap /\ active[d] # None
    BY <1>2 DEF GatherRest, Gathered, Put, uiVars
  <2>2. Gathered(d) \in Snapshot
    BY <1>a, <2>1, GatheredType DEF Gathered
  <2>3. ToSet(Append(chan[d], Gathered(d))) \subseteq ToSet(chan[d]) \cup {Gathered(d)}
    BY <1>a, <2>2, ToSetOf
  <2>4. CASE c = d
    <3>1. chan'[c] = Append(chan[d], Gathered(d))
      BY <1>a, <2>1, <2>4
    <3> QED BY <2>1, <2>3, <2>4, <3>1 DEF Snapshots
  <2>5. CASE c # d
    BY <1>a, <2>1, <2>5 DEF Snapshots
  <2> QED BY <2>4, <2>5
<1>3. ASSUME NEW d \in Consoles, Receive(d) PROVE s \in Snapshots(c)
  <2>1. /\ chan' = [chan EXCEPT ![d] = Tail(chan[d])] /\ chan[d] # <<>>
        /\ prev' = [prev EXCEPT ![d] = snap[d]] /\ snap' = [snap EXCEPT ![d] = Head(chan[d])]
    BY <1>3 DEF Receive, Put
  <2>2. Head(chan[d]) \in ToSet(chan[d]) /\ ToSet(Tail(chan[d])) \subseteq ToSet(chan[d])
    BY <1>a, <2>1, ToSetOf
  <2>3. CASE c = d
    <3>1. chan'[c] = Tail(chan[d]) /\ prev'[c] = snap[d] /\ snap'[c] = Head(chan[d])
      BY <1>a, <1>b, <2>1, <2>3
    <3> QED BY <2>2, <2>3, <3>1 DEF Snapshots
  <2>4. CASE c # d
    BY <1>a, <1>b, <2>1, <2>4 DEF Snapshots
  <2> QED BY <2>3, <2>4
<1>4. ASSUME NEW d \in Consoles, Ends(d) PROVE s \in Snapshots(c)
  <2>1. /\ chan' = [chan EXCEPT ![d] = <<>>]
        /\ prev' = [prev EXCEPT ![d] = None] /\ snap' = [snap EXCEPT ![d] = None]
    BY <1>4 DEF Ends, Put
  <2>2. CASE c = d
    <3>1. chan'[c] = <<>> /\ prev'[c] = None /\ snap'[c] = None
      BY <1>a, <1>b, <2>1, <2>2
    <3>2. ToSet(<<>>) = {}
      BY DEF ToSet
    <3>3. Snapshots(c)' = {None}
      BY <3>1, <3>2 DEF Snapshots
    <3> QED BY <3>3
  <2>3. CASE c # d
    BY <1>a, <1>b, <2>1, <2>3 DEF Snapshots
  <2> QED BY <2>2, <2>3
<1>5. \A d \in Consoles : Launch(d) \/ GatherFirst(d) \/ WriteText(d) \/ WriteNewline(d) =>
          UNCHANGED <<chan, prev, snap>>
  BY DEF Launch, GatherFirst, WriteText, WriteNewline, gatherVars, uiVars
<1>6. Change \/ UNCHANGED vars => UNCHANGED <<chan, prev, snap>>
  BY DEF Change, vars, gatherVars, uiVars
<1> QED BY <1>1, <1>2, <1>3, <1>4, <1>5, <1>6 DEF Next, Step, Login, Killed

-----------------------------------------------------------------------------
(***************************************************************************)
(* No peer outage is invented                                              *)
(***************************************************************************)
\* Every peer that is down in a snapshot, or reported down, has been down.
DownsDipped ==
    /\ DownIn(world) \subseteq dipped
    /\ \A c \in Consoles : \A s \in Snapshots(c) \ {None} : \A p \in Peers :
          s.peers[p] \in {None, "Established"} \/ p \in dipped
    /\ PeerDownIsReal

LEMMA DownEvents ==
    ASSUME NEW o, NEW n, NEW p, <<"bgp", p, "wentDown">> \in Diff(o, n)
    PROVE  n.peers[p] \notin {None, "Established"}
BY DEF Diff, InterfaceEvents, ServiceEvents, BgpEvents, BfdEvents, UnitEvents, ErrorEvents,
   BootcEvents, Known, New, Both

LEMMA GatheredDowns ==
    ASSUME TypeOK, DownIn(world) \subseteq dipped, NEW c \in Consoles, NEW p \in Peers
    PROVE  Gathered(c).peers[p] \in {None, "Established"} \/ p \in dipped
<1>1. Gathered(c).peers = FrrPart(active[c].frr).peers
  BY DEF Gathered
<1>2. CASE Gathered(c).peers = NoPeers
  BY <1>2 DEF NoPeers
<1>3. CASE Gathered(c).peers = world.peers /\ world.frr
  BY <1>3, ConstantsAssumption DEF DownIn, Known, TypeOK
<1> QED BY <1>1, <1>2, <1>3 DEF FrrPart, Listening

LEMMA NextDownsDipped == TypeInv /\ DownsDipped /\ [Next]_vars => DownsDipped'
<1> SUFFICES ASSUME TypeInv, DownsDipped, [Next]_vars
             PROVE  DownsDipped'
  OBVIOUS
<1>a. TypeOK
  BY TypeOKParts DEF TypeInv
<1>b. batches \in [Consoles -> (SUBSET Event) \X (SUBSET Event)]
  BY DEF TypeInv, VariableTypes
<1>1. dipped \subseteq dipped'
  BY DEF Next, Step, Change, Launch, GatherFirst, GatherRest, Receive, WriteText, WriteNewline,
     Login, Killed, Ends, vars, history
<1>2. DownIn(world') \subseteq dipped'
  <2>1. CASE Change
    BY <2>1 DEF Change, DownsDipped
  <2>2. CASE UNCHANGED <<world, dipped>>
    BY <2>2 DEF DownsDipped
  <2> QED BY <2>1, <2>2 DEF Next, Step, Launch, GatherFirst, GatherRest, Receive, WriteText,
          WriteNewline, Login, Killed, Ends, vars, history
<1>3. ASSUME NEW c \in Consoles, NEW s \in Snapshots(c)' \ {None}, NEW p \in Peers
      PROVE  s.peers[p] \in {None, "Established"} \/ p \in dipped'
  <2>1. s \in Snapshots(c) \/ s = Gathered(c)
    BY <1>3, SnapshotsComeFromGathers
  <2> QED BY <1>a, <1>1, <1>3, <2>1, GatheredDowns DEF DownsDipped
<1>4. ASSUME NEW c \in Consoles, NEW p \in Peers,
             <<"bgp", p, "wentDown">> \in batches'[c][1] \union batches'[c][2]
      PROVE  p \in dipped'
  <2>1. CASE batches'[c] = batches[c]
    BY <1>1, <1>4, <2>1 DEF DownsDipped, PeerDownIsReal
  <2>2. CASE batches'[c] = <<{}, {}>>
    BY <1>4, <2>2
  <2>3. CASE Receive(c)
    <3>1. /\ batches'[c] = <<batches[c][2], Diff(prev[c], Head(chan[c]))>>
          /\ snap'[c] = Head(chan[c])
      BY <1>b, <2>3 DEF Receive, Put, TypeInv, VariableTypes
    <3>2. CASE <<"bgp", p, "wentDown">> \in batches[c][2]
      BY <1>1, <3>2 DEF DownsDipped, PeerDownIsReal
    <3>3. CASE <<"bgp", p, "wentDown">> \in Diff(prev[c], Head(chan[c]))
      <4>1. Head(chan[c]).peers[p] \notin {None, "Established"}
        BY <3>3, DownEvents
      <4>2. Head(chan[c]) \in Snapshot
        BY <1>a, <2>3, ReceivedTypes
      <4>3. snap'[c] \in Snapshots(c)' \ {None}
        BY <3>1, <4>2, ConstantsAssumption DEF Snapshots
      <4> QED BY <1>3, <3>1, <4>1, <4>3
    <3> QED BY <1>4, <3>1, <3>2, <3>3
  <2>4. \A d \in Consoles : Receive(d) \/ Ends(d) =>
           d = c \/ batches'[c] = batches[c]
    BY <1>b DEF Receive, Ends, Put
  <2>5. \A d \in Consoles : Ends(d) /\ d = c => batches'[c] = <<{}, {}>>
    BY <1>b DEF Ends, Put
  <2>6. Change \/ UNCHANGED vars => batches'[c] = batches[c]
    BY DEF Change, vars, history
  <2>7. \A d \in Consoles : Launch(d) \/ GatherFirst(d) \/ GatherRest(d) \/ WriteText(d)
                                \/ WriteNewline(d) => batches'[c] = batches[c]
    BY DEF Launch, GatherFirst, GatherRest, WriteText, WriteNewline, history
  <2> QED BY <2>1, <2>2, <2>3, <2>4, <2>5, <2>6, <2>7 DEF Next, Step, Login, Killed
<1> QED BY <1>2, <1>3, <1>4 DEF DownsDipped, PeerDownIsReal

\* A BGP "went DOWN" is only ever recorded for a peer that was once down
\* while FRR ran (events.rs:153-195), whatever a gather saw half of and for
\* any number of peers, dashboards and router states.
THEOREM NoOutageInvented == Spec => []PeerDownIsReal
<1>1. Init => DownsDipped
  <2> SUFFICES ASSUME Init PROVE DownsDipped
    OBVIOUS
  <2>1. \A c \in Consoles : Snapshots(c) = {None}
    <3>1. ToSet(<<>>) = {}
      BY DEF ToSet
    <3> QED BY <3>1 DEF Init, Snapshots
  <2> QED BY <2>1 DEF Init, DownsDipped, PeerDownIsReal
<1>2. DownsDipped => PeerDownIsReal
  BY DEF DownsDipped
<1> QED BY <1>1, <1>2, InitTypeInv, NextTypeInv, NextDownsDipped, PTL DEF Spec

-----------------------------------------------------------------------------
(***************************************************************************)
(* What lasts is logged.  A receipt compares with the snapshot before the  *)
(* last one, so of four consecutive snapshots the first is compared with   *)
(* the third and the second with the fourth.                               *)
(***************************************************************************)
BatchesAreDiffs ==
    \A c \in Consoles :
        /\ older[c] # <<>> => batches[c][2] = Diff(older[c][Len(older[c])], snap[c])
        /\ Len(older[c]) = 2 => batches[c][1] = Diff(older[c][1], prev[c])

\* The last two of a longer list.
LEMMA LastTwo ==
    ASSUME NEW S, NEW s \in Seq(S), Len(s) <= 2, NEW e \in S
    PROVE  LET l == LastN(Append(s, e), 2)
           IN  /\ l # <<>> /\ l[Len(l)] = e
               /\ Len(l) = 2 => s # <<>> /\ l[1] = s[Len(s)]
<1> DEFINE a == Append(s, e)
<1>1. /\ a \in Seq(S) /\ Len(a) = Len(s) + 1 /\ Len(s) \in 0 .. 2 /\ a[Len(s) + 1] = e
      /\ \A i \in 1 .. Len(s) : a[i] = s[i]
  <2>1. Len(s) \in Nat
    OBVIOUS
  <2>2. Len(s) \in 0 .. 2
    BY <2>1
  <2>3. a \in Seq(S) /\ Len(a) = Len(s) + 1 /\ a[Len(s) + 1] = e
    OBVIOUS
  <2>4. \A i \in 1 .. Len(s) : a[i] = s[i]
    OBVIOUS
  <2> QED BY <2>2, <2>3, <2>4
<1>0. a \in Seq(S) /\ 2 \in Nat
  BY <1>1
<1> HIDE DEF a
<1> DEFINE l == LastN(a, 2)
<1>2. l \in Seq(S)
  BY <1>0, LastNType
<1>3. Len(l) = IF Len(a) <= 2 THEN Len(a) ELSE 2
  BY <1>0, LastNType
<1>4. \A i \in 1 .. Len(l) : l[i] = a[Len(a) - Len(l) + i]
  BY <1>0, LastNType
<1> HIDE DEF l
<1>5. Len(l) \in 1 .. 2 /\ Len(l) <= Len(a)
  BY <1>1, <1>3
<1>6. l # <<>>
  <2>1. Len(<<>>) = 0
    OBVIOUS
  <2>2. ~ (0 \in 1 .. 2)
    OBVIOUS
  <2> QED BY <1>5, <2>1, <2>2
<1>7. l[Len(l)] = e
  <2>1. l[Len(l)] = a[Len(a) - Len(l) + Len(l)]
    <3>1. Len(l) \in 1 .. Len(l)
      <4>1. \A m \in 1 .. 2 : m \in 1 .. m
        OBVIOUS
      <4>2. Len(l) \in 1 .. 2
        BY <1>5
      <4> QED BY <4>1, <4>2
    <3> QED BY <1>4, <3>1
  <2>2. Len(a) - Len(l) + Len(l) = Len(s) + 1
    BY <1>1, <1>5
  <2> QED BY <1>1, <2>1, <2>2
<1>8. ASSUME Len(l) = 2 PROVE s # <<>> /\ l[1] = s[Len(s)]
  <2>1. Len(s) \in 1 .. 2 /\ Len(a) - Len(l) + 1 = Len(s)
    BY <1>1, <1>3, <1>8
  <2>2. l[1] = a[Len(a) - Len(l) + 1]
    BY <1>4, <1>8
  <2>3. s # <<>>
    <3>1. Len(<<>>) = 0
      OBVIOUS
    <3>2. ~ (0 \in 1 .. 2)
      OBVIOUS
    <3> QED BY <2>1, <3>1, <3>2
  <2>4. a[Len(s)] = s[Len(s)]
    BY <1>1, <2>1
  <2> QED BY <2>1, <2>2, <2>3, <2>4
<1> QED BY <1>6, <1>7, <1>8 DEF l, a

LEMMA NextBatchesAreDiffs == TypeInv /\ BatchesAreDiffs /\ [Next]_vars => BatchesAreDiffs'
<1> SUFFICES ASSUME TypeInv, BatchesAreDiffs, [Next]_vars, NEW c \in Consoles
             PROVE  /\ older'[c] # <<>> =>
                          batches'[c][2] = Diff(older'[c][Len(older'[c])], snap'[c])
                    /\ Len(older'[c]) = 2 => batches'[c][1] = Diff(older'[c][1], prev'[c])
  BY DEF BatchesAreDiffs
<1>a. TypeOK
  BY TypeOKParts DEF TypeInv
<1>b. /\ batches \in [Consoles -> (SUBSET Event) \X (SUBSET Event)]
      /\ older \in [Consoles -> Seq(Snapshot \union {None})]
      /\ prev \in [Consoles -> Snapshot \union {None}]
      /\ snap \in [Consoles -> Snapshot \union {None}]
      /\ Len(older[c]) <= 2
  BY DEF TypeInv, VariableTypes, ConsoleLimits
<1>1. CASE Receive(c)
  <2> DEFINE past == LastN(Append(older[c], prev[c]), 2)
  <2>1. /\ batches'[c] = <<batches[c][2], Diff(prev[c], Head(chan[c]))>>
        /\ snap'[c] = Head(chan[c]) /\ prev'[c] = snap[c] /\ older'[c] = past
    BY <1>1, <1>b DEF Receive, Put
  <2>2. /\ past # <<>> /\ past[Len(past)] = prev[c]
        /\ Len(past) = 2 => older[c] # <<>> /\ past[1] = older[c][Len(older[c])]
    BY <1>b, LastTwo
  <2> HIDE DEF past
  <2> QED BY <2>1, <2>2 DEF BatchesAreDiffs
<1>2. CASE Ends(c)
  <2>1. older'[c] = <<>>
    BY <1>2, <1>b DEF Ends, Put
  <2> QED BY <2>1
<1>3. CASE UNCHANGED <<batches[c], older[c], prev[c], snap[c]>>
  BY <1>3 DEF BatchesAreDiffs
<1>4. ASSUME NEW d \in Consoles, d # c, Receive(d) \/ Ends(d)
      PROVE  UNCHANGED <<batches[c], older[c], prev[c], snap[c]>>
  BY <1>4, <1>b DEF Receive, Ends, Put
<1>5. ASSUME NEW d \in Consoles,
             Launch(d) \/ GatherFirst(d) \/ GatherRest(d) \/ WriteText(d) \/ WriteNewline(d)
      PROVE  UNCHANGED <<batches[c], older[c], prev[c], snap[c]>>
  BY <1>5 DEF Launch, GatherFirst, GatherRest, WriteText, WriteNewline, history, uiVars
<1>6. Change \/ UNCHANGED vars => UNCHANGED <<batches[c], older[c], prev[c], snap[c]>>
  BY DEF Change, vars, history, uiVars
<1> QED BY <1>1, <1>2, <1>3, <1>4, <1>5, <1>6 DEF Next, Step, Login, Killed

LEMMA BatchesAlwaysDiffs == Spec => []BatchesAreDiffs
<1>1. Init => BatchesAreDiffs
  BY DEF Init, BatchesAreDiffs
<1> QED BY <1>1, InitTypeInv, NextTypeInv, NextBatchesAreDiffs, PTL DEF Spec

\* A session lost for two snapshots after two in which it was up is reported
\* by the time the fourth is received (main.rs:219-238, events.rs:160-195), although
\* no two consecutive snapshots are ever compared: for any number of peers,
\* dashboards and router states.
THEOREM LostSessionsLogged == Spec => []OutagesLogged
<1>1. TypeInv /\ BatchesAreDiffs => OutagesLogged
  <2> SUFFICES ASSUME TypeInv, BatchesAreDiffs, NEW c \in Consoles, NEW p \in Peers, Outage(c, p)
               PROVE  <<"bgp", p, "wentDown">> \in batches[c][1] \union batches[c][2]
    BY DEF OutagesLogged
  <2>1. Up(older[c][2], p) /\ Down(snap[c], p) /\ batches[c][2] = Diff(older[c][2], snap[c])
    BY DEF Outage, BatchesAreDiffs
  <2>2. older[c][2] \in Snapshot /\ snap[c] \in Snapshot
    <3>1. /\ older[c] \in Seq(Snapshot \union {None}) /\ Len(older[c]) = 2
          /\ snap[c] \in Snapshot \union {None}
      BY DEF TypeInv, VariableTypes, Outage
    <3> QED BY <2>1, <3>1 DEF Up, Down
  <2>3. p \in DOMAIN older[c][2].peers /\ p \in DOMAIN snap[c].peers
    BY <2>2, ConstantsAssumption DEF Snapshot, NoPeers
  <2>4. <<"bgp", p, "wentDown">> \in BgpEvents(older[c][2].peers, snap[c].peers)
    <3> DEFINE o == older[c][2].peers
               n == snap[c].peers
               lost == {q \in {r \in Both(o, n) : o[r] # n[r]} : n[q] # "Established"}
    <3>1. o[p] = "Established" /\ n[p] \notin {"Established", None}
      BY <2>1 DEF Up, Down
    <3>2. o[p] # None
      BY ConstantsAssumption, <3>1
    <3>3. p \in lost
      BY <2>3, <3>1, <3>2 DEF Known, Both
    <3>4. {<<"bgp", q, "wentDown">> : q \in lost} \subseteq BgpEvents(o, n)
      BY DEF BgpEvents
    <3> HIDE DEF lost, o, n
    <3>5. <<"bgp", p, "wentDown">> \in BgpEvents(o, n)
      BY <3>3, <3>4
    <3> QED BY <3>5 DEF o, n
  <2> QED BY <2>1, <2>2, <2>4, ConstantsAssumption DEF Diff, Up, Down
<1> QED BY <1>1, InitTypeInv, NextTypeInv, BatchesAlwaysDiffs, PTL DEF Spec

-----------------------------------------------------------------------------
(***************************************************************************)
(* Losing sight of bgpd is logged                                          *)
(***************************************************************************)
\* No peer is ever unconfigured.
PeersStay == \A w \in Worlds : \A p \in Peers : w.peers[p] # None

\* Seen peers come without an error of bgpd; missing ones, with bgpd among
\* the daemons, come with one.
SeenOrExcused(s, p) ==
    /\ s.peers[p] # None => "bgpd" \notin s.errors
    /\ s.peers[p] = None /\ "bgpd" \in s.daemons => "bgpd" \in s.errors

BlindSays ==
    \A c \in Consoles : \A p \in Peers :
        /\ \A s \in Snapshots(c) \ {None} : SeenOrExcused(s, p)
        /\ older[c] # <<>> /\ older[c][Len(older[c])] # None =>
              SeenOrExcused(older[c][Len(older[c])], p)

LEMMA GatheredExcuses ==
    ASSUME PeersStay, TypeOK, NEW c \in Consoles, active[c] # None, NEW p \in Peers
    PROVE  SeenOrExcused(Gathered(c), p)
<1> DEFINE was == active[c].frr
<1>1. /\ Gathered(c).peers = FrrPart(was).peers /\ Gathered(c).errors = FrrPart(was).errors
      /\ Gathered(c).daemons = FrrPart(was).daemons
  BY DEF Gathered
<1>2. NoPeers[p] = None /\ world.peers[p] # None
  BY DEF NoPeers, PeersStay, TypeOK
<1>3. FrrPart(was).daemons = Listening(was)
  BY DEF FrrPart
<1>4. CASE "bgpd" \notin Listening(was)
  <2>1. FrrPart(was).peers = NoPeers
    BY <1>4 DEF FrrPart
  <2> QED BY <1>1, <1>2, <1>3, <1>4, <2>1 DEF SeenOrExcused
<1>5. CASE "bgpd" \in Listening(was) /\ "bgpd" \in world.vty
  <2>1. FrrPart(was).peers = NoPeers /\ "bgpd" \in FrrPart(was).errors
    BY <1>5 DEF FrrPart, Listening
  <2> QED BY <1>1, <1>2, <2>1 DEF SeenOrExcused
<1>6. CASE "bgpd" \in Listening(was) /\ "bgpd" \notin world.vty
  <2>1. FrrPart(was).peers = world.peers /\ "bgpd" \notin FrrPart(was).errors
    BY <1>6 DEF FrrPart
  <2> QED BY <1>1, <1>2, <2>1 DEF SeenOrExcused
<1> QED BY <1>4, <1>5, <1>6

LEMMA OlderGrows ==
    ASSUME TypeInv, [Next]_vars, NEW c \in Consoles
    PROVE  \/ older'[c] = older[c] \/ older'[c] = <<>>
           \/ older'[c] # <<>> /\ older'[c][Len(older'[c])] = prev[c]
<1>1. /\ older \in [Consoles -> Seq(Snapshot \union {None})]
      /\ prev \in [Consoles -> Snapshot \union {None}]
      /\ Len(older[c]) <= 2
  BY DEF TypeInv, VariableTypes, ConsoleLimits
<1>2. CASE Receive(c)
  <2> DEFINE past == LastN(Append(older[c], prev[c]), 2)
  <2>1. older'[c] = past
    BY <1>1, <1>2 DEF Receive, Put
  <2>2. past # <<>> /\ past[Len(past)] = prev[c]
    BY <1>1, LastTwo
  <2> QED BY <2>1, <2>2
<1>3. CASE Ends(c)
  BY <1>1, <1>3 DEF Ends, Put
<1>4. ASSUME NEW d \in Consoles, d # c, Receive(d) \/ Ends(d) PROVE older'[c] = older[c]
  BY <1>1, <1>4 DEF Receive, Ends, Put
<1>5. ASSUME NEW d \in Consoles,
             Launch(d) \/ GatherFirst(d) \/ GatherRest(d) \/ WriteText(d) \/ WriteNewline(d)
      PROVE  older'[c] = older[c]
  BY <1>5 DEF Launch, GatherFirst, GatherRest, WriteText, WriteNewline, history
<1>6. Change \/ UNCHANGED vars => older'[c] = older[c]
  BY DEF Change, vars, history
<1> QED BY <1>2, <1>3, <1>4, <1>5, <1>6 DEF Next, Step, Login, Killed

LEMMA NextBlindSays ==
    ASSUME PeersStay
    PROVE  TypeInv /\ BlindSays /\ [Next]_vars => BlindSays'
<1> SUFFICES ASSUME TypeInv, BlindSays, [Next]_vars, NEW c \in Consoles, NEW p \in Peers
             PROVE  /\ \A s \in Snapshots(c)' \ {None} : SeenOrExcused(s, p)
                    /\ older'[c] # <<>> /\ older'[c][Len(older'[c])] # None =>
                          SeenOrExcused(older'[c][Len(older'[c])], p)
  BY DEF BlindSays
<1>1. ASSUME NEW s \in Snapshots(c)' \ {None} PROVE SeenOrExcused(s, p)
  <2>1. TypeOK
    BY TypeOKParts DEF TypeInv
  <2>2. s \in Snapshots(c) \/ (s = Gathered(c) /\ active[c] # None)
    BY SnapshotsComeFromGathers
  <2> QED BY <2>1, <2>2, GatheredExcuses DEF BlindSays
<1>2. \/ older'[c] = older[c] \/ older'[c] = <<>>
      \/ older'[c] # <<>> /\ older'[c][Len(older'[c])] = prev[c]
  BY OlderGrows
<1>3. prev[c] \in Snapshots(c)
  BY DEF Snapshots
<1> QED BY <1>1, <1>2, <1>3 DEF BlindSays

\* When peers that were up in two snapshots are invisible in the next two
\* although FRR runs with bgpd among its daemons, an event of that time says
\* that bgpd does not answer (events.rs:243-249).  The snapshot that shows the
\* peer has no error of bgpd, the one two later has one, and these two are
\* compared.  Any daemon may be gone or deaf in any world.
THEOREM BlindSpotsLogged ==
    ASSUME PeersStay
    PROVE  Spec => []BlindnessLogged
<1>1. Init => BlindSays
  <2> SUFFICES ASSUME Init, NEW c \in Consoles PROVE Snapshots(c) = {None} /\ older[c] = <<>>
    BY DEF BlindSays
  <2>1. ToSet(<<>>) = {}
    BY DEF ToSet
  <2> QED BY <2>1 DEF Init, Snapshots
<1>2. TypeInv /\ BlindSays /\ [Next]_vars => BlindSays'
  BY NextBlindSays
<1>3. TypeInv /\ BatchesAreDiffs /\ BlindSays => BlindnessLogged
  <2> SUFFICES ASSUME TypeInv, BatchesAreDiffs, BlindSays, NEW c \in Consoles, NEW p \in Peers,
                      Blinded(c, p)
               PROVE  <<"vty", "bgpd", "queryFailing">> \in batches[c][2]
    BY DEF BlindnessLogged
  <2> DEFINE before == older[c][2]
  <2>1. /\ Len(older[c]) = 2 /\ Up(before, p) /\ before # None
        /\ snap[c] # None /\ snap[c].frr /\ snap[c].peers[p] = None
        /\ "bgpd" \in snap[c].daemons
    BY DEF Blinded, Up
  <2>2. before.peers[p] # None /\ older[c] # <<>>
    <3>1. Len(<<>>) = 0
      OBVIOUS
    <3> QED BY <2>1, <3>1, ConstantsAssumption DEF Up
  <2>3. batches[c][2] = Diff(before, snap[c])
    BY <2>1, <2>2 DEF BatchesAreDiffs
  <2>4. "bgpd" \notin before.errors
    BY <2>1, <2>2 DEF BlindSays, SeenOrExcused
  <2>5. "bgpd" \in snap[c].errors
    BY <2>1 DEF BlindSays, SeenOrExcused, Snapshots
  <2>6. <<"vty", "bgpd", "queryFailing">> \in ErrorEvents(before.errors, snap[c].errors)
    BY <2>4, <2>5 DEF ErrorEvents
  <2> QED BY <2>1, <2>3, <2>6 DEF Diff
<1> QED BY <1>1, <1>2, <1>3, InitTypeInv, NextTypeInv, BatchesAlwaysDiffs, PTL DEF Spec

-----------------------------------------------------------------------------
(***************************************************************************)
(* The ring is the tail of the file                                        *)
(***************************************************************************)
\* Trimming before an append changes nothing.
LEMMA TrimTwice ==
    ASSUME NEW S, NEW s \in Seq(S), NEW x \in S, NEW n \in Nat \ {0}
    PROVE  LastN(Append(LastN(s, n), x), n) = LastN(Append(s, x), n)
<1> DEFINE t == LastN(s, n)
<1>0. n \in Nat
  OBVIOUS
<1>1. t \in Seq(S)
  BY <1>0, LastNType
<1>2. Len(t) = IF Len(s) <= n THEN Len(s) ELSE n
  BY <1>0, LastNType
<1>3. \A i \in 1 .. Len(t) : t[i] = s[Len(s) - Len(t) + i]
  BY <1>0, LastNType
<1> HIDE DEF t
<1> DEFINE a == Append(t, x)
           b == Append(s, x)
<1>4. a \in Seq(S) /\ Len(a) = Len(t) + 1 /\ a[Len(t) + 1] = x
      /\ \A i \in 1 .. Len(t) : a[i] = t[i]
  BY <1>1
<1>5. b \in Seq(S) /\ Len(b) = Len(s) + 1 /\ b[Len(s) + 1] = x
      /\ \A i \in 1 .. Len(s) : b[i] = s[i]
  OBVIOUS
<1>6. Len(s) \in Nat /\ Len(t) \in Nat
  BY <1>1
<1> HIDE DEF a, b
<1> DEFINE u == LastN(a, n)
           v == LastN(b, n)
<1>7. u \in Seq(S) /\ v \in Seq(S)
  BY <1>0, <1>4, <1>5, LastNType
<1>8. Len(u) = IF Len(a) <= n THEN Len(a) ELSE n
  BY <1>0, <1>4, LastNType
<1>9. Len(v) = IF Len(b) <= n THEN Len(b) ELSE n
  BY <1>0, <1>5, LastNType
<1>10. \A i \in 1 .. Len(u) : u[i] = a[Len(a) - Len(u) + i]
  BY <1>0, <1>4, LastNType
<1>11. \A i \in 1 .. Len(v) : v[i] = b[Len(b) - Len(v) + i]
  <2>1. b \in Seq(S) /\ n \in Nat
    BY <1>0, <1>5
  <2> QED BY <2>1, LastNType
<1> HIDE DEF u, v
<1>12. Len(u) = Len(v)
  BY <1>2, <1>4, <1>5, <1>6, <1>8, <1>9
<1>13. ASSUME NEW i \in 1 .. Len(u) PROVE u[i] = v[i]
  <2>1. i \in Nat /\ 1 <= i /\ i <= Len(u) /\ Len(u) \in Nat
    BY <1>7
  <2>2. u[i] = a[Len(a) - Len(u) + i] /\ v[i] = b[Len(b) - Len(u) + i]
    BY <1>10, <1>11, <1>12
  <2>3. CASE i = Len(u)
    <3>1. Len(a) - Len(u) + i = Len(t) + 1 /\ Len(b) - Len(u) + i = Len(s) + 1
      BY <1>4, <1>5, <1>6, <2>1, <2>3
    <3> QED BY <1>4, <1>5, <2>2, <3>1
  <2>4. CASE i # Len(u)
    <3> DEFINE j == Len(a) - Len(u) + i
               k == Len(b) - Len(u) + i
    <3>1. j \in 1 .. Len(t) /\ k \in 1 .. Len(s) /\ Len(s) - Len(t) + j = k
      <4>1. i \in 1 .. Len(u) - 1 /\ Len(u) \in Nat
        BY <2>1, <2>4
      <4>2. CASE Len(s) <= n /\ Len(s) + 1 <= n
        BY <1>2, <1>4, <1>5, <1>6, <1>8, <4>1, <4>2
      <4>3. CASE Len(s) <= n /\ ~ (Len(s) + 1 <= n)
        BY <1>2, <1>4, <1>5, <1>6, <1>8, <4>1, <4>3
      <4>4. CASE ~ (Len(s) <= n)
        <5>1. Len(t) = n /\ Len(u) = n /\ Len(a) = n + 1 /\ Len(b) = Len(s) + 1
          BY <1>2, <1>4, <1>5, <1>6, <1>8, <4>4
        <5>2. i \in 1 .. n - 1 /\ j = i + 1 /\ k = Len(s) - n + 1 + i
          BY <1>6, <4>1, <5>1
        <5> QED BY <1>6, <4>4, <5>1, <5>2
      <4> QED BY <1>6, <4>2, <4>3, <4>4
    <3> HIDE DEF j, k
    <3>2. a[j] = t[j] /\ t[j] = s[Len(s) - Len(t) + j] /\ b[k] = s[k]
      BY <1>3, <1>4, <1>5, <3>1
    <3> QED BY <2>2, <3>1, <3>2 DEF j, k
  <2> QED BY <2>3, <2>4
<1>14. u = v
  BY <1>7, <1>12, <1>13
<1> QED BY <1>14 DEF u, v, a, b, t

\* A position after all others is the last one.
LEMMA NthOfMore ==
    ASSUME NEW n \in Nat, NEW S \in SUBSET (1 .. n)
    PROVE  /\ Cardinality(S \cup {n + 1}) = Cardinality(S) + 1
           /\ \A m \in 1 .. Cardinality(S) : NthOf(S \cup {n + 1}, m) = NthOf(S, m)
           /\ NthOf(S \cup {n + 1}, Cardinality(S) + 1) = n + 1
<1> DEFINE T == S \cup {n + 1}
<1>0. \A k \in S : k \in Nat /\ 1 <= k /\ k <= n /\ k # n + 1 /\ ~ (n + 1 <= k)
  OBVIOUS
<1>1. IsFiniteSet(S) /\ Cardinality(S) \in Nat /\ n + 1 \notin S
  BY <1>0, UpToFinite
<1>2. Cardinality(T) = Cardinality(S) + 1
  BY <1>1, FS_AddElement
<1>3. \A j \in S : UpTo(T, j) = UpTo(S, j)
  BY <1>0 DEF UpTo
<1>4. UpTo(T, n + 1) = T
  <2>1. \A k \in T : k <= n + 1
    BY <1>0
  <2> QED BY <2>1 DEF UpTo
<1>5. \A j \in S : Cardinality(UpTo(S, j)) \in Nat /\ Cardinality(UpTo(S, j)) <= Cardinality(S)
  <2> TAKE j \in S
  <2>1. UpTo(S, j) \in SUBSET S
    BY DEF UpTo
  <2>2. Cardinality(UpTo(S, j)) \in Nat
    BY UpToFinite
  <2> QED BY <1>1, <2>1, <2>2, FS_Subset
<1> DEFINE At(R, m) == {j \in R : Cardinality(UpTo(R, j)) = m}
<1>6. \A R, m : NthOf(R, m) = CHOOSE i \in At(R, m) : TRUE
  BY DEF NthOf, UpTo
<1>7. ASSUME NEW m \in 1 .. Cardinality(S) PROVE At(T, m) = At(S, m)
  <2>1. m # Cardinality(S) + 1
    BY <1>1
  <2>2. Cardinality(UpTo(T, n + 1)) # m
    BY <1>2, <1>4, <2>1
  <2> QED BY <1>3, <2>2
<1>8. At(T, Cardinality(S) + 1) = {n + 1}
  <2>1. \A j \in S : Cardinality(UpTo(T, j)) # Cardinality(S) + 1
    BY <1>1, <1>3, <1>5
  <2>2. Cardinality(UpTo(T, n + 1)) = Cardinality(S) + 1
    BY <1>2, <1>4
  <2> QED BY <2>1, <2>2
<1> HIDE DEF At, T
<1>9. \A m \in 1 .. Cardinality(S) : NthOf(T, m) = NthOf(S, m)
  BY <1>6, <1>7
<1>10. NthOf(T, Cardinality(S) + 1) = n + 1
  BY <1>6, <1>8
<1> QED BY <1>2, <1>9, <1>10 DEF T

\* A whole line more.
LEMMA LinesGrow ==
    ASSUME NEW S, NEW f \in Seq(S), NEW e \in S, NL \in S, e # NL, Whole(f)
    PROVE  Lines(Append(Append(f, e), NL)) = Append(Lines(f), <<e>>)
<1> DEFINE g == Append(Append(f, e), NL)
           n == Len(f)
<1>1. n \in Nat /\ (n # 0 => f[n] = NL)
  <2>1. n = 0 <=> f = <<>>
    OBVIOUS
  <2> QED BY <2>1 DEF Whole, Last
<1>2. /\ g \in Seq(S) /\ Len(g) = n + 2 /\ g[n + 1] = e /\ g[n + 2] = NL
  OBVIOUS
<1>3. \A i \in 1 .. n : g[i] = f[i]
  <2> TAKE i \in 1 .. n
  <2>1. Append(f, e)[i] = f[i] /\ Len(Append(f, e)) = n + 1 /\ Append(f, e) \in Seq(S)
    OBVIOUS
  <2>2. i \in 1 .. n + 1
    BY <1>1
  <2> QED BY <2>1, <2>2
<1>4. DOMAIN f = 1 .. n /\ DOMAIN g = 1 .. n + 2
  BY <1>2
<1> HIDE DEF g
<1>5. LineStarts(g) = LineStarts(f) \cup {n + 1}
  <2>1. ASSUME NEW i \in 1 .. n
        PROVE  (g[i] # NL /\ (i = 1 \/ g[i - 1] = NL)) <=> (f[i] # NL /\ (i = 1 \/ f[i - 1] = NL))
    <3>1. i # 1 => i - 1 \in 1 .. n
      BY <1>1
    <3> QED BY <1>3, <3>1
  <2>2. g[n + 1] # NL /\ (n + 1 = 1 \/ g[n + 1 - 1] = NL)
    <3>1. n + 1 - 1 = n /\ (n # 0 => n \in 1 .. n)
      BY <1>1
    <3> QED BY <1>1, <1>2, <1>3, <3>1
  <2>3. \A i : i \in 1 .. n + 2 <=> i \in 1 .. n \/ i = n + 1 \/ i = n + 2
    BY <1>1
  <2>4. \A i : i \in LineStarts(g) <=> i \in LineStarts(f) \/ i = n + 1
    BY <1>2, <1>4, <2>1, <2>2, <2>3 DEF LineStarts
  <2> QED BY <2>4
<1>6. /\ LineStarts(f) \in SUBSET (1 .. n) /\ Cardinality(LineStarts(f)) \in Nat
  BY LinesType
<1>7. ASSUME NEW i \in LineStarts(f) PROVE LineFrom(g, i) = LineFrom(f, i)
  <2>1. i \in 1 .. n /\ n # 0 /\ f[n] = NL
    BY <1>1, <1>6
  <2>2. ASSUME NEW j PROVE j \in LineEnds(g, i) <=> j \in LineEnds(f, i)
    <3>1. ASSUME j \in LineEnds(g, i) PROVE j \in LineEnds(f, i)
      <4>1. j \in i .. n + 2 /\ \A k \in i .. j : g[k] # NL
        BY <1>2, <3>1 DEF LineEnds
      <4>2. j <= n
        <5> SUFFICES ASSUME n < j PROVE FALSE
          BY <1>1, <2>1, <4>1
        <5>1. n \in i .. j
          BY <1>1, <2>1, <4>1
        <5>2. g[n] = f[n]
          BY <1>1, <1>3, <2>1
        <5> QED BY <2>1, <4>1, <5>1, <5>2
      <4>3. j \in i .. n /\ \A k \in i .. j : k \in 1 .. n
        BY <1>1, <2>1, <4>1, <4>2
      <4> QED BY <1>3, <4>1, <4>3 DEF LineEnds
    <3>2. ASSUME j \in LineEnds(f, i) PROVE j \in LineEnds(g, i)
      <4>1. j \in i .. n /\ \A k \in i .. j : f[k] # NL
        BY <3>2 DEF LineEnds
      <4>2. j \in i .. n + 2 /\ \A k \in i .. j : k \in 1 .. n
        BY <1>1, <2>1, <4>1
      <4> QED BY <1>2, <1>3, <4>1, <4>2 DEF LineEnds
    <3> QED BY <3>1, <3>2
  <2>3. LineEnds(g, i) = LineEnds(f, i)
    BY <2>2
  <2> DEFINE m == Max(LineEnds(f, i))
  <2>4. m \in i .. n /\ LineFrom(f, i) = SubSeq(f, i, m)
    BY LineFromType
  <2>5. LineFrom(g, i) = SubSeq(g, i, m)
    BY <2>3 DEF LineFrom, LineEnds
  <2> HIDE DEF m
  <2>6. SubSeq(g, i, m) = SubSeq(f, i, m)
    <3>1. \A k \in 1 .. m - i + 1 : i + k - 1 \in 1 .. n
      BY <1>1, <2>1, <2>4
    <3>2. \A k \in 1 .. m - i + 1 : g[i + k - 1] = f[i + k - 1]
      BY <1>3, <3>1
    <3> DEFINE x == SubSeq(g, i, m)
               y == SubSeq(f, i, m)
    <3>3. i \in Nat \ {0} /\ m \in Nat /\ i <= m /\ m <= Len(g) /\ m <= Len(f) /\ n = Len(f)
      BY <1>1, <1>2, <2>1, <2>4
    <3>4. /\ x \in Seq(S) /\ Len(x) = m - i + 1
          /\ \A k \in 1 .. m - i + 1 : x[k] = g[i + k - 1]
      BY <1>2, <3>3
    <3>5. /\ y \in Seq(S) /\ Len(y) = m - i + 1
          /\ \A k \in 1 .. m - i + 1 : y[k] = f[i + k - 1]
      BY <3>3
    <3> HIDE DEF x, y
    <3>6. x = y
      BY <3>2, <3>4, <3>5
    <3> QED BY <3>6 DEF x, y
  <2> QED BY <2>4, <2>5, <2>6
<1>8. LineFrom(g, n + 1) = <<e>>
  <2>1. ASSUME NEW j PROVE j \in LineEnds(g, n + 1) <=> j = n + 1
    <3>1. ASSUME j \in LineEnds(g, n + 1) PROVE j = n + 1
      <4>1. j \in n + 1 .. n + 2 /\ \A k \in n + 1 .. j : g[k] # NL
        BY <1>2, <3>1 DEF LineEnds
      <4>2. j # n + 2
        <5>1. n + 2 \in n + 1 .. n + 2
          BY <1>1
        <5> QED BY <1>2, <4>1, <5>1
      <4> QED BY <1>1, <4>1, <4>2
    <3>2. n + 1 \in LineEnds(g, n + 1)
      <4>1. n + 1 \in n + 1 .. n + 2 /\ \A k \in n + 1 .. n + 1 : k = n + 1
        BY <1>1
      <4> QED BY <1>2, <4>1 DEF LineEnds
    <3> QED BY <3>1, <3>2
  <2>2. LineEnds(g, n + 1) = {n + 1}
    BY <2>1
  <2>3. Max({n + 1}) = n + 1
    <3>1. n + 1 \in Nat /\ {n + 1} \in SUBSET (0 .. n + 1)
      BY <1>1
    <3> QED BY <3>1, MaxOfBounded
  <2>4. LineFrom(g, n + 1) = SubSeq(g, n + 1, n + 1)
    BY <2>2, <2>3 DEF LineFrom, LineEnds
  <2>5. SubSeq(g, n + 1, n + 1) = <<e>>
    <3> DEFINE x == SubSeq(g, n + 1, n + 1)
    <3>1. n + 1 \in 1 .. Len(g) /\ n + 1 - (n + 1) + 1 = 1
      BY <1>1, <1>2
    <3>2. x \in Seq(S) /\ Len(x) = 1 /\ x[1] = g[n + 1]
      BY <1>1, <1>2, <3>1
    <3> HIDE DEF x
    <3>3. x = <<e>>
      BY <1>2, <3>2
    <3> QED BY <3>3 DEF x
  <2> QED BY <2>4, <2>5
<1> DEFINE C == Cardinality(LineStarts(f))
<1>9. /\ Cardinality(LineStarts(g)) = C + 1
      /\ \A m \in 1 .. C : NthOf(LineStarts(g), m) = NthOf(LineStarts(f), m)
      /\ NthOf(LineStarts(g), C + 1) = n + 1
  <2> DEFINE Q == LineStarts(f)
  <2>1. n \in Nat /\ Q \in SUBSET (1 .. n) /\ LineStarts(g) = Q \cup {n + 1}
    BY <1>1, <1>5, <1>6
  <2> HIDE DEF Q, n
  <2>2. /\ Cardinality(Q \cup {n + 1}) = Cardinality(Q) + 1
        /\ \A m \in 1 .. Cardinality(Q) : NthOf(Q \cup {n + 1}, m) = NthOf(Q, m)
        /\ NthOf(Q \cup {n + 1}, Cardinality(Q) + 1) = n + 1
    BY <2>1, NthOfMore
  <2> QED BY <2>1, <2>2 DEF Q
<1>10. \A m \in 1 .. C : NthOf(LineStarts(f), m) \in LineStarts(f)
  BY <1>1, <1>6, NthOfMember
<1>11. /\ Lines(f) \in Seq(Seq(S)) /\ Len(Lines(f)) = C
       /\ \A m \in 1 .. C : Lines(f)[m] = LineFrom(f, NthOf(LineStarts(f), m))
  <2>1. \A m \in 1 .. C : Lines(f)[m] = LineFrom(f, NthOf(LineStarts(f), m))
    BY DEF Lines
  <2> QED BY <2>1, LinesType
<1>12. /\ Lines(g) \in Seq(Seq(S)) /\ Len(Lines(g)) = C + 1
       /\ \A m \in 1 .. C + 1 : Lines(g)[m] = LineFrom(g, NthOf(LineStarts(g), m))
  <2>1. \A m \in 1 .. C + 1 : Lines(g)[m] = LineFrom(g, NthOf(LineStarts(g), m))
    BY <1>9 DEF Lines
  <2> QED BY <1>2, <1>9, <2>1, LinesType
<1> DEFINE L == Lines(f)
           M == Lines(g)
           A == Append(L, <<e>>)
<1>13. C \in Nat
  BY <1>6
<1> HIDE DEF C
<1>14. \A m \in 1 .. C : M[m] = L[m]
  <2> TAKE m \in 1 .. C
  <2>1. m \in 1 .. C + 1
    BY <1>13
  <2> QED BY <1>7, <1>9, <1>10, <1>11, <1>12, <2>1
<1>15. M[C + 1] = <<e>>
  <2>1. C + 1 \in 1 .. C + 1
    BY <1>13
  <2> QED BY <1>8, <1>9, <1>12, <2>1
<1> HIDE DEF L, M
<1>16. L \in Seq(Seq(S)) /\ M \in Seq(Seq(S)) /\ Len(L) = C /\ Len(M) = C + 1
  BY <1>11, <1>12 DEF L, M
<1>17. A \in Seq(Seq(S)) /\ Len(A) = C + 1 /\ A[C + 1] = <<e>>
       /\ \A m \in 1 .. C : A[m] = L[m]
  BY <1>16
<1> HIDE DEF A
<1>18. \A m \in 1 .. C + 1 : M[m] = A[m]
  <2>1. \A m \in 1 .. C + 1 : m \in 1 .. C \/ m = C + 1
    BY <1>13
  <2> QED BY <1>14, <1>15, <1>17, <2>1
<1>19. M = A
  BY <1>16, <1>17, <1>18
<1> QED BY <1>19 DEF M, A, L, g

\* A dashboard that writes alone has a whole file whose tail is its ring; or
\* it has written a line without the newline, and its ring is the tail of the
\* lines before.
LogInv ==
    \A c \in alone :
        /\ c \in running
        /\ ~ half[c] => Whole(file) /\ ring[c] = LoadFile(file)
        /\ half[c] => \E f \in Seq(Event \union {NL}) :
                         /\ file = Append(f, Head(todo[c])) /\ Whole(f)
                         /\ ring[c] = LoadFile(f)

LEMMA LoadFileGrows ==
    ASSUME NEW S, NEW f \in Seq(S), NEW e \in S, NL \in S, e # NL, Whole(f)
    PROVE  LastN(Append(LoadFile(f), <<e>>), Capacity)
              = LoadFile(Append(Append(f, e), NL))
<1>1. Lines(f) \in Seq(Seq(S)) /\ <<e>> \in Seq(S) /\ Capacity \in Nat \ {0}
  BY LinesType, ConstantsAssumption
<1>2. Lines(Append(Append(f, e), NL)) = Append(Lines(f), <<e>>)
  BY LinesGrow
<1> DEFINE L == Lines(f)
<1> HIDE DEF L
<1>3. LastN(Append(LastN(L, Capacity), <<e>>), Capacity) = LastN(Append(L, <<e>>), Capacity)
  BY <1>1, TrimTwice DEF L
<1> QED BY <1>2, <1>3 DEF LoadFile, L

LEMMA NextLogInv == TypeInv /\ LogInv /\ [Next]_vars => LogInv'
<1> SUFFICES ASSUME TypeInv, LogInv, [Next]_vars, NEW c \in alone'
             PROVE  /\ c \in running'
                    /\ ~ half'[c] => Whole(file') /\ ring'[c] = LoadFile(file')
                    /\ half'[c] => \E f \in Seq(Event \union {NL}) :
                                      /\ file' = Append(f, Head(todo'[c])) /\ Whole(f)
                                      /\ ring'[c] = LoadFile(f)
  BY DEF LogInv
<1>a. /\ ring \in [Consoles -> Seq(Seq(Event \union {NL}))] /\ todo \in [Consoles -> Seq(Event)]
      /\ file \in Seq(Event \union {NL}) /\ alone \subseteq Consoles
  BY DEF TypeInv, VariableTypes
<1>b. half \in [Consoles -> BOOLEAN]
  BY DEF TypeInv, VariableTypes
<1>c. \A d \in Consoles : (half[d] => todo[d] # <<>>) /\ (d \notin running => todo[d] = <<>>)
  BY DEF TypeInv, ConsoleLimits
<1>1. CASE c \in alone /\ UNCHANGED <<file, half[c], todo[c], ring[c]>> /\ c \in running'
  BY <1>1 DEF LogInv
<1>2. ASSUME NEW d \in Consoles, Launch(d)
      PROVE  (c \in alone /\ UNCHANGED <<file, half[c], todo[c], ring[c]>> /\ c \in running')
             \/ (c = d /\ c \in running' /\ ~ half'[c] /\ Whole(file') /\ ring'[c] = LoadFile(file'))
  <2>1. /\ d \notin running /\ half' = half /\ file' = file /\ running' = running \union {d}
        /\ ring' = Put(ring, d, LoadFile(file)) /\ todo' = Put(todo, d, <<Started>>)
        /\ alone' = IF Whole(file) THEN alone \union {d} ELSE alone
    BY <1>2 DEF Launch
  <2>2. d \notin alone
    BY <2>1 DEF LogInv
  <2>3. ~ half[d]
    <3>1. todo[d] = <<>>
      BY <1>c, <2>1
    <3> QED BY <1>c, <3>1, Zenon
  <2>4. CASE c = d
    <3>1. Whole(file)
      BY <2>1, <2>2, <2>4
    <3>2. ring'[d] = LoadFile(file)
      BY <1>a, <2>1 DEF Put
    <3> QED BY <2>1, <2>3, <2>4, <3>1, <3>2
  <2>5. CASE c # d
    <3>1. c \in alone /\ c \in running
      BY <2>1, <2>5 DEF LogInv
    <3>2. ring'[c] = ring[c] /\ todo'[c] = todo[c]
      BY <1>a, <2>1, <2>5, <3>1 DEF Put
    <3> QED BY <2>1, <3>1, <3>2
  <2> QED BY <2>4, <2>5
<1>3. ASSUME NEW d \in Consoles, Receive(d)
      PROVE  c \in alone /\ c \in running' /\ file' = file /\ ring' = ring /\ half' = half
             /\ (half[c] => todo'[c] = todo[c])
  <2>1. /\ todo[d] = <<>> /\ half' = half /\ file' = file /\ ring' = ring
        /\ running' = running /\ alone' = alone
    BY <1>3 DEF Receive
  <2>2. PICK l : todo' = Put(todo, d, l)
    BY <1>3 DEF Receive
  <2>3. half[c] => c # d
    <3>1. ~ half[d]
      BY <1>c, <2>1, Zenon
    <3> QED BY <3>1, Zenon
  <2>4. c # d => todo'[c] = todo[c]
    BY <1>a, <2>1, <2>2 DEF Put
  <2>5. c \in alone /\ c \in running
    BY <2>1 DEF LogInv
  <2> QED BY <2>1, <2>3, <2>4, <2>5
<1>4. CASE c \in Consoles /\ WriteText(c)
  <2>1. /\ ~ half[c] /\ file' = Append(file, Head(todo[c])) /\ ring' = ring /\ todo' = todo
        /\ running' = running /\ c \in alone
    BY <1>4 DEF WriteText
  <2>2. half'[c]
    <3>1. half' = Put(half, c, TRUE) /\ Put(half, c, TRUE)[c]
      BY <1>4, <1>b, HalfType DEF WriteText
    <3> QED BY <3>1
  <2>3. Whole(file) /\ ring[c] = LoadFile(file) /\ c \in running
    BY <2>1 DEF LogInv
  <2> QED BY <1>a, <2>1, <2>2, <2>3
<1>5. CASE c \in Consoles /\ WriteNewline(c)
  <2>1. /\ half[c] /\ file' = Append(file, NL) /\ running' = running /\ c \in alone
        /\ ring' = Put(ring, c, LastN(Append(ring[c], <<Head(todo[c])>>), Capacity))
    BY <1>5 DEF WriteNewline
  <2>2. ~ half'[c]
    <3>1. half' = Put(half, c, FALSE) /\ ~ Put(half, c, FALSE)[c]
      BY <1>5, <1>b, HalfType DEF WriteNewline
    <3> QED BY <3>1
  <2>3. ring'[c] = LastN(Append(ring[c], <<Head(todo[c])>>), Capacity)
    BY <1>5, <1>a, <2>1 DEF Put
  <2>4. PICK f \in Seq(Event \union {NL}) : /\ file = Append(f, Head(todo[c])) /\ Whole(f)
                                            /\ ring[c] = LoadFile(f)
    BY <2>1 DEF LogInv
  <2>5. Head(todo[c]) \in Event
    <3>1. todo[c] # <<>>
      BY <1>5, <1>c, <2>1, Zenon
    <3> QED BY <1>5, <1>a, <3>1
  <2>6. Head(todo[c]) # NL
    BY <2>5, EventsAreNoNewlines
  <2>7. ring'[c] = LoadFile(file')
    BY <2>1, <2>3, <2>4, <2>5, <2>6, LoadFileGrows
  <2>8. Whole(file')
    <3>1. file \in Seq(Event \union {NL}) /\ NL \in Event \union {NL}
      BY <1>a
    <3>2. Append(file, NL)[Len(Append(file, NL))] = NL
      BY <3>1
    <3> QED BY <2>1, <3>2 DEF Whole, Last
  <2>9. c \in running
    BY <2>1 DEF LogInv
  <2> QED BY <2>1, <2>2, <2>7, <2>8, <2>9
<1>6. ASSUME NEW d \in Consoles, WriteText(d) \/ WriteNewline(d) PROVE c = d
  BY <1>6 DEF WriteText, WriteNewline
<1>7. ASSUME NEW d \in Consoles, Ends(d)
      PROVE  c \in alone /\ UNCHANGED <<file, half[c], todo[c], ring[c]>> /\ c \in running'
  <2>1. /\ running' = running \ {d} /\ ring' = Put(ring, d, <<>>) /\ todo' = Put(todo, d, <<>>)
        /\ half' = Put(half, d, FALSE) /\ alone' = alone \ {d} /\ file' = file
    BY <1>7 DEF Ends
  <2>2. c # d /\ c \in alone /\ c \in running /\ c \in Consoles
    BY <1>a, <2>1 DEF LogInv
  <2>3. ring'[c] = ring[c] /\ todo'[c] = todo[c]
    BY <1>a, <2>1, <2>2 DEF Put
  <2>4. half'[c] = half[c]
    <3>1. c \in Consoles \ {d}
      BY <2>2
    <3>2. \A e \in Consoles \ {d} : Put(half, d, FALSE)[e] = half[e]
      BY <1>b, HalfType
    <3> QED BY <2>1, <3>1, <3>2
  <2> QED BY <2>1, <2>2, <2>3, <2>4
<1>8. ASSUME (\E d \in Consoles : GatherFirst(d) \/ GatherRest(d)) \/ Change \/ UNCHANGED vars
      PROVE  c \in alone /\ UNCHANGED <<file, half[c], todo[c], ring[c]>> /\ c \in running'
  <2>1. UNCHANGED <<file, half, todo, ring, running, alone>>
    BY <1>8 DEF GatherFirst, GatherRest, Change, vars, uiVars, history
  <2> QED BY <2>1 DEF LogInv
<1>9. CASE \E d \in Consoles : Launch(d)
  BY <1>1, <1>2, <1>9
<1>10. CASE \E d \in Consoles : Receive(d)
  BY <1>3, <1>10 DEF LogInv
<1>11. CASE \E d \in Consoles : WriteText(d) \/ WriteNewline(d)
  BY <1>4, <1>5, <1>6, <1>11
<1>12. CASE \E d \in Consoles : Ends(d)
  BY <1>1, <1>7, <1>12
<1> QED BY <1>1, <1>8, <1>9, <1>10, <1>11, <1>12 DEF Next, Step, Login, Killed

\* What a dashboard shows is the tail of the log file, the lines it restored
\* and those it added since, for any number of dashboards, any log and any
\* limit of the ring (events.rs:64-66, "a dashboard that came back from a
\* login/reboot still shows what happened before"): from a start on whole
\* lines until another dashboard writes.  From then on the two disagree, for
\* no dashboard reads the file again; and one that was killed in the middle
\* of a line leaves half of it to the next.
THEOREM RingIsTail == Spec => []RingIsFileTail
<1>1. Init => LogInv
  BY DEF Init, LogInv
<1>2. LogInv => RingIsFileTail
  BY DEF LogInv, RingIsFileTail
<1>3. TypeInv /\ LogInv /\ [Next]_vars => LogInv'
  BY NextLogInv
<1> QED BY <1>1, <1>2, <1>3, InitTypeInv, NextTypeInv, PTL DEF Spec

=============================================================================
