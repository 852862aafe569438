----------------------- MODULE NetworkConfigSync_proofs -----------------------
(***************************************************************************)
(* Proofs about NetworkConfigSync, for any state files, documents,        *)
(* ConfigMaps and bounds.                                                  *)
(***************************************************************************)
EXTENDS NetworkConfigSync, WellFoundedInduction, TLAPS

\* A nonempty set of numbers has a least one: how the proofs below do
\* induction over the order of the state files.
LEMMA LeastNumber ==
    ASSUME NEW T \in SUBSET Nat, T # {}
    PROVE  \E n \in T : \A m \in T : n <= m
<1> DEFINE R == {ss \in Nat \X Nat : ss[1] < ss[2]}
<1>1. R = OpToRel(<, Nat)
  BY DEF OpToRel
<1>2. IsWellFoundedOn(R, Nat)
  BY <1>1, NatLessThanWellFounded
<1>3. \E n \in T : \A m \in T : ~ (<<m, n>> \in R)
  <2> HIDE DEF R
  <2> QED BY <1>2, WFMin
<1>4. PICK n \in T : \A m \in T : ~ (<<m, n>> \in R)
  BY <1>3
<1>5. ASSUME NEW m \in T PROVE n <= m
  <2>1. m \in Nat /\ n \in Nat
    OBVIOUS
  <2>2. ~ (m < n)
    BY <1>4, <2>1
  <2> QED BY <2>1, <2>2
<1> QED BY <1>5

\* The first of some state files is one of them.
LEMMA FirstOfNames ==
    ASSUME NEW names \in SUBSET Files, names # {}
    PROVE  First(names) \in names
<1> DEFINE T == {i \in 1 .. Len(Order) : Order[i] \in names}
<1>1. T \in SUBSET Nat /\ T # {}
  BY ConstantsAssumption DEF ConstantsAssumption, Files
<1>2. PICK n \in T : \A m \in T : n <= m
  BY <1>1, LeastNumber
<1>3. \A j \in 1 .. n - 1 : Order[j] \notin names
  <2> TAKE j \in 1 .. n - 1
  <2>1. Len(Order) \in Nat /\ n \in Nat /\ n <= Len(Order)
    BY ConstantsAssumption DEF ConstantsAssumption
  <2>2. j \in 1 .. Len(Order) /\ ~ (n <= j)
    BY <2>1
  <2> QED BY <1>2, <2>2
<1> QED BY <1>2, <1>3 DEF First

-----------------------------------------------------------------------------
\* The steps at which a document read in this tick is in hand.
InHand == pc \in {"apply", "check", "cache"}

LEMMA ThisInQueue ==
    ASSUME TypeOK, queue # {}
    PROVE  this \in queue /\ this \in Files
BY FirstOfNames DEF TypeOK, this

LEMMA GenerationDocs ==
    ASSUME NEW g \in Generations
    PROVE  Docs(g) \in SUBSET (Files \X Content)
BY ConstantsAssumption DEF ConstantsAssumption, Docs, Present, Table

LEMMA InitTypeOK == Init => TypeOK
  <1> SUFFICES ASSUME Init PROVE TypeOK
    OBVIOUS
  <1>1. NoFile \in Table /\ AllDown \in [Files -> BOOLEAN]
    BY DEF NoFile, AllDown, Table
  <1>2. src \in Generations \union {NoMount}
    BY DEF Init
  <1>3. Mounted \in SUBSET (Files \X Content)
    BY <1>2, ConstantsAssumption
    DEF ConstantsAssumption, Mounted, Docs, Present, Table
  <1>4. /\ appliedAny \in BOOLEAN /\ allConverged \in BOOLEAN
        /\ gate \in BOOLEAN /\ startFailed \in BOOLEAN
    BY Zenon DEF Init
  <1> QED
    BY <1>1, <1>2, <1>3, <1>4 DEF Init, TypeOK

\* The Boolean variables stay Booleans.
LEMMA NextFlags ==
    TypeOK /\ [Next]_vars =>
        /\ appliedAny' \in BOOLEAN /\ allConverged' \in BOOLEAN
        /\ gate' \in BOOLEAN /\ startFailed' \in BOOLEAN
  <1> SUFFICES ASSUME TypeOK, [Next]_vars
               PROVE  /\ appliedAny' \in BOOLEAN /\ allConverged' \in BOOLEAN
                      /\ gate' \in BOOLEAN /\ startFailed' \in BOOLEAN
    OBVIOUS
  <1> USE DEF vars, tickVars, hostVars, unitVars, counters, ResetTick, Finish,
              Ready, Notify, Fault, NextFile
  <1>0. /\ appliedAny \in BOOLEAN /\ allConverged \in BOOLEAN
        /\ gate \in BOOLEAN /\ startFailed \in BOOLEAN
    BY Zenon DEF TypeOK
  <1>1. CASE UNCHANGED vars
    BY <1>0, <1>1, Zenon
  <1>2. CASE EmptySource \/ Begin \/ Unchanged \/ ReadFile \/ BadFile
    BY <1>0, <1>2, Zenon DEF EmptySource, Begin, Unchanged, ReadFile, BadFile
  <1>3. CASE Apply \/ ApplyFails \/ Converged \/ NotConverged \/ CacheApplied
    BY <1>0, <1>3, Zenon DEF Apply, ApplyFails, Converged, NotConverged, CacheApplied
  <1>4. CASE FinishUnconverged \/ FinishConverged \/ ReloadFrr \/ NotifyReady
    BY <1>0, <1>4, Zenon DEF FinishUnconverged, FinishConverged, ReloadFrr, NotifyReady
  <1>5. CASE Publish \/ FrrStarts \/ Reboot
    BY <1>0, <1>5, Zenon DEF Publish, FrrStarts, Reboot
  <1>6. CASE Killed \/ StartTimeout
    <2>1. Dies /\ (startFailed \/ unit = "activating") \in BOOLEAN
      BY <1>0, <1>6, Zenon DEF Killed, StartTimeout
    <2> QED
      BY <1>0, <1>6, <2>1, Zenon DEF Dies
  <1>7. ASSUME NEW f \in Files, LinkUp(f) \/ LinkDown(f)
        PROVE  /\ appliedAny' \in BOOLEAN /\ allConverged' \in BOOLEAN
               /\ gate' \in BOOLEAN /\ startFailed' \in BOOLEAN
    BY <1>0, <1>7, Zenon DEF LinkUp, LinkDown
  <1> QED
    BY <1>1, <1>2, <1>3, <1>4, <1>5, <1>6, <1>7, Zenon DEF Next, Daemon, Environment

\* Every step of the tick and of its environment preserves types.
LEMMA NextTypeOK == TypeOK /\ [Next]_vars => TypeOK'
  <1> SUFFICES ASSUME TypeOK, [Next]_vars PROVE TypeOK'
    OBVIOUS
  <1> USE DEF TypeOK, tickVars, hostVars, unitVars, counters, ResetTick, Finish,
              Ready, Notify, Fault, NextFile
  <1>a. NoFile \in Table /\ AllDown \in [Files -> BOOLEAN]
    BY DEF NoFile, AllDown, Table
  <1>b. queue # {} => this \in queue /\ this \in Files
    BY ThisInQueue
  <1>c. src # NoMount => src \in Table
    BY ConstantsAssumption DEF ConstantsAssumption
  <1>d. None \notin Content
    BY ConstantsAssumption DEF ConstantsAssumption
  <1>f. /\ appliedAny' \in BOOLEAN /\ allConverged' \in BOOLEAN
        /\ gate' \in BOOLEAN /\ startFailed' \in BOOLEAN
    BY NextFlags
  <1>1. CASE EmptySource
    BY <1>1, <1>f DEF EmptySource
  <1>2. CASE Begin
    BY <1>2 DEF Begin, Present
  <1>3. CASE Unchanged
    <2>1. <<this, src[this]>> \in Files \X Content
      BY <1>3, <1>b, <1>c DEF Unchanged, Table
    <2> QED
      BY <1>3, <2>1 DEF Unchanged
  <1>4. CASE ReadFile
    <2>1. src[this] \in Content
      BY <1>4, <1>b, <1>c DEF ReadFile, Table
    <2> QED
      BY <1>4, <2>1 DEF ReadFile
  <1>5. CASE BadFile
    BY <1>5 DEF BadFile
  <1>6. CASE Apply
    <2>1. this \in Files /\ yaml \in Content
      BY <1>6, <1>b DEF Apply
    <2>2. kernel' \in Table
      BY <1>6, <2>1 DEF Apply, Table
    <2>3. up' \in [Files -> BOOLEAN]
      BY <1>6, <2>1 DEF Apply
    <2> QED
      BY <1>6, <2>1, <2>2, <2>3 DEF Apply
  <1>7. CASE ApplyFails
    BY <1>7, <1>f DEF ApplyFails
  <1>8. CASE Converged
    BY <1>8, <1>b DEF Converged
  <1>9. CASE NotConverged
    BY <1>9, <1>b, <1>f DEF NotConverged
  <1>10. CASE CacheApplied
    <2>1. this \in Files /\ yaml \in Content
      BY <1>10, <1>b DEF CacheApplied
    <2>2. cache' \in Table
      BY <1>10, <2>1 DEF CacheApplied, Table
    <2> QED
      BY <1>10, <2>1, <2>2 DEF CacheApplied
  <1>11. CASE FinishUnconverged
    BY <1>11 DEF FinishUnconverged
  <1>12. CASE FinishConverged
    BY <1>12 DEF FinishConverged
  <1>13. CASE ReloadFrr
    BY <1>13 DEF ReloadFrr
  <1>14. CASE NotifyReady
    BY <1>14, <1>f DEF NotifyReady
  <1>15. CASE Publish
    <2>1. PICK g \in Generations : src' = g /\ published' = published \union Docs(g)
      BY <1>15 DEF Publish
    <2>2. g # NoMount
      BY ConstantsAssumption DEF ConstantsAssumption
    <2>3. published' \in SUBSET (Files \X Content)
      BY <2>1, GenerationDocs
    <2> QED
      BY <1>15, <2>1, <2>2, <2>3 DEF Publish
  <1>e. Dies => cache' \in Table
    <2> SUFFICES ASSUME Dies PROVE cache' \in Table
      OBVIOUS
    <2>1. pc = "cache" => [cache EXCEPT ![this] = None] \in Table
      BY <1>b DEF Table
    <2> QED
      BY <2>1 DEF Dies
  <1>16. CASE Killed
    BY <1>16, <1>e, <1>f DEF Killed, Dies
  <1>17. CASE StartTimeout
    BY <1>17, <1>e, <1>f DEF StartTimeout, Dies
  <1>18. CASE FrrStarts
    BY <1>18 DEF FrrStarts
  <1>19. CASE Reboot
    BY <1>19, <1>a, <1>f DEF Reboot
  <1>20. ASSUME NEW f \in Files, LinkUp(f) PROVE TypeOK'
    BY <1>20 DEF LinkUp
  <1>21. ASSUME NEW f \in Files, LinkDown(f) PROVE TypeOK'
    BY <1>21 DEF LinkDown
  <1>22. CASE UNCHANGED vars
    BY <1>22 DEF vars
  <1> QED
    BY <1>1, <1>2, <1>3, <1>4, <1>5, <1>6, <1>7, <1>8, <1>9, <1>10, <1>11,
       <1>12, <1>13, <1>14, <1>15, <1>16, <1>17, <1>18, <1>19, <1>20, <1>21,
       <1>22 DEF Next, Daemon, Environment

\* Every variable of the network-config-sync tick keeps its type
\* (network.rs:64-141), for any number of state files and ConfigMaps.
THEOREM TypeCorrect == Spec => []TypeOK
  BY InitTypeOK, NextTypeOK, PTL DEF Spec

-----------------------------------------------------------------------------
(***************************************************************************)
(* The inductive invariant behind ReadyAfterConvergence.  The cache        *)
(* outlives the process, so what is said of a tick must be said of it too: *)
(* a document gets there only after it was seen up, in this life of the    *)
(* daemon or an earlier one, and a reboot takes both away.                 *)
(***************************************************************************)
SeenUp ==
    /\ \A f \in Files : cache[f] # None => <<f, cache[f]>> \in sawUp
    /\ pc = "cache" => <<this, yaml>> \in sawUp
    /\ allConverged => taken \subseteq sawUp
    /\ pc \in {"reload", "notify"} => allConverged

LEMMA ThisStays == queue' = queue => this' = this
BY DEF this

LEMMA InitSeenUp == Init => SeenUp
BY DEF Init, SeenUp, NoFile

LEMMA NextSeenUp == TypeOK /\ SeenUp /\ [Next]_vars => SeenUp'
  <1> SUFFICES ASSUME TypeOK, SeenUp, [Next]_vars PROVE SeenUp'
    OBVIOUS
  <1> USE DEF SeenUp, tickVars, hostVars, unitVars, counters, ResetTick, Finish,
              NextFile
  <1>a. queue # {} => this \in queue /\ this \in Files
    BY ThisInQueue
  <1>b. queue' = queue => this' = this
    BY ThisStays
  <1>c. cache \in [Files -> Content \union {None}] /\ None \notin Content
    BY ConstantsAssumption DEF TypeOK, Table, ConstantsAssumption
  <1>1. CASE EmptySource
    BY <1>1 DEF EmptySource
  <1>2. CASE Begin
    BY <1>2 DEF Begin
  <1>3. CASE Unchanged
    <2>1. <<this, src[this]>> \in sawUp
      BY <1>3, <1>a DEF Unchanged
    <2> QED
      BY <1>3, <2>1 DEF Unchanged
  <1>4. CASE ReadFile
    BY <1>4 DEF ReadFile
  <1>5. CASE BadFile
    BY <1>5 DEF BadFile
  <1>6. CASE Apply
    BY <1>6 DEF Apply
  <1>7. CASE ApplyFails
    BY <1>7 DEF ApplyFails
  <1>8. CASE Converged
    BY <1>8, <1>b DEF Converged
  <1>9. CASE NotConverged
    BY <1>9 DEF NotConverged
  <1>10. CASE CacheApplied
    <2>1. this \in Files /\ <<this, yaml>> \in sawUp
      BY <1>10, <1>a DEF CacheApplied, TypeOK
    <2>2. \A f \in Files : cache'[f] # None => <<f, cache'[f]>> \in sawUp
      BY <1>10, <1>c, <2>1 DEF CacheApplied
    <2> QED
      BY <1>10, <2>1, <2>2 DEF CacheApplied
  <1>11. CASE FinishUnconverged
    BY <1>11 DEF FinishUnconverged
  <1>12. CASE FinishConverged
    BY <1>12 DEF FinishConverged
  <1>13. CASE ReloadFrr
    BY <1>13 DEF ReloadFrr
  <1>14. CASE NotifyReady
    BY <1>14 DEF NotifyReady
  <1>15. CASE Publish
    BY <1>15, <1>b DEF Publish
  <1>d. Dies => \A f \in Files : cache'[f] # None => <<f, cache'[f]>> \in sawUp
    BY <1>c DEF Dies
  <1>16. CASE Killed
    BY <1>16, <1>d DEF Killed, Dies
  <1>17. CASE StartTimeout
    BY <1>17, <1>d DEF StartTimeout, Dies
  <1>18. CASE FrrStarts
    BY <1>18, <1>b DEF FrrStarts
  <1>19. CASE Reboot
    BY <1>19 DEF Reboot, NoFile
  <1>20. ASSUME NEW f \in Files, LinkUp(f) PROVE SeenUp'
    BY <1>20, <1>b DEF LinkUp
  <1>21. ASSUME NEW f \in Files, LinkDown(f) PROVE SeenUp'
    BY <1>21, <1>b DEF LinkDown
  <1>22. CASE UNCHANGED vars
    BY <1>22, <1>b DEF vars
  <1> QED
    BY <1>1, <1>2, <1>3, <1>4, <1>5, <1>6, <1>7, <1>8, <1>9, <1>10, <1>11,
       <1>12, <1>13, <1>14, <1>15, <1>16, <1>17, <1>18, <1>19, <1>20, <1>21,
       <1>22 DEF Next, Daemon, Environment

\* FRR is reloaded and READY=1 sent only by a tick all of whose documents the
\* daemon has seen up since boot (network.rs:94-136), however many files,
\* swaps, failures, crashes and reboots there are.
THEOREM ReadyOnlyAfterConvergence == Spec => []ReadyAfterConvergence
  <1>1. Spec => []SeenUp
    BY TypeCorrect, InitSeenUp, NextSeenUp, PTL DEF Spec
  <1>2. SeenUp => ReadyAfterConvergence
    BY DEF SeenUp, ReadyAfterConvergence
  <1> QED
    BY <1>1, <1>2, PTL

-----------------------------------------------------------------------------
(***************************************************************************)
(* The inductive invariant behind SkippedIsApplied, for an operator who    *)
(* does not publish a document again.  A document in hand may be older     *)
(* than the one now mounted, but it is never one that the cache would      *)
(* match, so the kernel may leave the cached document behind only while    *)
(* the daemon is going to apply the mounted one.                           *)
(***************************************************************************)
Known ==
    /\ Mounted \subseteq published
    /\ InHand => <<this, yaml>> \in published
    /\ \A f \in Files : cache[f] # None => <<f, cache[f]>> \in published

Fresh ==
    /\ InHand /\ src # NoMount /\ src[this] # None => cache[this] # src[this]
    /\ pc \in {"check", "cache"} => kernel[this] = yaml

SkipInv == Known /\ Fresh /\ SkippedIsApplied

LEMMA InitSkipInv == Init => SkipInv
BY DEF Init, SkipInv, Known, Fresh, SkippedIsApplied, InHand, NoFile

\* What the mount shows of a state file is among the mounted documents.
LEMMA ShownIsMounted ==
    ASSUME src # NoMount, NEW f \in Files, src[f] # None
    PROVE  <<f, src[f]>> \in Mounted
BY DEF Mounted, Docs, Present

LEMMA NextKnown == TypeOK /\ Known /\ [Next]_vars => Known'
  <1> SUFFICES ASSUME TypeOK, Known, [Next]_vars PROVE Known'
    OBVIOUS
  <1> USE DEF Known, InHand, tickVars, hostVars, unitVars, counters, ResetTick,
              Finish, NextFile
  <1>a. queue # {} => this \in queue /\ this \in Files
    BY ThisInQueue
  <1>b. queue' = queue => this' = this
    BY ThisStays
  <1>c. cache \in [Files -> Content \union {None}]
    BY DEF TypeOK, Table
  <1>m. src' = src => Mounted' = Mounted
    BY DEF Mounted
  <1>1. CASE EmptySource
    BY <1>1, <1>m DEF EmptySource
  <1>2. CASE Begin
    BY <1>2, <1>m DEF Begin
  <1>3. CASE Unchanged
    BY <1>3, <1>m DEF Unchanged
  <1>4. CASE ReadFile
    <2>1. <<this, src[this]>> \in Mounted
      BY <1>4, <1>a, ShownIsMounted DEF ReadFile, TypeOK
    <2> QED
      BY <1>4, <2>1, <1>b, <1>m DEF ReadFile
  <1>5. CASE BadFile
    BY <1>5, <1>m DEF BadFile
  <1>6. CASE Apply
    BY <1>6, <1>b, <1>m DEF Apply
  <1>7. CASE ApplyFails
    BY <1>7, <1>m DEF ApplyFails
  <1>8. CASE Converged
    BY <1>8, <1>b, <1>m DEF Converged
  <1>9. CASE NotConverged
    BY <1>9, <1>m DEF NotConverged
  <1>10. CASE CacheApplied
    <2>1. \A f \in Files : cache'[f] # None => <<f, cache'[f]>> \in published
      BY <1>10, <1>c DEF CacheApplied
    <2> QED
      BY <1>10, <2>1, <1>m DEF CacheApplied
  <1>11. CASE FinishUnconverged
    BY <1>11, <1>m DEF FinishUnconverged
  <1>12. CASE FinishConverged
    BY <1>12, <1>m DEF FinishConverged
  <1>13. CASE ReloadFrr
    BY <1>13, <1>m DEF ReloadFrr
  <1>14. CASE NotifyReady
    BY <1>14, <1>m DEF NotifyReady
  <1>15. CASE Publish
    <2>1. PICK g \in Generations : src' = g /\ published' = published \union Docs(g)
      BY <1>15 DEF Publish
    <2>2. Mounted' \subseteq published'
      BY <2>1 DEF Mounted
    <2> QED
      BY <1>15, <2>1, <2>2, <1>b DEF Publish
  <1>d. Dies => \A f \in Files : cache'[f] # None => <<f, cache'[f]>> \in published
    BY <1>c DEF Dies
  <1>16. CASE Killed
    BY <1>16, <1>d, <1>m DEF Killed, Dies
  <1>17. CASE StartTimeout
    BY <1>17, <1>d, <1>m DEF StartTimeout, Dies
  <1>18. CASE FrrStarts
    BY <1>18, <1>b, <1>m DEF FrrStarts
  <1>19. CASE Reboot
    BY <1>19, <1>m DEF Reboot, NoFile
  <1>20. ASSUME NEW f \in Files, LinkUp(f) PROVE Known'
    BY <1>20, <1>b, <1>m DEF LinkUp
  <1>21. ASSUME NEW f \in Files, LinkDown(f) PROVE Known'
    BY <1>21, <1>b, <1>m DEF LinkDown
  <1>22. CASE UNCHANGED vars
    BY <1>22, <1>b, <1>m DEF vars
  <1> QED
    BY <1>1, <1>2, <1>3, <1>4, <1>5, <1>6, <1>7, <1>8, <1>9, <1>10, <1>11,
       <1>12, <1>13, <1>14, <1>15, <1>16, <1>17, <1>18, <1>19, <1>20, <1>21,
       <1>22 DEF Next, Daemon, Environment

\* A ConfigMap swap shows no old document that was not mounted just before.
LEMMA PublishIsNew ==
    ASSUME TypeOK, Known, Reverts = FALSE, Publish,
           NEW f \in Files, cache[f] # None, cache[f] = src'[f]
    PROVE  src # NoMount /\ cache[f] = src[f]
  <1>1. PICK g \in Generations : /\ src' = g
                                 /\ Docs(g) \intersect published \subseteq Mounted
    BY Zenon DEF Publish
  <1>2. <<f, cache[f]>> \in Docs(g) /\ <<f, cache[f]>> \in published
    BY <1>1 DEF Known, Docs, Present
  <1>3. <<f, cache[f]>> \in Mounted
    BY <1>1, <1>2
  <1> QED
    BY <1>3 DEF Mounted, Docs

LEMMA NextSkipInv ==
    TypeOK /\ SkipInv /\ Reverts = FALSE /\ [Next]_vars => SkipInv'
  <1> SUFFICES ASSUME TypeOK, Known, Fresh, SkippedIsApplied, Reverts = FALSE,
                      [Next]_vars
               PROVE  Fresh' /\ SkippedIsApplied'
    BY NextKnown DEF SkipInv
  <1> USE DEF Fresh, SkippedIsApplied, InHand, tickVars, hostVars, unitVars,
              counters, ResetTick, Finish, NextFile
  <1>a. queue # {} => this \in queue /\ this \in Files
    BY ThisInQueue
  <1>b. queue' = queue => this' = this
    BY ThisStays
  <1>c. cache \in [Files -> Content \union {None}]
        /\ kernel \in [Files -> Content \union {None}]
    BY DEF TypeOK, Table
  <1>1. CASE EmptySource
    BY <1>1 DEF EmptySource
  <1>2. CASE Begin
    BY <1>2 DEF Begin
  <1>3. CASE Unchanged
    BY <1>3 DEF Unchanged
  <1>4. CASE ReadFile
    BY <1>4, <1>b DEF ReadFile
  <1>5. CASE BadFile
    BY <1>5 DEF BadFile
  <1>6. CASE Apply
    <2>1. this \in Files /\ kernel' = [kernel EXCEPT ![this] = yaml]
      BY <1>6, <1>a DEF Apply, TypeOK
    <2>2. src # NoMount /\ src[this] # None => cache[this] # src[this]
      BY <1>6 DEF Apply
    <2>3. Fresh'
      BY <1>6, <1>b, <1>c, <2>1 DEF Apply
    <2>4. ASSUME NEW f \in Files, src # NoMount, cache[f] # None, cache[f] = src[f]
          PROVE  kernel'[f] = cache[f]
      <3>1. f # this
        BY <2>2, <2>4
      <3> QED
        BY <2>1, <2>4, <3>1, <1>c
    <2>5. src' = src /\ cache' = cache
      BY <1>6 DEF Apply
    <2> QED
      BY <2>3, <2>4, <2>5
  <1>7. CASE ApplyFails
    BY <1>7 DEF ApplyFails
  <1>8. CASE Converged
    BY <1>8, <1>b DEF Converged
  <1>9. CASE NotConverged
    BY <1>9 DEF NotConverged
  <1>10. CASE CacheApplied
    <2>1. this \in Files /\ kernel[this] = yaml
      BY <1>10, <1>a DEF CacheApplied, TypeOK
    <2>2. src' = src /\ kernel' = kernel /\ pc' = "read"
      BY <1>10 DEF CacheApplied
    <2>3. cache' = [cache EXCEPT ![this] = yaml] \/ cache' = cache
      BY <1>10 DEF CacheApplied
    <2>4. ASSUME NEW f \in Files, src # NoMount, cache'[f] # None, cache'[f] = src[f]
          PROVE  kernel[f] = cache'[f]
      BY <2>1, <2>3, <2>4, <1>c
    <2> QED
      BY <2>2, <2>4
  <1>11. CASE FinishUnconverged
    BY <1>11 DEF FinishUnconverged
  <1>12. CASE FinishConverged
    BY <1>12 DEF FinishConverged
  <1>13. CASE ReloadFrr
    BY <1>13 DEF ReloadFrr
  <1>14. CASE NotifyReady
    BY <1>14 DEF NotifyReady
  <1>15. CASE Publish
    <2>1. /\ cache' = cache /\ kernel' = kernel /\ pc' = pc /\ yaml' = yaml
          /\ this' = this
      BY <1>15, <1>b DEF Publish
    <2>2. Fresh'
      <3>1. ASSUME InHand, src'[this] # None PROVE cache[this] # src'[this]
        <4>1. SUFFICES ASSUME cache[this] = src'[this] PROVE FALSE
          OBVIOUS
        <4>2. this \in Files
          BY <3>1, <1>a DEF TypeOK
        <4>3. src # NoMount /\ cache[this] = src[this]
          BY <3>1, <4>1, <4>2, <1>15, PublishIsNew
        <4> QED
          BY <3>1, <4>1, <4>3
      <3> QED
        BY <2>1, <3>1
    <2>3. ASSUME NEW f \in Files, cache[f] # None, cache[f] = src'[f]
          PROVE  kernel[f] = cache[f]
      BY <1>15, <2>3, PublishIsNew
    <2> QED
      BY <2>1, <2>2, <2>3
  <1>d. Dies => \A f \in Files : cache'[f] \in {cache[f], None}
    BY <1>c DEF Dies
  <1>16. CASE Killed
    BY <1>16, <1>d DEF Killed, Dies
  <1>17. CASE StartTimeout
    BY <1>17, <1>d DEF StartTimeout, Dies
  <1>18. CASE FrrStarts
    BY <1>18, <1>b DEF FrrStarts
  <1>19. CASE Reboot
    BY <1>19 DEF Reboot, NoFile
  <1>20. ASSUME NEW f \in Files, LinkUp(f) PROVE Fresh' /\ SkippedIsApplied'
    BY <1>20, <1>b DEF LinkUp
  <1>21. ASSUME NEW f \in Files, LinkDown(f) PROVE Fresh' /\ SkippedIsApplied'
    BY <1>21, <1>b DEF LinkDown
  <1>22. CASE UNCHANGED vars
    BY <1>22, <1>b DEF vars
  <1> QED
    BY <1>1, <1>2, <1>3, <1>4, <1>5, <1>6, <1>7, <1>8, <1>9, <1>10, <1>11,
       <1>12, <1>13, <1>14, <1>15, <1>16, <1>17, <1>18, <1>19, <1>20, <1>21,
       <1>22 DEF Next, Daemon, Environment

\* As long as the operator never publishes a document again, a document that
\* the tick skips as unchanged is the one the kernel holds (network.rs:13-19,
\* 99-104).  The run NetworkReverted shows that the hypothesis is needed.
THEOREM NoReverts == ASSUME Reverts = FALSE PROVE Spec => []SkippedIsApplied
  <1>1. TypeOK /\ SkipInv /\ [Next]_vars => SkipInv'
    BY NextSkipInv
  <1>2. SkipInv => SkippedIsApplied
    BY DEF SkipInv
  <1> QED
    BY <1>1, <1>2, TypeCorrect, InitSkipInv, PTL DEF Spec

-----------------------------------------------------------------------------
LEMMA NextFrrFollows == TypeOK /\ FrrFollows /\ [Next]_vars => FrrFollows'
  <1> SUFFICES ASSUME TypeOK, FrrFollows, [Next]_vars PROVE FrrFollows'
    OBVIOUS
  <1> USE DEF FrrFollows, tickVars, hostVars, unitVars, counters, ResetTick,
              Finish, NextFile, Fault
  <1>1. CASE EmptySource
    BY <1>1 DEF EmptySource
  <1>2. CASE Begin \/ Unchanged \/ ReadFile \/ BadFile \/ ApplyFails
    BY <1>2 DEF Begin, Unchanged, ReadFile, BadFile, ApplyFails
  <1>3. CASE Apply \/ Converged \/ NotConverged \/ CacheApplied \/ FinishUnconverged
    BY <1>3 DEF Apply, Converged, NotConverged, CacheApplied, FinishUnconverged
  <1>4. CASE FinishConverged
    BY <1>4 DEF FinishConverged
  <1>5. CASE ReloadFrr
    <2>1. faults \in Nat
      BY DEF TypeOK
    <2> QED
      BY <1>5, <2>1 DEF ReloadFrr
  <1>6. CASE NotifyReady
    BY <1>6 DEF NotifyReady
  <1>7. CASE Publish
    BY <1>7 DEF Publish
  <1>8. CASE Killed \/ StartTimeout \/ Reboot
    BY <1>8 DEF Killed, StartTimeout, Reboot, Dies
  <1>9. CASE FrrStarts
    BY <1>9 DEF FrrStarts
  <1>10. ASSUME NEW f \in Files, LinkUp(f) \/ LinkDown(f) PROVE FrrFollows'
    BY <1>10 DEF LinkUp, LinkDown
  <1>11. CASE UNCHANGED vars
    BY <1>11 DEF vars
  <1> QED
    BY <1>1, <1>2, <1>3, <1>4, <1>5, <1>6, <1>7, <1>8, <1>9, <1>10, <1>11
    DEF Next, Daemon, Environment

\* Once a tick that applied something sends READY=1, a running FRR is bound
\* to everything the kernel holds, unless something failed (network.rs:125-130).
THEOREM FrrIsReloaded == Spec => []FrrFollows
  <1>1. Init => FrrFollows
    BY DEF Init, FrrFollows
  <1> QED
    BY <1>1, TypeCorrect, NextFrrFollows, PTL DEF Spec

-----------------------------------------------------------------------------
(***************************************************************************)
(* The inductive invariant behind FrrWaitsUnlessStartFails: as long as the *)
(* ConfigMap is left alone, a tick that gets as far as READY=1 has handled *)
(* every document of it, so frr.service is let go only when all of them    *)
(* have been seen up.                                                      *)
(***************************************************************************)
Covered ==
    /\ pc # "idle" /\ swaps = 0 =>
         \A f \in Present(src) : f \in queue \/ <<f, src[f]>> \in taken
    /\ InHand /\ swaps = 0 => yaml = src[this]
    /\ pc \in {"reload", "notify"} => queue = {}

Gated ==
    /\ unit = "active" => gate
    /\ gate /\ frr = "stopped" /\ swaps = 0 /\ ~ startFailed
          => Mounted \subseteq sawUp

LEMMA NextCovered == TypeOK /\ Covered /\ [Next]_vars => Covered'
  <1> SUFFICES ASSUME TypeOK, Covered, [Next]_vars PROVE Covered'
    OBVIOUS
  <1> USE DEF Covered, InHand, tickVars, hostVars, unitVars, counters,
              ResetTick, Finish, NextFile, Fault
  <1>a. queue # {} => this \in queue /\ this \in Files
    BY ThisInQueue
  <1>b. queue' = queue => this' = this
    BY ThisStays
  <1>1. CASE EmptySource
    BY <1>1 DEF EmptySource
  <1>2. CASE Begin
    BY <1>2 DEF Begin
  <1>3. CASE Unchanged
    BY <1>3 DEF Unchanged
  <1>4. CASE ReadFile
    BY <1>4, <1>b DEF ReadFile
  <1>5. CASE BadFile
    BY <1>5 DEF BadFile
  <1>6. CASE Apply
    BY <1>6, <1>b DEF Apply
  <1>7. CASE ApplyFails
    BY <1>7 DEF ApplyFails
  <1>8. CASE Converged
    BY <1>8, <1>b DEF Converged
  <1>9. CASE NotConverged
    BY <1>9 DEF NotConverged
  <1>10. CASE CacheApplied
    BY <1>10 DEF CacheApplied
  <1>11. CASE FinishUnconverged
    BY <1>11 DEF FinishUnconverged
  <1>12. CASE FinishConverged
    BY <1>12 DEF FinishConverged
  <1>13. CASE ReloadFrr
    BY <1>13 DEF ReloadFrr
  <1>14. CASE NotifyReady
    BY <1>14 DEF NotifyReady
  <1>15. CASE Publish
    <2>1. swaps' # 0
      BY <1>15 DEF Publish, TypeOK
    <2> QED
      BY <1>15, <2>1 DEF Publish
  <1>16. CASE Killed
    BY <1>16 DEF Killed, Dies
  <1>17. CASE StartTimeout
    BY <1>17 DEF StartTimeout, Dies
  <1>18. CASE FrrStarts
    BY <1>18, <1>b DEF FrrStarts
  <1>19. CASE Reboot
    BY <1>19 DEF Reboot
  <1>20. ASSUME NEW f \in Files, LinkUp(f) PROVE Covered'
    BY <1>20, <1>b DEF LinkUp
  <1>21. ASSUME NEW f \in Files, LinkDown(f) PROVE Covered'
    BY <1>21, <1>b DEF LinkDown
  <1>22. CASE UNCHANGED vars
    BY <1>22, <1>b DEF vars
  <1> QED
    BY <1>1, <1>2, <1>3, <1>4, <1>5, <1>6, <1>7, <1>8, <1>9, <1>10, <1>11,
       <1>12, <1>13, <1>14, <1>15, <1>16, <1>17, <1>18, <1>19, <1>20, <1>21,
       <1>22 DEF Next, Daemon, Environment

\* A tick about to reload FRR or to report has everything mounted seen up.
LEMMA ConvergedIsMounted ==
    ASSUME TypeOK, SeenUp, Covered, pc \in {"reload", "notify"}, swaps = 0
    PROVE  Mounted \subseteq sawUp
  <1>1. taken \subseteq sawUp
    BY DEF SeenUp
  <1>2. \A f \in Present(src) : <<f, src[f]>> \in taken
    BY DEF Covered
  <1> QED
    BY <1>1, <1>2 DEF Mounted, Docs

LEMMA NextGated ==
    TypeOK /\ SeenUp /\ Covered /\ Gated /\ [Next]_vars => Gated'
  <1> SUFFICES ASSUME TypeOK, SeenUp, Covered, Gated, [Next]_vars PROVE Gated'
    OBVIOUS
  <1> USE DEF Gated, tickVars, hostVars, unitVars, counters, ResetTick, Finish,
              NextFile, Fault, Ready, Notify
  <1>m. src' = src => Mounted' = Mounted
    BY DEF Mounted
  <1>c. pc \in {"reload", "notify"} /\ swaps = 0 => Mounted \subseteq sawUp
    BY ConvergedIsMounted
  <1>1. CASE EmptySource
    <2>1. Mounted' = {}
      BY <1>1 DEF EmptySource, Mounted
    <2> QED
      BY <1>1, <2>1 DEF EmptySource
  <1>2. CASE Begin \/ Unchanged \/ ReadFile \/ BadFile \/ Apply
    BY <1>2, <1>m DEF Begin, Unchanged, ReadFile, BadFile, Apply
  <1>3. CASE ApplyFails \/ Converged \/ NotConverged \/ CacheApplied
    BY <1>3, <1>m DEF ApplyFails, Converged, NotConverged, CacheApplied
  <1>4. CASE FinishUnconverged \/ FinishConverged \/ ReloadFrr
    BY <1>4, <1>m DEF FinishUnconverged, FinishConverged, ReloadFrr
  <1>5. CASE NotifyReady
    BY <1>5, <1>m, <1>c DEF NotifyReady
  <1>6. CASE Publish
    <2>1. swaps' # 0
      BY <1>6 DEF Publish, TypeOK
    <2> QED
      BY <1>6, <2>1 DEF Publish
  <1>7. CASE Killed \/ StartTimeout
    <2>1. /\ Dies
          /\ src' = src /\ frr' = frr /\ swaps' = swaps /\ sawUp' = sawUp
      BY <1>7 DEF Killed, StartTimeout
    <2>2. unit' = "activating" /\ (startFailed' = (startFailed \/ unit = "activating"))
      BY <2>1 DEF Dies
    <2>3. CASE startFailed'
      BY <2>2, <2>3
    <2>4. CASE ~ startFailed'
      <3>1. unit = "active" /\ ~ startFailed
        BY <2>2, <2>4 DEF TypeOK
      <3> QED
        BY <2>1, <2>2, <3>1, <1>m
    <2> QED
      BY <2>3, <2>4
  <1>8. CASE FrrStarts \/ Reboot
    BY <1>8 DEF FrrStarts, Reboot
  <1>9. ASSUME NEW f \in Files, LinkUp(f) \/ LinkDown(f) PROVE Gated'
    BY <1>9, <1>m DEF LinkUp, LinkDown
  <1>10. CASE UNCHANGED vars
    BY <1>10, <1>m DEF vars
  <1> QED
    BY <1>1, <1>2, <1>3, <1>4, <1>5, <1>6, <1>7, <1>8, <1>9, <1>10
    DEF Next, Daemon, Environment

\* Under a ConfigMap that is left alone, frr.service starts only after every
\* document of it has been seen up since boot, unless the unit failed to start
\* since - its daemon died or was timed out before READY=1, which ends FRR's
\* wait as well (network.rs:125-140, frr.service.d/10-network-config-sync.conf).
THEOREM FrrWaits == Spec => FrrWaitsUnlessStartFails
  <1>1. Init => SeenUp /\ Covered /\ Gated
    BY InitSeenUp DEF Init, Covered, Gated, InHand
  <1>2. TypeOK /\ SeenUp /\ Covered /\ Gated /\ [Next]_vars
          => SeenUp' /\ Covered' /\ Gated'
    BY NextSeenUp, NextCovered, NextGated
  <1>3. Gated /\ [Next]_vars
          => [frr = "stopped" /\ frr' = "running" /\ swaps = 0 /\ ~ startFailed
                => Mounted \subseteq sawUp]_vars
    <2> SUFFICES ASSUME Gated, Next, frr = "stopped", frr' = "running",
                        swaps = 0, ~ startFailed
                 PROVE  Mounted \subseteq sawUp
      OBVIOUS
    <2>1. FrrStarts
      BY DEF Next, Daemon, Environment, hostVars, EmptySource, Begin, Unchanged,
             ReadFile, BadFile, Apply, ApplyFails, Converged, NotConverged,
             CacheApplied, FinishUnconverged, FinishConverged, ReloadFrr,
             NotifyReady, Publish, Killed, StartTimeout, Reboot, LinkUp, LinkDown
    <2> QED
      BY <2>1 DEF FrrStarts, Gated
  <1> QED
    BY <1>1, <1>2, <1>3, TypeCorrect, PTL DEF Spec, FrrWaitsUnlessStartFails

=============================================================================
