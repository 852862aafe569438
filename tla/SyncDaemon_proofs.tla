-------------------------- MODULE SyncDaemon_proofs --------------------------
(***************************************************************************)
(* Proofs about SyncDaemon for every number of instances and every poll    *)
(* interval, age limit and attempt length.                                 *)
(***************************************************************************)
EXTENDS SyncDaemon, TLAPS

\* What the safety properties rest on: exactly the holder of the lock is
\* past try_acquire, only it touches the status files, and the age of the
\* status file follows the holder's clock.
LockHeld == \A p \in Procs : proc[p] \in InLock <=> lock = p

TmpComplete == \A p \in Procs : proc[p] = "rename" => tmp \in {"ok", "error"}

ClockBounds ==
    \A p \in Procs :
        /\ proc[p] = "sleep" => clock[p] <= Poll
        /\ proc[p] = "sync" => clock[p] <= MaxSync

AgeFollows ==
    text # "none" /\ ~ lost =>
        /\ lock # NoProc
        /\ proc[lock] = "sleep" => age <= clock[lock]
        /\ proc[lock] = "sync" => age <= Poll + clock[lock]
        /\ proc[lock] \in Writing => age <= Poll + MaxSync

OkFollows ==
    /\ text = "ok" => sinceOk <= age
    /\ reader = "content" => age <= MaxAge

Files == TmpComplete /\ NeverTorn

IInv == TypeOK /\ LockHeld /\ Files /\ ClockBounds /\ AgeFollows /\ OkFollows

-----------------------------------------------------------------------------
LEMMA InitTypeOK == Init => TypeOK
  <1> SUFFICES ASSUME Init PROVE TypeOK
    OBVIOUS
  <1> USE DEF Init
  <1>1. MaxAge + 1 \in Nat
    BY ConstantsAssumption
  <1> QED
    BY <1>1, ConstantsAssumption DEF TypeOK, Text, InLock, Attempt, Writing

LEMMA NextTypeOK == TypeOK /\ [Next]_vars => TypeOK'
  <1> SUFFICES ASSUME TypeOK, [Next]_vars PROVE TypeOK'
    OBVIOUS
  <1> USE DEF InLock, Attempt, Writing, Text, procVars, fileVars, readerVars,
              history, counters
  <1>0. /\ byHand + 1 \in Nat /\ faults + 1 \in Nat /\ crashes + 1 \in Nat
        /\ age + 1 \in Nat /\ sinceOk + 1 \in Nat
        /\ \A p \in Procs : clock[p] + 1 \in Nat
    <2>1. /\ byHand \in Nat /\ faults \in Nat /\ crashes \in Nat
          /\ age \in Nat /\ sinceOk \in Nat /\ clock \in [Procs -> Nat]
      BY DEF TypeOK
    <2> QED
      BY <2>1
  <1> USE DEF TypeOK
  <1>1. ASSUME NEW p \in Procs, Start(p) PROVE TypeOK'
    BY ZenonT(60), <1>1, <1>0 DEF Start, Goto
  <1>2. ASSUME NEW p \in Procs, Acquire(p) PROVE TypeOK'
    BY ZenonT(60), <1>2, <1>0 DEF Acquire, Enter, Goto
  <1>3. ASSUME NEW p \in Procs, Refused(p) PROVE TypeOK'
    BY ZenonT(60), <1>3, <1>0 DEF Refused, Goto
  <1>4. ASSUME NEW p \in Procs, SyncReturns(p) PROVE TypeOK'
    <2>1. PICK r \in {"ok", "error"} : outcome' = [outcome EXCEPT ![p] = r]
      BY <1>4 DEF SyncReturns
    <2>2. proc' = [proc EXCEPT ![p] = "open"]
      BY <1>4 DEF SyncReturns, Goto
    <2>3. ready' \in BOOLEAN
      BY <1>4 DEF SyncReturns
    <2>4. UNCHANGED <<clock, lock, tmp, text, age, reader, shown, sinceOk, lost,
                      byHand, faults, crashes>>
      BY <1>4 DEF SyncReturns
    <2>5. /\ proc' \in [Procs -> InLock \union {"dead", "start"}]
          /\ outcome' \in [Procs -> {"none", "ok", "error"}]
      BY <2>1, <2>2
    <2>6. \A q \in Procs : proc'[q] \in Writing => outcome'[q] # "none"
      BY <2>1, <2>2
    <2> QED
      BY ZenonT(60), <2>3, <2>4, <2>5, <2>6
  <1>5. ASSUME NEW p \in Procs, OpenTmp(p) PROVE TypeOK'
    BY ZenonT(60), <1>5, <1>0 DEF OpenTmp, Goto
  <1>6. ASSUME NEW p \in Procs, FillTmp(p) PROVE TypeOK'
    BY ZenonT(60), <1>6, <1>0 DEF FillTmp, Goto
  <1>7. ASSUME NEW p \in Procs, Rename(p) PROVE TypeOK'
    BY ZenonT(60), <1>7, <1>0 DEF Rename, Enter, Goto
  <1>8. ASSUME NEW p \in Procs, WriteFails(p) PROVE TypeOK'
    BY ZenonT(60), <1>8, <1>0 DEF WriteFails, Enter, Goto
  <1>9. ASSUME NEW p \in Procs, Wake(p) PROVE TypeOK'
    BY ZenonT(60), <1>9, <1>0 DEF Wake, Enter, Goto
  <1>10. ASSUME NEW p \in Procs, SyncHangs(p) PROVE TypeOK'
    BY ZenonT(60), <1>10, <1>0 DEF SyncHangs, Goto
  <1>11. ASSUME NEW p \in Procs, Killed(p) PROVE TypeOK'
    BY ZenonT(60), <1>11, <1>0 DEF Killed, Enter, Goto
  <1>12. CASE CheckUnit
    BY ZenonT(60), <1>12, <1>0 DEF CheckUnit, Conclude
  <1>13. CASE ReadMeta
    BY ZenonT(60), <1>13, <1>0 DEF ReadMeta, Conclude
  <1>14. CASE ReadContent
    BY ZenonT(60), <1>14, <1>0 DEF ReadContent, Conclude
  <1>15. CASE Tick
    <2>1. clock' \in [Procs -> Nat]
      BY <1>15, <1>0 DEF Tick
    <2>2. age' \in Nat /\ sinceOk' \in Nat
      BY <1>15, <1>0 DEF Tick, Older
    <2>3. UNCHANGED <<proc, outcome, lock, ready, tmp, text, reader, shown, lost,
                      byHand, faults, crashes>>
      BY <1>15 DEF Tick
    <2> QED
      BY ZenonT(60), <2>1, <2>2, <2>3
  <1>16. CASE UNCHANGED vars
    BY ZenonT(60), <1>16 DEF vars
  <1> QED
    BY <1>1, <1>2, <1>3, <1>4, <1>5, <1>6, <1>7, <1>8, <1>9, <1>10, <1>11, <1>12, <1>13, <1>14, <1>15, <1>16
    DEF Next, Step, Look

-----------------------------------------------------------------------------
LEMMA InitIInv == Init => IInv
  <1> SUFFICES ASSUME Init PROVE IInv
    OBVIOUS
  <1>1. TypeOK
    BY InitTypeOK
  <1>2. LockHeld /\ Files
    BY ConstantsAssumption
    DEF Init, LockHeld, Files, TmpComplete, NeverTorn, InLock, Attempt, Writing
  <1>3. ClockBounds /\ AgeFollows /\ OkFollows
    BY ConstantsAssumption DEF Init, ClockBounds, AgeFollows, OkFollows
  <1> QED
    BY <1>1, <1>2, <1>3 DEF IInv

\* The lock: only Acquire takes it, only a kill of its holder frees it.
LEMMA NextLockHeld == TypeOK /\ LockHeld /\ [Next]_vars => LockHeld'
  <1> SUFFICES ASSUME TypeOK, LockHeld, [Next]_vars PROVE LockHeld'
    OBVIOUS
  <1> USE ConstantsAssumption
      DEF TypeOK, LockHeld, InLock, Attempt, Writing, procVars
  <1>1. ASSUME NEW p \in Procs, Start(p) PROVE LockHeld'
    BY <1>1 DEF Start, Goto
  <1>2. ASSUME NEW p \in Procs, Acquire(p) PROVE LockHeld'
    BY <1>2 DEF Acquire, Enter, Goto
  <1>3. ASSUME NEW p \in Procs, Refused(p) PROVE LockHeld'
    BY <1>3 DEF Refused, Goto
  <1>4. ASSUME NEW p \in Procs, SyncReturns(p) PROVE LockHeld'
    BY <1>4 DEF SyncReturns, Goto
  <1>5. ASSUME NEW p \in Procs, OpenTmp(p) PROVE LockHeld'
    BY <1>5 DEF OpenTmp, Goto
  <1>6. ASSUME NEW p \in Procs, FillTmp(p) PROVE LockHeld'
    BY <1>6 DEF FillTmp, Goto
  <1>7. ASSUME NEW p \in Procs, Rename(p) PROVE LockHeld'
    BY <1>7 DEF Rename, Enter, Goto
  <1>8. ASSUME NEW p \in Procs, WriteFails(p) PROVE LockHeld'
    BY <1>8 DEF WriteFails, Enter, Goto
  <1>9. ASSUME NEW p \in Procs, Wake(p) PROVE LockHeld'
    BY <1>9 DEF Wake, Enter, Goto
  <1>10. ASSUME NEW p \in Procs, SyncHangs(p) PROVE LockHeld'
    BY <1>10 DEF SyncHangs, Goto
  <1>11. ASSUME NEW p \in Procs, Killed(p) PROVE LockHeld'
    BY <1>11 DEF Killed, Enter, Goto
  <1>12. CASE CheckUnit
    BY <1>12 DEF CheckUnit, Conclude
  <1>13. CASE ReadMeta
    BY <1>13 DEF ReadMeta, Conclude
  <1>14. CASE ReadContent
    BY <1>14 DEF ReadContent, Conclude
  <1>15. CASE Tick
    BY <1>15 DEF Tick, Older
  <1>16. CASE UNCHANGED vars
    BY <1>16 DEF vars
  <1> QED
    BY <1>1, <1>2, <1>3, <1>4, <1>5, <1>6, <1>7, <1>8, <1>9, <1>10, <1>11, <1>12, <1>13, <1>14, <1>15, <1>16
    DEF Next, Step, Look

\* The files: the text that is renamed into place is complete, because the
\* only process between truncation and rename is the holder of the lock.
LEMMA NextFiles == TypeOK /\ LockHeld /\ Files /\ [Next]_vars => Files'
  <1> SUFFICES ASSUME TypeOK, LockHeld, Files, [Next]_vars PROVE Files'
    OBVIOUS
  <1> USE DEF TypeOK, LockHeld, Files, TmpComplete, NeverTorn, InLock, Attempt,
              Writing, procVars, fileVars
  <1>1. ASSUME NEW p \in Procs, Start(p) PROVE Files'
    BY <1>1 DEF Start, Goto
  <1>2. ASSUME NEW p \in Procs, Acquire(p) PROVE Files'
    BY <1>2 DEF Acquire, Enter, Goto
  <1>3. ASSUME NEW p \in Procs, Refused(p) PROVE Files'
    BY <1>3 DEF Refused, Goto
  <1>4. ASSUME NEW p \in Procs, SyncReturns(p) PROVE Files'
    BY <1>4 DEF SyncReturns, Goto
  <1>5. ASSUME NEW p \in Procs, OpenTmp(p) PROVE Files'
    BY <1>5 DEF OpenTmp, Goto
  <1>6. ASSUME NEW p \in Procs, FillTmp(p) PROVE Files'
    BY <1>6 DEF FillTmp, Goto
  <1>7. ASSUME NEW p \in Procs, Rename(p) PROVE Files'
    BY <1>7 DEF Rename, Enter, Goto
  <1>8. ASSUME NEW p \in Procs, WriteFails(p) PROVE Files'
    BY <1>8 DEF WriteFails, Enter, Goto
  <1>9. ASSUME NEW p \in Procs, Wake(p) PROVE Files'
    BY <1>9 DEF Wake, Enter, Goto
  <1>10. ASSUME NEW p \in Procs, SyncHangs(p) PROVE Files'
    BY <1>10 DEF SyncHangs, Goto
  <1>11. ASSUME NEW p \in Procs, Killed(p) PROVE Files'
    BY <1>11 DEF Killed, Enter, Goto
  <1>12. CASE CheckUnit
    BY <1>12 DEF CheckUnit, Conclude
  <1>13. CASE ReadMeta
    BY <1>13 DEF ReadMeta, Conclude
  <1>14. CASE ReadContent
    BY <1>14 DEF ReadContent, Conclude
  <1>15. CASE Tick
    BY <1>15 DEF Tick, Older
  <1>16. CASE UNCHANGED vars
    BY <1>16 DEF vars
  <1> QED
    BY <1>1, <1>2, <1>3, <1>4, <1>5, <1>6, <1>7, <1>8, <1>9, <1>10, <1>11, <1>12, <1>13, <1>14, <1>15, <1>16
    DEF Next, Step, Look

LEMMA NextClockBounds == TypeOK /\ ClockBounds /\ [Next]_vars => ClockBounds'
  <1> SUFFICES ASSUME TypeOK, ClockBounds, [Next]_vars PROVE ClockBounds'
    OBVIOUS
  <1>0. /\ Poll \in Nat /\ MaxSync \in Nat /\ 0 <= Poll /\ 0 <= MaxSync
        /\ proc \in [Procs -> {"sync", "hung", "open", "fill", "rename",
                               "sleep", "dead", "start"}]
        /\ clock \in [Procs -> Nat]
    <2>1. /\ Poll \in Nat /\ MaxSync \in Nat
          /\ \A n \in Nat : 0 <= n
      BY ConstantsAssumption
    <2> QED
      BY <2>1 DEF TypeOK, InLock, Attempt, Writing
  <1> USE DEF ClockBounds, Writing, procVars
  <1>1. ASSUME NEW p \in Procs, Start(p) PROVE ClockBounds'
    BY <1>1, <1>0 DEF Start, Goto
  <1>2. ASSUME NEW p \in Procs, Acquire(p) PROVE ClockBounds'
    BY <1>2, <1>0 DEF Acquire, Enter, Goto
  <1>3. ASSUME NEW p \in Procs, Refused(p) PROVE ClockBounds'
    BY <1>3, <1>0 DEF Refused, Goto
  <1>4. ASSUME NEW p \in Procs, SyncReturns(p) PROVE ClockBounds'
    BY <1>4, <1>0 DEF SyncReturns, Goto
  <1>5. ASSUME NEW p \in Procs, OpenTmp(p) PROVE ClockBounds'
    BY <1>5, <1>0 DEF OpenTmp, Goto
  <1>6. ASSUME NEW p \in Procs, FillTmp(p) PROVE ClockBounds'
    BY <1>6, <1>0 DEF FillTmp, Goto
  <1>7. ASSUME NEW p \in Procs, Rename(p) PROVE ClockBounds'
    BY <1>7, <1>0 DEF Rename, Enter, Goto
  <1>8. ASSUME NEW p \in Procs, WriteFails(p) PROVE ClockBounds'
    BY <1>8, <1>0 DEF WriteFails, Enter, Goto
  <1>9. ASSUME NEW p \in Procs, Wake(p) PROVE ClockBounds'
    BY <1>9, <1>0 DEF Wake, Enter, Goto
  <1>10. ASSUME NEW p \in Procs, SyncHangs(p) PROVE ClockBounds'
    BY <1>10, <1>0 DEF SyncHangs, Goto
  <1>11. ASSUME NEW p \in Procs, Killed(p) PROVE ClockBounds'
    BY <1>11, <1>0 DEF Killed, Enter, Goto
  <1>12. CASE CheckUnit
    BY <1>12, <1>0 DEF CheckUnit, Conclude
  <1>13. CASE ReadMeta
    BY <1>13, <1>0 DEF ReadMeta, Conclude
  <1>14. CASE ReadContent
    BY <1>14, <1>0 DEF ReadContent, Conclude
  <1>15. CASE Tick
    BY <1>15, <1>0 DEF Tick, Older
  <1>16. CASE UNCHANGED vars
    BY <1>16 DEF vars
  <1> QED
    BY <1>1, <1>2, <1>3, <1>4, <1>5, <1>6, <1>7, <1>8, <1>9, <1>10, <1>11, <1>12, <1>13, <1>14, <1>15, <1>16
    DEF Next, Step, Look

\* The age of the status file never outruns its writer's sleep and attempt.
LEMMA NextAgeFollows ==
    TypeOK /\ LockHeld /\ ClockBounds /\ AgeFollows /\ [Next]_vars => AgeFollows'
  <1> SUFFICES ASSUME TypeOK, LockHeld, ClockBounds, AgeFollows, [Next]_vars
               PROVE  AgeFollows'
    OBVIOUS
  <1>0. /\ Poll \in Nat /\ MaxSync \in Nat /\ NoProc \notin Procs
        /\ proc \in [Procs -> {"sync", "hung", "open", "fill", "rename",
                               "sleep", "dead", "start"}]
        /\ clock \in [Procs -> Nat] /\ age \in Nat /\ MaxAge \in Nat
        /\ lock \in Procs \union {NoProc} /\ lost \in BOOLEAN
    BY ConstantsAssumption DEF TypeOK, InLock, Attempt, Writing
  <1> USE DEF LockHeld, ClockBounds, AgeFollows, InLock, Attempt, Writing,
              procVars, fileVars, history
  <1>1. ASSUME NEW p \in Procs, Start(p) PROVE AgeFollows'
    BY <1>1, <1>0 DEF Start, Goto
  <1>2. ASSUME NEW p \in Procs, Acquire(p) PROVE AgeFollows'
    BY <1>2, <1>0 DEF Acquire, Enter, Goto
  <1>3. ASSUME NEW p \in Procs, Refused(p) PROVE AgeFollows'
    BY <1>3, <1>0 DEF Refused, Goto
  <1>4. ASSUME NEW p \in Procs, SyncReturns(p) PROVE AgeFollows'
    BY <1>4, <1>0 DEF SyncReturns, Goto
  <1>5. ASSUME NEW p \in Procs, OpenTmp(p) PROVE AgeFollows'
    BY <1>5, <1>0 DEF OpenTmp, Goto
  <1>6. ASSUME NEW p \in Procs, FillTmp(p) PROVE AgeFollows'
    BY <1>6, <1>0 DEF FillTmp, Goto
  <1>7. ASSUME NEW p \in Procs, Rename(p) PROVE AgeFollows'
    BY <1>7, <1>0 DEF Rename, Enter, Goto
  <1>8. ASSUME NEW p \in Procs, WriteFails(p) PROVE AgeFollows'
    BY <1>8, <1>0 DEF WriteFails, Enter, Goto
  <1>9. ASSUME NEW p \in Procs, Wake(p) PROVE AgeFollows'
    BY <1>9, <1>0 DEF Wake, Enter, Goto
  <1>10. ASSUME NEW p \in Procs, SyncHangs(p) PROVE AgeFollows'
    BY <1>10, <1>0 DEF SyncHangs, Goto
  <1>11. ASSUME NEW p \in Procs, Killed(p) PROVE AgeFollows'
    BY <1>11, <1>0 DEF Killed, Enter, Goto
  <1>12. CASE CheckUnit
    BY <1>12, <1>0 DEF CheckUnit, Conclude
  <1>13. CASE ReadMeta
    BY <1>13, <1>0 DEF ReadMeta, Conclude
  <1>14. CASE ReadContent
    BY <1>14, <1>0 DEF ReadContent, Conclude
  <1>15. CASE Tick
    BY <1>15, <1>0 DEF Tick, Older
  <1>16. CASE UNCHANGED vars
    BY <1>16 DEF vars
  <1> QED
    BY <1>1, <1>2, <1>3, <1>4, <1>5, <1>6, <1>7, <1>8, <1>9, <1>10, <1>11, <1>12, <1>13, <1>14, <1>15, <1>16
    DEF Next, Step, Look

LEMMA NextOkFollows == TypeOK /\ OkFollows /\ [Next]_vars => OkFollows'
  <1> SUFFICES ASSUME TypeOK, OkFollows, [Next]_vars PROVE OkFollows'
    OBVIOUS
  <1>0. MaxAge \in Nat /\ age \in Nat /\ sinceOk \in Nat
    BY ConstantsAssumption DEF TypeOK
  <1> USE DEF OkFollows, fileVars, readerVars, history
  <1>1. ASSUME NEW p \in Procs, Start(p) PROVE OkFollows'
    BY <1>1, <1>0 DEF Start, Goto
  <1>2. ASSUME NEW p \in Procs, Acquire(p) PROVE OkFollows'
    BY <1>2, <1>0 DEF Acquire, Enter, Goto
  <1>3. ASSUME NEW p \in Procs, Refused(p) PROVE OkFollows'
    BY <1>3, <1>0 DEF Refused, Goto
  <1>4. ASSUME NEW p \in Procs, SyncReturns(p) PROVE OkFollows'
    BY <1>4, <1>0 DEF SyncReturns, Goto
  <1>5. ASSUME NEW p \in Procs, OpenTmp(p) PROVE OkFollows'
    BY <1>5, <1>0 DEF OpenTmp, Goto
  <1>6. ASSUME NEW p \in Procs, FillTmp(p) PROVE OkFollows'
    BY <1>6, <1>0 DEF FillTmp, Goto
  <1>7. ASSUME NEW p \in Procs, Rename(p) PROVE OkFollows'
    BY <1>7, <1>0 DEF Rename, Enter, Goto
  <1>8. ASSUME NEW p \in Procs, WriteFails(p) PROVE OkFollows'
    BY <1>8, <1>0 DEF WriteFails, Enter, Goto
  <1>9. ASSUME NEW p \in Procs, Wake(p) PROVE OkFollows'
    BY <1>9, <1>0 DEF Wake, Enter, Goto
  <1>10. ASSUME NEW p \in Procs, SyncHangs(p) PROVE OkFollows'
    BY <1>10, <1>0 DEF SyncHangs, Goto
  <1>11. ASSUME NEW p \in Procs, Killed(p) PROVE OkFollows'
    BY <1>11, <1>0 DEF Killed, Enter, Goto
  <1>12. CASE CheckUnit
    BY <1>12, <1>0 DEF CheckUnit, Conclude
  <1>13. CASE ReadMeta
    BY <1>13, <1>0 DEF ReadMeta, Conclude
  <1>14. CASE ReadContent
    BY <1>14, <1>0 DEF ReadContent, Conclude
  <1>15. CASE Tick
    BY <1>15, <1>0 DEF Tick, Older
  <1>16. CASE UNCHANGED vars
    BY <1>16 DEF vars
  <1> QED
    BY <1>1, <1>2, <1>3, <1>4, <1>5, <1>6, <1>7, <1>8, <1>9, <1>10, <1>11, <1>12, <1>13, <1>14, <1>15, <1>16
    DEF Next, Step, Look

LEMMA NextIInv == IInv /\ [Next]_vars => IInv'
  BY NextTypeOK, NextLockHeld, NextFiles, NextClockBounds, NextAgeFollows,
     NextOkFollows DEF IInv

-----------------------------------------------------------------------------
\* Every variable keeps its type, in every behaviour.
THEOREM TypeCorrect == Spec => []TypeOK
  <1>1. TypeOK /\ UNCHANGED vars => TypeOK'
    BY NextTypeOK
  <1> QED
    BY InitTypeOK, NextTypeOK, PTL DEF Spec

\* The strengthened invariant the safety properties follow from.
THEOREM Invariance == Spec => []IInv
  BY InitIInv, NextIInv, PTL DEF Spec

\* However many instances are started, killed and restarted, two are never
\* past try_acquire together.
THEOREM OneInstance == Spec => []MutualExclusion
  <1>1. IInv => MutualExclusion
    BY DEF IInv, LockHeld, MutualExclusion
  <1> QED
    BY Invariance, <1>1, PTL

\* The status file is never seen between its truncation and its write.
THEOREM WholeLines == Spec => []NeverTorn
  <1>1. IInv => NeverTorn
    BY DEF IInv, Files
  <1> QED
    BY Invariance, <1>1, PTL

\* If the longest attempt and one poll interval fit into MAX_STATUS_AGE, a
\* stale status means a lost report or an attempt that hangs.
THEOREM NoFalseStale ==
    ASSUME Poll + MaxSync <= MaxAge
    PROVE  Spec => []StaleIsReal
  <1>1. IInv => StaleIsReal
    <2> SUFFICES ASSUME IInv, text # "none", age > MaxAge, ~ lost,
                        \A p \in Procs : proc[p] # "hung"
                 PROVE  FALSE
      BY DEF StaleIsReal
    <2>1. /\ lock \in Procs /\ proc[lock] \in InLock
          /\ age \in Nat /\ clock[lock] \in Nat
      BY DEF IInv, TypeOK, LockHeld, AgeFollows
    <2>2. Poll \in Nat /\ MaxSync \in Nat /\ MaxAge \in Nat
      BY ConstantsAssumption
    <2>3. CASE proc[lock] = "sleep"
      <3>1. age <= clock[lock] /\ clock[lock] <= Poll
        BY <2>1, <2>3 DEF IInv, AgeFollows, ClockBounds
      <3> QED
        BY <3>1, <2>1, <2>2
    <2>4. CASE proc[lock] = "sync"
      <3>1. age <= Poll + clock[lock] /\ clock[lock] <= MaxSync
        BY <2>1, <2>4 DEF IInv, AgeFollows, ClockBounds
      <3> QED
        BY <3>1, <2>1, <2>2
    <2>5. CASE proc[lock] \in Writing
      <3>1. age <= Poll + MaxSync
        BY <2>5 DEF IInv, AgeFollows
      <3> QED
        BY <3>1, <2>1, <2>2
    <2> QED
      BY <2>1, <2>3, <2>4, <2>5 DEF InLock, Attempt
  <1> QED
    BY Invariance, <1>1, PTL

\* Whatever renames, kills and sleeps fall between the reader's looks, it
\* says ok only when a success was reported within MAX_STATUS_AGE.
THEOREM RecentOk == Spec => OkIsRecent
  <1>1. IInv /\ [Next]_vars =>
           [reader = "content" /\ reader' = "away" /\ shown' = "ok"
              => sinceOk <= MaxAge]_vars
    <2> SUFFICES ASSUME IInv, [Next]_vars, reader = "content",
                        reader' = "away", shown' = "ok"
                 PROVE  sinceOk <= MaxAge
      OBVIOUS
    <2>1. MaxAge \in Nat /\ age \in Nat /\ sinceOk \in Nat /\ age <= MaxAge
      BY ConstantsAssumption DEF IInv, TypeOK, OkFollows
    <2>2. ReadContent
      BY DEF Next, Step, Look, vars, readerVars, Start, Acquire, Refused,
             SyncReturns, SyncHangs, OpenTmp, FillTmp, Rename, WriteFails, Wake,
             Killed, CheckUnit, ReadMeta, Tick
    <2>3. text = "ok"
      BY <2>2 DEF ReadContent, Conclude
    <2> QED
      BY <2>1, <2>3 DEF IInv, OkFollows
  <1> QED
    BY Invariance, <1>1, PTL DEF Spec, OkIsRecent

=============================================================================
