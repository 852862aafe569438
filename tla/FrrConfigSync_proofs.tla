------------------------ MODULE FrrConfigSync_proofs ------------------------
(***************************************************************************)
(* Machine-checked proofs about FrrConfigSync, for every set of files,     *)
(* contents and generations and for every bound on swaps, faults and       *)
(* crashes.                                                                *)
(***************************************************************************)
EXTENDS FrrConfigSync, TLAPS

USE ConstantsAssumption DEF ConstantsAssumption, Conf, Daemons

-----------------------------------------------------------------------------
(***************************************************************************)
(* The inductive invariant behind OnlyValidated and OnlyOffered.  A file   *)
(* that rsync installs comes out of the staging directory, so what is      *)
(* said of /etc/frr must first be said of the staged copy, at the step of  *)
(* the tick from which on it holds.                                        *)
(***************************************************************************)
SourceOffered == src # NoMount => Offers(src) \subseteq offered

StagedValid ==
    pc \in {"chown", "rsync"} => stage[Conf] \in ValidConf \union {None}

StagedOffered ==
    /\ pc \in {"idle", "list"} => stage = Nothing
    /\ pc = "stage" => \A f \in Files \ todo : <<f, stage[f]>> \in offered
    /\ pc \in {"chown", "rsync"} => \A f \in Files : <<f, stage[f]>> \in offered

IInv ==
    /\ TypeOK
    /\ OnlyValidated
    /\ OnlyOffered
    /\ SourceOffered
    /\ StagedValid
    /\ StagedOffered

\* The states a behaviour may start in satisfy the type invariant.
LEMMA InitTypeOK == Init => TypeOK
  <1> SUFFICES ASSUME Init PROVE TypeOK
    OBVIOUS
  <1>1. Nothing \in Table /\ ImageConfig \in Table
    BY DEF Nothing, Table
  <1>2. Started(ImageConfig) \in LiveState
    BY <1>1 DEF Started, LiveState, Table
  <1>3. offered \in SUBSET (Files \X (Content \union {None}))
    BY DEF Init, Offers, Table
  <1> QED
    BY <1>1, <1>2, <1>3 DEF Init, TypeOK

\* Every step of the daemon and of its environment preserves types.
LEMMA NextTypeOK == TypeOK /\ [Next]_vars => TypeOK'
  <1> SUFFICES ASSUME TypeOK, [Next]_vars PROVE TypeOK'
    OBVIOUS
  <1> USE DEF TypeOK
  <1>a. Nothing \in Table
    BY DEF Nothing, Table
  <1>b. Started(dst) \in LiveState
    BY DEF Started, LiveState, Table
  <1>c. swaps + 1 \in Nat /\ faults + 1 \in Nat /\ crashes + 1 \in Nat
    OBVIOUS
  <1>1. CASE EmptySource
    BY <1>1, <1>a DEF EmptySource, Finish, ResetTick, envVars
  <1>2. CASE Begin
    BY <1>2 DEF Begin, Goto, FilesEqual, envVars
  <1>3. CASE ListNames
    BY <1>3 DEF ListNames, Goto, Present, envVars
  <1>4. ASSUME NEW f \in Files, StageFile(f) PROVE TypeOK'
    <2>1. src \in Table
      BY <1>4 DEF StageFile
    <2> QED
      BY <1>4, <2>1 DEF StageFile, Table, envVars
  <1>5. ASSUME NEW f \in Files, StageVanished(f) PROVE TypeOK'
    BY <1>5, <1>a DEF StageVanished, Finish, ResetTick, envVars
  <1>6. ASSUME NEW f \in Files, RsyncFile(f) PROVE TypeOK'
    BY <1>6 DEF RsyncFile, Table, envVars
  <1>7. CASE ValidateOk
    BY <1>7 DEF ValidateOk, Goto, tickVars, envVars
  <1>8. CASE ValidateRejects
    BY <1>8, <1>a DEF ValidateRejects, Finish, ResetTick, envVars
  <1>9. CASE ChownChmod
    BY <1>9 DEF ChownChmod, Goto, envVars
  <1>10. CASE ToolFails
    BY <1>10, <1>a, <1>c DEF ToolFails, Fault, Finish, ResetTick, envVars
  <1>11. CASE NoChanges
    BY <1>11, <1>a DEF NoChanges, Finish, ResetTick, envVars
  <1>12. CASE DecideRestart
    BY <1>12 DEF DecideRestart, Goto, tickVars, envVars
  <1>13. CASE DecideReload
    BY <1>13 DEF DecideReload, Goto, tickVars, envVars
  <1>14. CASE ReloadOk
    BY <1>14, <1>a DEF ReloadOk, Finish, ResetTick, envVars, LiveState, Table
  <1>15. CASE ReloadFails
    <2>1. live' \in LiveState /\ faults' \in Nat /\ sound' \in BOOLEAN
      <3>1. CASE UNCHANGED <<live, sound, faults>>
        BY <3>1
      <3>2. CASE Fault /\ live' \in {live, [live EXCEPT !.conf = Torn]}
        BY <3>2, <1>c DEF Fault, LiveState
      <3> QED
        BY <1>15, <3>1, <3>2 DEF ReloadFails
    <2> QED
      BY <1>15, <2>1 DEF ReloadFails, Goto, tickVars, envVars
  <1>16. CASE ActivationNotSpawned
    BY <1>16, <1>a, <1>c DEF ActivationNotSpawned, Fault, Finish, ResetTick, envVars
  <1>17. CASE RestartOk
    BY <1>17, <1>a, <1>b DEF RestartOk, Finish, ResetTick, envVars
  <1>18. CASE RestartFails
    BY <1>18, <1>a, <1>c DEF RestartFails, Fault, Finish, ResetTick, envVars, LiveState
  <1>19. CASE Publish
    <2>1. PICK g \in Generations : src' = g /\ offered' = offered \union Offers(g)
      BY <1>19 DEF Publish
    <2>2. Offers(g) \subseteq Files \X (Content \union {None})
      BY DEF Offers, Table
    <2>3. src' # NoMount
      BY <2>1
    <2> QED
      BY <1>19, <1>c, <2>1, <2>2, <2>3 DEF Publish, tickVars
  <1>20. CASE Killed
    BY <1>20, <1>a, <1>c DEF Killed, ResetTick
  <1>21. CASE Reboot
    BY <1>21, <1>a, <1>b, <1>c DEF Reboot, ResetTick
  <1>22. CASE NetworkReload
    BY <1>22 DEF NetworkReload, LiveState, Table, tickVars
  <1>23. CASE FrrStarts
    BY <1>23, <1>b DEF FrrStarts, tickVars
  <1>24. CASE UNCHANGED vars
    BY <1>24 DEF vars, tickVars
  <1> QED
    BY <1>1, <1>2, <1>3, <1>4, <1>5, <1>6, <1>7, <1>8, <1>9, <1>10, <1>11,
       <1>12, <1>13, <1>14, <1>15, <1>16, <1>17, <1>18, <1>19, <1>20, <1>21,
       <1>22, <1>23, <1>24 DEF Next, Daemon, Environment

\* Type correctness of the daemon's state.
THEOREM TypeCorrect == Spec => []TypeOK
  <1> QED
    BY InitTypeOK, NextTypeOK, PTL DEF Spec

-----------------------------------------------------------------------------
\* A behaviour starts inside the inductive invariant.
LEMMA InitIInv == Init => IInv
  <1> SUFFICES ASSUME Init PROVE IInv
    OBVIOUS
  <1>1. TypeOK
    BY InitTypeOK
  <1>2. OnlyValidated /\ OnlyOffered
    BY DEF Init, OnlyValidated, OnlyOffered, Started
  <1>3. SourceOffered /\ StagedValid /\ StagedOffered
    BY DEF Init, SourceOffered, StagedValid, StagedOffered
  <1> QED
    BY <1>1, <1>2, <1>3 DEF IInv

\* What holds of the staged copy is kept by every step of the tick.
LEMMA NextStaged ==
    IInv /\ [Next]_vars => (SourceOffered /\ StagedValid /\ StagedOffered)'
  <1> SUFFICES ASSUME IInv, [Next]_vars
               PROVE  (SourceOffered /\ StagedValid /\ StagedOffered)'
    OBVIOUS
  <1>a. TypeOK'
    BY NextTypeOK DEF IInv
  <1> USE DEF IInv, TypeOK, SourceOffered, StagedValid, StagedOffered
  <1>1. CASE EmptySource
    BY <1>1 DEF EmptySource, Finish, ResetTick, envVars
  <1>2. CASE Begin
    <2>1. stage = Nothing
      BY <1>2 DEF Begin
    <2> QED
      BY <1>2, <2>1 DEF Begin, Goto, envVars
  <1>3. CASE ListNames
    <2>1. \A f \in Files \ todo' : <<f, stage'[f]>> \in offered
      BY <1>3 DEF ListNames, Present, Offers, Nothing, envVars
    <2> QED
      BY <1>3, <2>1 DEF ListNames, Goto, envVars
  <1>4. ASSUME NEW f \in Files, StageFile(f)
        PROVE  (SourceOffered /\ StagedValid /\ StagedOffered)'
    <2>1. <<f, src[f]>> \in offered
      BY <1>4 DEF StageFile, Offers
    <2>2. \A g \in Files \ todo' : <<g, stage'[g]>> \in offered
      BY <1>4, <2>1 DEF StageFile, Table
    <2> QED
      BY <1>4, <2>2 DEF StageFile, envVars
  <1>5. ASSUME NEW f \in Files, StageVanished(f)
        PROVE  (SourceOffered /\ StagedValid /\ StagedOffered)'
    BY <1>5 DEF StageVanished, Finish, ResetTick, envVars
  <1>6. ASSUME NEW f \in Files, RsyncFile(f)
        PROVE  (SourceOffered /\ StagedValid /\ StagedOffered)'
    BY <1>6 DEF RsyncFile, envVars
  <1>7. CASE ValidateOk
    BY <1>7 DEF ValidateOk, Goto, tickVars, envVars
  <1>8. CASE ValidateRejects
    BY <1>8 DEF ValidateRejects, Finish, ResetTick, envVars
  <1>9. CASE ChownChmod
    BY <1>9 DEF ChownChmod, Goto, envVars
  <1>10. CASE ToolFails
    BY <1>10 DEF ToolFails, Finish, ResetTick, envVars
  <1>11. CASE NoChanges
    BY <1>11 DEF NoChanges, Finish, ResetTick, envVars
  <1>12. CASE DecideRestart
    BY <1>12 DEF DecideRestart, Goto, tickVars, envVars
  <1>13. CASE DecideReload
    BY <1>13 DEF DecideReload, Goto, tickVars, envVars
  <1>14. CASE ReloadOk
    BY <1>14 DEF ReloadOk, Finish, ResetTick, envVars
  <1>15. CASE ReloadFails
    BY <1>15 DEF ReloadFails, Goto, tickVars, envVars
  <1>16. CASE ActivationNotSpawned
    BY <1>16 DEF ActivationNotSpawned, Finish, ResetTick, envVars
  <1>17. CASE RestartOk
    BY <1>17 DEF RestartOk, Finish, ResetTick, envVars
  <1>18. CASE RestartFails
    BY <1>18 DEF RestartFails, Finish, ResetTick, envVars
  <1>19. CASE Publish
    <2>1. PICK g \in Generations : src' = g /\ offered' = offered \union Offers(g)
      BY <1>19 DEF Publish
    <2> QED
      BY <1>19, <2>1 DEF Publish, tickVars
  <1>20. CASE Killed
    BY <1>20 DEF Killed, ResetTick
  <1>21. CASE Reboot
    BY <1>21 DEF Reboot, ResetTick
  <1>22. CASE NetworkReload
    BY <1>22 DEF NetworkReload, tickVars
  <1>23. CASE FrrStarts
    BY <1>23 DEF FrrStarts, tickVars
  <1>24. CASE UNCHANGED vars
    BY <1>24 DEF vars, tickVars
  <1> QED
    BY <1>1, <1>2, <1>3, <1>4, <1>5, <1>6, <1>7, <1>8, <1>9, <1>10, <1>11,
       <1>12, <1>13, <1>14, <1>15, <1>16, <1>17, <1>18, <1>19, <1>20, <1>21,
       <1>22, <1>23, <1>24 DEF Next, Daemon, Environment

\* The only step that writes /etc/frr writes a staged file; the steps that
\* change what FRR runs load it from /etc/frr, tear it or leave it.
LEMMA NextInstalled ==
    IInv /\ [Next]_vars =>
        \/ /\ UNCHANGED live
           /\ \E f \in Files : /\ pc = "rsync"
                              /\ dst' = [dst EXCEPT ![f] = stage[f]]
                              /\ UNCHANGED offered
        \/ /\ UNCHANGED <<dst, offered>>
           /\ \/ UNCHANGED live
              \/ live' = Started(dst)
              \/ Reloadable /\ live' = [live EXCEPT !.conf = dst[Conf]]
              \/ live' = [live EXCEPT !.conf = Torn]
              \/ live' = [live EXCEPT !.up = FALSE]
        \/ /\ UNCHANGED <<dst, live>>
           /\ \E g \in Generations : offered' = offered \union Offers(g)
  <1> SUFFICES ASSUME IInv, Next
               PROVE  \/ /\ UNCHANGED live
                         /\ \E f \in Files :
                               /\ pc = "rsync"
                               /\ dst' = [dst EXCEPT ![f] = stage[f]]
                               /\ UNCHANGED offered
                      \/ /\ UNCHANGED <<dst, offered>>
                         /\ \/ UNCHANGED live
                            \/ live' = Started(dst)
                            \/ /\ Reloadable
                               /\ live' = [live EXCEPT !.conf = dst[Conf]]
                            \/ live' = [live EXCEPT !.conf = Torn]
                            \/ live' = [live EXCEPT !.up = FALSE]
                      \/ /\ UNCHANGED <<dst, live>>
                         /\ \E g \in Generations :
                               offered' = offered \union Offers(g)
    BY DEF vars
  <1> USE DEF envVars
  <1>1. CASE EmptySource \/ Begin \/ ListNames \/ ValidateOk \/ ValidateRejects
    BY <1>1 DEF EmptySource, Begin, ListNames, ValidateOk, ValidateRejects
  <1>2. CASE ChownChmod \/ ToolFails \/ NoChanges \/ DecideRestart \/ DecideReload
    BY <1>2 DEF ChownChmod, ToolFails, NoChanges, DecideRestart, DecideReload
  <1>3. CASE \E f \in Files : StageFile(f) \/ StageVanished(f) \/ RsyncFile(f)
    BY <1>3 DEF StageFile, StageVanished, RsyncFile
  <1>4. CASE ReloadOk \/ ReloadFails \/ ActivationNotSpawned
    BY <1>4 DEF ReloadOk, ReloadFails, ActivationNotSpawned
  <1>5. CASE RestartOk \/ RestartFails
    BY <1>5 DEF RestartOk, RestartFails
  <1>6. CASE Publish
    BY <1>6 DEF Publish
  <1>7. CASE Killed \/ Reboot \/ NetworkReload \/ FrrStarts
    BY <1>7 DEF Killed, Reboot, NetworkReload, FrrStarts
  <1> QED
    BY <1>1, <1>2, <1>3, <1>4, <1>5, <1>6, <1>7 DEF Next, Daemon, Environment

\* One step keeps the whole inductive invariant.
LEMMA NextIInv == IInv /\ [Next]_vars => IInv'
  <1> SUFFICES ASSUME IInv, [Next]_vars PROVE IInv'
    OBVIOUS
  <1>1. TypeOK'
    BY NextTypeOK DEF IInv
  <1>2. (SourceOffered /\ StagedValid /\ StagedOffered)'
    BY NextStaged
  <1>3. (OnlyValidated /\ OnlyOffered)'
    <2> USE DEF IInv, OnlyValidated, OnlyOffered, TypeOK
    <2>1. CASE /\ UNCHANGED <<live, offered>>
               /\ \E f \in Files : pc = "rsync" /\ dst' = [dst EXCEPT ![f] = stage[f]]
      <3>1. PICK f \in Files : pc = "rsync" /\ dst' = [dst EXCEPT ![f] = stage[f]]
        BY <2>1
      <3>2. <<f, stage[f]>> \in offered
        BY <3>1 DEF StagedOffered
      <3>3. f = Conf => stage[f] \in ValidConf \union {None}
        BY <3>1 DEF StagedValid
      <3>4. \A g \in Files : dst'[g] = IF g = f THEN stage[f] ELSE dst[g]
        BY <3>1 DEF Table
      <3> QED
        BY <2>1, <3>2, <3>3, <3>4
    <2>2. CASE UNCHANGED <<dst, offered>>
      BY <2>2, NextInstalled DEF Started, LiveState
    <2>3. CASE /\ UNCHANGED <<dst, live>>
               /\ \E g \in Generations : offered' = offered \union Offers(g)
      BY <2>3
    <2> QED
      BY <2>1, <2>2, <2>3, NextInstalled
  <1> QED
    BY <1>1, <1>2, <1>3 DEF IInv

\* The invariant of every behaviour.
THEOREM Invariance == Spec => []IInv
  <1> QED
    BY InitIInv, NextIInv, PTL DEF Spec

\* Neither /etc/frr nor FRR ever holds a configuration vtysh rejects.
THEOREM OnlyValidatedConfig == Spec => []OnlyValidated
  <1>1. IInv => OnlyValidated
    BY DEF IInv
  <1> QED
    BY <1>1, Invariance, PTL

\* Torn staging never installs what no generation held.
THEOREM OnlyOfferedFiles == Spec => []OnlyOffered
  <1>1. IInv => OnlyOffered
    BY DEF IInv
  <1> QED
    BY <1>1, Invariance, PTL

-----------------------------------------------------------------------------
(***************************************************************************)
(* The daemon implements InstalledConfig: the initial states map to        *)
(* initial states and every step maps to an abstract step or a stutter.    *)
(***************************************************************************)
LEMMA InitAbstract == Init => Abstract!Init
  <1> SUFFICES ASSUME Init PROVE Abstract!Init
    OBVIOUS
  <1>1. TypeOK
    BY InitTypeOK
  <1> QED
    BY <1>1 DEF Init, TypeOK, Abstract!Init, Abstract!Entry, Abstract!Booted,
                Started, Table

LEMMA NextAbstract ==
    IInv /\ [Next]_vars => [Abstract!Next]_Abstract!vars
  <1> SUFFICES ASSUME IInv, [Next]_vars
               PROVE  Abstract!Next \/ UNCHANGED <<offered, dst, live>>
    BY DEF Abstract!vars
  <1> USE DEF IInv, TypeOK, Abstract!Next, Abstract!Entry
  <1>1. CASE /\ UNCHANGED <<live, offered>>
             /\ \E f \in Files : pc = "rsync" /\ dst' = [dst EXCEPT ![f] = stage[f]]
    <2>1. PICK f \in Files : pc = "rsync" /\ dst' = [dst EXCEPT ![f] = stage[f]]
      BY <1>1
    <2>2. stage[f] \in Content \union {None} /\ <<f, stage[f]>> \in offered
      BY <2>1 DEF StagedOffered, Table
    <2>3. f = Conf => stage[f] \in ValidConf \union {None}
      BY <2>1 DEF StagedValid
    <2>4. Abstract!Install(f, stage[f])
      BY <1>1, <2>1, <2>2, <2>3 DEF Abstract!Install
    <2> QED
      BY <2>2, <2>4
  <1>2. CASE UNCHANGED <<dst, offered, live>>
    BY <1>2
  <1>3. CASE UNCHANGED <<dst, offered>> /\ live' = Started(dst)
    BY <1>3 DEF Abstract!Start, Abstract!Booted, Started
  <1>4. CASE /\ UNCHANGED <<dst, offered>>
             /\ Reloadable /\ live' = [live EXCEPT !.conf = dst[Conf]]
    BY <1>4 DEF Abstract!Reload, Reloadable
  <1>5. CASE /\ UNCHANGED <<dst, offered>>
             /\ \/ live' = [live EXCEPT !.conf = Torn]
                \/ live' = [live EXCEPT !.up = FALSE]
    BY <1>5 DEF Abstract!Break
  <1>6. CASE /\ UNCHANGED <<dst, live>>
             /\ \E g \in Generations : offered' = offered \union Offers(g)
    <2>1. offered' \subseteq Files \X (Content \union {None})
      BY NextTypeOK
    <2> QED
      BY <1>6, <2>1 DEF Abstract!Offer
  <1> QED
    BY <1>1, <1>2, <1>3, <1>4, <1>5, <1>6, NextInstalled

THEOREM Refinement == Spec => ImplementsInstalledConfig
  <1> QED
    BY InitAbstract, NextAbstract, Invariance, PTL
    DEF Spec, ImplementsInstalledConfig, Abstract!Spec

-----------------------------------------------------------------------------
(***************************************************************************)
(* The gate in front of reload and restart.  During a settled tick the     *)
(* staged copy grows towards the source, which is /etc/frr: rsync cannot   *)
(* find a difference, and the daemons comparison that started the tick     *)
(* cannot either, because the file exists.                                 *)
(***************************************************************************)
SettledInv ==
    /\ pc \in {"idle", "list", "stage", "chown"} => ~ changed
    /\ settled /\ pc # "idle" =>
          /\ pc \notin {"reload", "restart"}
          /\ src = dst
          /\ ~ daemonsChanged
          /\ ~ changed
          /\ pc = "stage" => \A f \in Files \ todo : stage[f] = src[f]
          /\ pc \in {"chown", "rsync"} => stage = src

\* Under the README's precondition on the ConfigMap every step keeps it.
LEMMA NextSettled ==
    ASSUME DaemonsAlwaysOffered
    PROVE  IInv /\ SettledInv /\ [Next]_vars => SettledInv'
  <1> SUFFICES ASSUME IInv, SettledInv, [Next]_vars PROVE SettledInv'
    OBVIOUS
  <1> USE DEF SettledInv, IInv, TypeOK
  <1>1. CASE EmptySource
    BY <1>1 DEF EmptySource, Finish, ResetTick, envVars
  <1>2. CASE Begin
    <2>1. settled' => ~ daemonsChanged'
      BY <1>2 DEF Begin, FilesEqual, DaemonsAlwaysOffered
    <2> QED
      BY <1>2, <2>1 DEF Begin, Goto, envVars
  <1>3. CASE ListNames
    <2>1. \A f \in Files \ todo' : stage'[f] = src[f]
      BY <1>3 DEF ListNames, Present, Nothing, StagedOffered
    <2> QED
      BY <1>3, <2>1 DEF ListNames, Goto, envVars
  <1>4. ASSUME NEW f \in Files, StageFile(f) PROVE SettledInv'
    <2>1. \A g \in Files : stage'[g] = IF g = f THEN src[f] ELSE stage[g]
      BY <1>4 DEF StageFile, Table
    <2> QED
      BY <1>4, <2>1 DEF StageFile, envVars
  <1>5. ASSUME NEW f \in Files, StageVanished(f) PROVE SettledInv'
    BY <1>5 DEF StageVanished, Finish, ResetTick, envVars
  <1>6. ASSUME NEW f \in Files, RsyncFile(f) PROVE SettledInv'
    <2>1. ASSUME settled
          PROVE  stage = dst /\ dst' = dst /\ ~ changed'
      BY <1>6, <2>1 DEF RsyncFile, Table
    <2> QED
      BY <1>6, <2>1 DEF RsyncFile, envVars
  <1>7. CASE ValidateOk
    <2>1. ASSUME settled PROVE stage = src
      <3>1. src \in Table /\ stage \in Table
        BY <1>7 DEF ValidateOk
      <3>2. \A f \in Files : stage[f] = src[f]
        BY <1>7, <2>1 DEF ValidateOk
      <3> QED
        BY <3>1, <3>2 DEF Table
    <2> QED
      BY <1>7, <2>1 DEF ValidateOk, Goto, tickVars, envVars
  <1>8. CASE ValidateRejects
    BY <1>8 DEF ValidateRejects, Finish, ResetTick, envVars
  <1>9. CASE ChownChmod
    BY <1>9 DEF ChownChmod, Goto, envVars
  <1>10. CASE ToolFails
    BY <1>10 DEF ToolFails, Finish, ResetTick, envVars
  <1>11. CASE NoChanges
    BY <1>11 DEF NoChanges, Finish, ResetTick, envVars
  <1>12. CASE DecideRestart
    BY <1>12 DEF DecideRestart, Goto, tickVars, envVars
  <1>13. CASE DecideReload
    BY <1>13 DEF DecideReload, Goto, tickVars, envVars
  <1>14. CASE ReloadOk
    BY <1>14 DEF ReloadOk, Finish, ResetTick, envVars
  <1>15. CASE ReloadFails
    BY <1>15 DEF ReloadFails, Goto, tickVars, envVars
  <1>16. CASE ActivationNotSpawned
    BY <1>16 DEF ActivationNotSpawned, Finish, ResetTick, envVars
  <1>17. CASE RestartOk
    BY <1>17 DEF RestartOk, Finish, ResetTick, envVars
  <1>18. CASE RestartFails
    BY <1>18 DEF RestartFails, Finish, ResetTick, envVars
  <1>19. CASE Publish
    BY <1>19 DEF Publish, tickVars
  <1>20. CASE Killed
    BY <1>20 DEF Killed, ResetTick
  <1>21. CASE Reboot
    BY <1>21 DEF Reboot, ResetTick
  <1>22. CASE NetworkReload
    BY <1>22 DEF NetworkReload, tickVars
  <1>23. CASE FrrStarts
    BY <1>23 DEF FrrStarts, tickVars
  <1>24. CASE UNCHANGED vars
    BY <1>24 DEF vars, tickVars
  <1> QED
    BY <1>1, <1>2, <1>3, <1>4, <1>5, <1>6, <1>7, <1>8, <1>9, <1>10, <1>11,
       <1>12, <1>13, <1>14, <1>15, <1>16, <1>17, <1>18, <1>19, <1>20, <1>21,
       <1>22, <1>23, <1>24 DEF Next, Daemon, Environment

\* While the ConfigMap does not change, FRR is left alone - provided every
\* published generation has a daemons file.
THEOREM QuietTicks ==
    ASSUME DaemonsAlwaysOffered
    PROVE  Spec => []QuietTick
  <1>1. Init => SettledInv
    BY DEF Init, SettledInv
  <1>2. IInv /\ SettledInv /\ [Next]_vars => SettledInv'
    BY NextSettled
  <1>3. SettledInv => QuietTick
    BY DEF SettledInv, QuietTick
  <1> QED
    BY <1>1, <1>2, <1>3, Invariance, PTL DEF Spec

-----------------------------------------------------------------------------
(***************************************************************************)
(* The choice between nothing, reload and restart.  In a sound tick the    *)
(* staged copy is the source that the daemons comparison saw: unless that  *)
(* comparison asks for a restart, rsync leaves the daemons file alone, and *)
(* what rsync reports as changed is all that FRR is behind by.             *)
(***************************************************************************)
SoundInv ==
    /\ pc \in {"idle", "list", "stage", "chown"} => ~ changed
    /\ sound =>
          /\ live.up
          /\ pc \in {"idle", "list", "stage", "chown"} => InSync
          /\ pc \in {"list", "stage", "chown", "rsync"} /\ ~ daemonsChanged =>
                src[Daemons] = dst[Daemons] /\ live.daemons = dst[Daemons]
          /\ pc = "stage" => \A f \in Files \ todo : stage[f] = src[f]
          /\ pc \in {"chown", "rsync"} => stage = src
          /\ pc = "rsync" /\ ~ changed => live.conf = dst[Conf]
          /\ pc = "reload" => live.daemons = dst[Daemons]

\* Every step keeps it.
LEMMA NextSound == IInv /\ SoundInv /\ [Next]_vars => SoundInv'
  <1> SUFFICES ASSUME IInv, SoundInv, [Next]_vars PROVE SoundInv'
    OBVIOUS
  <1> USE DEF SoundInv, IInv, TypeOK, InSync, Started
  <1>1. CASE EmptySource
    BY <1>1 DEF EmptySource, Finish, ResetTick, envVars
  <1>2. CASE Begin
    BY <1>2 DEF Begin, FilesEqual, Goto, envVars
  <1>3. CASE ListNames
    <2>1. \A f \in Files \ todo' : stage'[f] = src[f]
      BY <1>3 DEF ListNames, Present, Nothing, StagedOffered
    <2> QED
      BY <1>3, <2>1 DEF ListNames, Goto, envVars
  <1>4. ASSUME NEW f \in Files, StageFile(f) PROVE SoundInv'
    <2>1. \A g \in Files : stage'[g] = IF g = f THEN src[f] ELSE stage[g]
      BY <1>4 DEF StageFile, Table
    <2> QED
      BY <1>4, <2>1 DEF StageFile, envVars
  <1>5. ASSUME NEW f \in Files, StageVanished(f) PROVE SoundInv'
    BY <1>5 DEF StageVanished, Finish, ResetTick, envVars
  <1>6. ASSUME NEW f \in Files, RsyncFile(f) PROVE SoundInv'
    <2>1. \A g \in Files : dst'[g] = IF g = f THEN stage[f] ELSE dst[g]
      BY <1>6 DEF RsyncFile, Table
    <2>2. ASSUME ~ changed' PROVE dst' = dst /\ ~ changed
      BY <1>6, <2>2 DEF RsyncFile, Table
    <2>3. ASSUME sound, ~ daemonsChanged PROVE dst'[Daemons] = dst[Daemons]
      BY <1>6, <2>1, <2>3 DEF RsyncFile
    <2> QED
      BY <1>6, <2>2, <2>3 DEF RsyncFile, envVars
  <1>7. CASE ValidateOk
    <2>1. ASSUME sound PROVE stage = src
      <3>1. src \in Table /\ stage \in Table
        BY <1>7 DEF ValidateOk
      <3>2. \A f \in Files : stage[f] = src[f]
        BY <1>7, <2>1 DEF ValidateOk
      <3> QED
        BY <3>1, <3>2 DEF Table
    <2> QED
      BY <1>7, <2>1 DEF ValidateOk, Goto, tickVars, envVars
  <1>8. CASE ValidateRejects
    BY <1>8 DEF ValidateRejects, Finish, ResetTick, envVars
  <1>9. CASE ChownChmod
    BY <1>9 DEF ChownChmod, Goto, envVars
  <1>10. CASE ToolFails
    BY <1>10 DEF ToolFails, Fault, Finish, ResetTick, envVars
  <1>11. CASE NoChanges
    BY <1>11 DEF NoChanges, Finish, ResetTick, envVars, LiveState
  <1>12. CASE DecideRestart
    BY <1>12 DEF DecideRestart, Goto, tickVars, envVars
  <1>13. CASE DecideReload
    BY <1>13 DEF DecideReload, Goto, tickVars, envVars
  <1>14. CASE ReloadOk
    BY <1>14 DEF ReloadOk, Finish, ResetTick, envVars, LiveState
  <1>15. CASE ReloadFails
    BY <1>15 DEF ReloadFails, Fault, Goto, tickVars, envVars
  <1>16. CASE ActivationNotSpawned
    BY <1>16 DEF ActivationNotSpawned, Fault, Finish, ResetTick, envVars
  <1>17. CASE RestartOk
    BY <1>17 DEF RestartOk, Finish, ResetTick, envVars
  <1>18. CASE RestartFails
    BY <1>18 DEF RestartFails, Fault, Finish, ResetTick, envVars
  <1>19. CASE Publish
    BY <1>19 DEF Publish, tickVars
  <1>20. CASE Killed
    BY <1>20 DEF Killed, ResetTick
  <1>21. CASE Reboot
    BY <1>21 DEF Reboot, ResetTick
  <1>22. CASE NetworkReload
    <2>1. /\ live'.up = live.up /\ live'.daemons = live.daemons
          /\ live'.conf = dst[Conf]
      BY <1>22 DEF NetworkReload, LiveState
    <2>2. ASSUME InSync PROVE live' = live
      <3>1. live.conf = dst[Conf]
        BY <2>2
      <3>2. live' = [live EXCEPT !.conf = live.conf]
        BY <1>22, <3>1 DEF NetworkReload
      <3>3. live = [up |-> live.up, conf |-> live.conf, daemons |-> live.daemons]
        BY <2>2
      <3> QED
        BY <3>2, <3>3
    <2> QED
      BY <1>22, <2>1, <2>2 DEF NetworkReload, tickVars
  <1>23. CASE FrrStarts
    BY <1>23 DEF FrrStarts, tickVars
  <1>24. CASE UNCHANGED vars
    BY <1>24 DEF vars, tickVars
  <1> QED
    BY <1>1, <1>2, <1>3, <1>4, <1>5, <1>6, <1>7, <1>8, <1>9, <1>10, <1>11,
       <1>12, <1>13, <1>14, <1>15, <1>16, <1>17, <1>18, <1>19, <1>20, <1>21,
       <1>22, <1>23, <1>24 DEF Next, Daemon, Environment

\* Between sound ticks FRR runs what is installed, daemon set included: no
\* change is activated by less than it needs.
THEOREM CompleteActivation == Spec => []ActivationComplete
  <1>1. Init => SoundInv
    BY DEF Init, SoundInv, InSync, Started
  <1>2. IInv /\ SoundInv /\ [Next]_vars => SoundInv'
    BY NextSound
  <1>3. SoundInv => ActivationComplete
    BY DEF SoundInv, ActivationComplete
  <1> QED
    BY <1>1, <1>2, <1>3, Invariance, PTL DEF Spec

=============================================================================
