---------------------------- MODULE FrrConfigSync ----------------------------
(***************************************************************************)
(* The frr-config-sync daemon: every tick mirrors the mounted frr-config   *)
(* ConfigMap into /etc/frr and then leaves FRR alone, reloads it or        *)
(* restarts it (config-sync/src/frr/mod.rs).                               *)
(*                                                                         *)
(* A tick is not atomic.  Kubelet may swap the ConfigMap between any two   *)
(* reads of it, every tool the daemon runs may fail, the daemon may be     *)
(* killed (systemd starts it again) and the guest may reboot.  One action  *)
(* stands for each read of the source, each file copied or installed, and  *)
(* each tool run.                                                          *)
(***************************************************************************)
EXTENDS Naturals

CONSTANTS
    Files,        \* file names a ConfigMap may hold
    Content,      \* contents a file may have
    ValidConf,    \* the contents `vtysh -C` accepts as frr.conf
    Generations,  \* ConfigMap states the operator may publish
    ImageConfig,  \* /etc/frr as the image ships it
    None,         \* "no such file"
    Torn,         \* a running config some lines of which were applied
    NoMount,      \* the source directory without any entry
    MaxSwaps,     \* bound: ConfigMap swaps in a behaviour
    MaxFaults,    \* bound: failed tool runs in a behaviour
    MaxCrashes    \* bound: kills and reboots in a behaviour

Conf    == "frr.conf"
Daemons == "daemons"

Table == [Files -> Content \union {None}]

ASSUME ConstantsAssumption ==
    /\ {Conf, Daemons} \subseteq Files
    /\ ValidConf \subseteq Content
    /\ None \notin Content
    /\ Generations \subseteq Table
    /\ NoMount \notin Table
    /\ ImageConfig \in Table
    /\ ImageConfig[Conf] \in ValidConf \union {None}
    /\ MaxSwaps \in Nat /\ MaxFaults \in Nat /\ MaxCrashes \in Nat

VARIABLES
    src,            \* /run/config/frr: a generation, or NoMount
    dst,            \* /etc/frr
    live,           \* frr.service: up?, its running config, its daemon set
    pc,             \* where the tick is
    daemonsChanged, \* locals of sync_inner
    todo,           \* names read_dir returned that are not copied yet
    stage,          \* /etc/frr.staged.XXXXXX
    unsent,         \* names rsync has not handled yet
    changed,        \* did rsync report a transfer or a deletion?
    result,         \* outcome of the last tick, as run_forever records it
    offered,        \* history: every <<file, content>> ever published
    settled,        \* history: source = /etc/frr for the whole tick so far
    sound,          \* history: since FRR was last started from scratch no
                    \* tool failed, no tick was killed, none saw a swap
    swaps, faults, crashes

tickVars == <<daemonsChanged, todo, stage, unsent, changed>>
envVars  == <<src, offered, swaps, crashes>>
vars     == <<src, dst, live, pc, tickVars, result, offered, settled,
              sound, swaps, faults, crashes>>

Nothing    == [f \in Files |-> None]
Present(t) == {f \in Files : t[f] # None}
Offers(t)  == {<<f, t[f]>> : f \in Files}

\* frr.service started from scratch on the configuration in /etc/frr.
Started(t) == [up |-> TRUE, conf |-> t[Conf], daemons |-> t[Daemons]]

\* files_equal: two unreadable (missing) files are not equal.
FilesEqual(a, b) == a = b /\ a # None

-----------------------------------------------------------------------------
\* Steps shared by the actions below.

Fault ==
    /\ faults < MaxFaults /\ faults' = faults + 1
    /\ sound' = FALSE

ResetTick ==
    /\ daemonsChanged' = FALSE
    /\ todo' = {}
    /\ stage' = Nothing
    /\ unsent' = {}
    /\ changed' = FALSE

\* sync_inner returns: the staging directory is dropped, the result kept.
Finish(r) ==
    /\ pc' = "idle"
    /\ result' = r
    /\ ResetTick

Goto(label) == pc' = label /\ UNCHANGED result

-----------------------------------------------------------------------------
Init ==
    /\ src \in Generations \union {NoMount}
    /\ dst = ImageConfig
    /\ live = Started(ImageConfig)
    /\ pc = "idle"
    /\ daemonsChanged = FALSE /\ todo = {} /\ stage = Nothing
    /\ unsent = {} /\ changed = FALSE
    /\ result = "none"
    /\ offered = IF src = NoMount THEN {} ELSE Offers(src)
    /\ settled = FALSE /\ sound = TRUE
    /\ swaps = 0 /\ faults = 0 /\ crashes = 0

\* The source has no entry at all: the tick is over before it began.
EmptySource ==
    /\ pc = "idle" /\ src = NoMount
    /\ Finish("ok")
    /\ UNCHANGED <<dst, live, envVars, sound, faults>>
    /\ settled' = FALSE

\* Mutant: the tick does not ask whether the source is mounted.
BeginUnasked ==
    /\ pc = "idle"
    /\ daemonsChanged' = (src # NoMount /\ src[Daemons] # dst[Daemons])
    /\ Goto("list")
    /\ settled' = (src = dst)
    /\ UNCHANGED <<dst, live, todo, stage, unsent, changed, envVars, sound, faults>>

\* Mutant: the daemons file is not compared.
BeginNoCompare ==
    /\ pc = "idle" /\ src # NoMount
    /\ Goto("list")
    /\ settled' = (src = dst)
    /\ UNCHANGED <<dst, live, tickVars, envVars, sound, faults>>

\* The tick starts.  daemons_changed is read from the source as it is now,
\* not from the copy that will be staged.
Begin ==
    /\ pc = "idle" /\ src # NoMount
    /\ daemonsChanged' = ~ FilesEqual(src[Daemons], dst[Daemons])
    /\ Goto("list")
    /\ settled' = (src = dst)
    /\ UNCHANGED <<dst, live, todo, stage, unsent, changed, envVars, sound, faults>>

\* read_dir of copy_dir_contents: hidden entries are skipped.
ListNames ==
    /\ pc = "list"
    /\ todo' = Present(src)
    /\ Goto("stage")
    /\ UNCHANGED <<dst, live, daemonsChanged, stage, unsent, changed, envVars,
                   settled, sound, faults>>

\* One fs::copy of copy_dir_contents: the name came from read_dir, the
\* content from whatever generation is mounted now.
StageFile(f) ==
    /\ pc = "stage" /\ f \in todo /\ src[f] # None
    /\ stage' = [stage EXCEPT ![f] = src[f]]
    /\ todo' = todo \ {f}
    /\ UNCHANGED <<dst, live, pc, result, daemonsChanged, unsent, changed,
                   envVars, settled, sound, faults>>

\* A name that a swap removed after read_dir: fs::metadata fails.
StageVanished(f) ==
    /\ pc = "stage" /\ f \in todo /\ src[f] = None
    /\ Finish("error")
    /\ UNCHANGED <<dst, live, envVars, settled, sound, faults>>

\* `vtysh -f <staged> -C`, skipped when no frr.conf was staged.
ValidateOk ==
    /\ pc = "stage" /\ todo = {}
    /\ stage[Conf] \in ValidConf \union {None}
    /\ Goto("chown")
    /\ UNCHANGED <<dst, live, tickVars, envVars, settled, sound, faults>>

\* Mutant: the rejection is logged and the tick goes on.
ValidateWarns ==
    /\ pc = "stage" /\ todo = {}
    /\ stage[Conf] \notin ValidConf \union {None}
    /\ Goto("chown")
    /\ UNCHANGED <<dst, live, tickVars, envVars, settled, sound, faults>>

ValidateRejects ==
    /\ pc = "stage" /\ todo = {}
    /\ stage[Conf] \notin ValidConf \union {None}
    /\ Finish("error")
    /\ UNCHANGED <<dst, live, envVars, settled, sound, faults>>

ChownChmod ==
    /\ pc = "chown"
    /\ Goto("rsync")
    /\ unsent' = Files
    /\ UNCHANGED <<dst, live, daemonsChanged, todo, stage, changed, envVars,
                   settled, sound, faults>>

\* Mutant: rsync without --checksum transfers every staged file.
RsyncByTime(f) ==
    /\ pc = "rsync" /\ f \in unsent
    /\ dst' = [dst EXCEPT ![f] = stage[f]]
    /\ changed' = (changed \/ dst[f] # stage[f] \/ stage[f] # None)
    /\ unsent' = unsent \ {f}
    /\ UNCHANGED <<live, pc, result, daemonsChanged, todo, stage, envVars,
                   settled, sound, faults>>

\* Mutant: rsync without --delete.
RsyncKeeps(f) ==
    /\ pc = "rsync" /\ f \in unsent
    /\ dst' = IF stage[f] = None THEN dst ELSE [dst EXCEPT ![f] = stage[f]]
    /\ changed' = (changed \/ dst[f] # dst'[f])
    /\ unsent' = unsent \ {f}
    /\ UNCHANGED <<live, pc, result, daemonsChanged, todo, stage, envVars,
                   settled, sound, faults>>

\* `rsync --checksum --delete` handles one name: it replaces, creates or
\* deletes the file, or finds the contents equal and reports nothing.
RsyncFile(f) ==
    /\ pc = "rsync" /\ f \in unsent
    /\ dst' = [dst EXCEPT ![f] = stage[f]]
    /\ changed' = (changed \/ dst[f] # stage[f])
    /\ unsent' = unsent \ {f}
    /\ UNCHANGED <<live, pc, result, daemonsChanged, todo, stage, envVars,
                   settled, sound, faults>>

\* Mutant: an error of the staging copy is ignored.
ToolFailsIgnored ==
    /\ pc = "stage"
    /\ Fault
    /\ todo' = {}
    /\ UNCHANGED <<dst, live, pc, result, daemonsChanged, stage, unsent, changed,
                   envVars, settled>>

\* A tool before the activation fails (staging directory, copy, vtysh,
\* chown, chmod, rsync): the tick ends with what is installed so far.
ToolFails ==
    /\ pc \in {"list", "stage", "chown", "rsync"}
    /\ Fault
    /\ Finish("error")
    /\ UNCHANGED <<dst, live, envVars, settled>>

\* rsync is complete: leave FRR alone, restart it or reload it.
NoChanges ==
    /\ pc = "rsync" /\ unsent = {}
    /\ ~ daemonsChanged /\ ~ changed
    /\ Finish("ok")
    /\ UNCHANGED <<dst, live, envVars, settled, sound, faults>>

DecideRestart ==
    /\ pc = "rsync" /\ unsent = {}
    /\ daemonsChanged
    /\ Goto("restart")
    /\ UNCHANGED <<dst, live, tickVars, envVars, settled, sound, faults>>

DecideReload ==
    /\ pc = "rsync" /\ unsent = {}
    /\ ~ daemonsChanged /\ changed
    /\ Goto("reload")
    /\ UNCHANGED <<dst, live, tickVars, envVars, settled, sound, faults>>

\* frr-reload.py needs the daemons to be up and the file to be there.
Reloadable == live.up /\ dst[Conf] # None

ReloadOk ==
    /\ pc = "reload" /\ Reloadable
    /\ live' = [live EXCEPT !.conf = dst[Conf]]
    /\ Finish("ok")
    /\ UNCHANGED <<dst, envVars, settled, sound, faults>>

\* frr-reload.py exits with an error, having applied nothing or some lines
\* of the difference: fall back to a restart.
ReloadFails ==
    /\ pc = "reload"
    /\ \/ ~ Reloadable /\ UNCHANGED <<live, sound, faults>>
       \/ /\ Reloadable /\ Fault
          /\ live' \in {live, [live EXCEPT !.conf = Torn]}
    /\ Goto("restart")
    /\ UNCHANGED <<dst, tickVars, envVars, settled>>

\* frr-reload.py or systemctl cannot be spawned: no fallback, an error.
ActivationNotSpawned ==
    /\ pc \in {"reload", "restart"}
    /\ Fault
    /\ Finish("error")
    /\ UNCHANGED <<dst, live, envVars, settled>>

RestartOk ==
    /\ pc = "restart"
    /\ live' = Started(dst)
    /\ sound' = TRUE
    /\ Finish("ok")
    /\ UNCHANGED <<dst, envVars, settled, faults>>

\* `systemctl restart` exits with an error: the service stays as it was
\* (the job never ran) or is down (it stopped and did not come back).
RestartFails ==
    /\ pc = "restart"
    /\ Fault
    /\ live' \in {live, [live EXCEPT !.up = FALSE]}
    /\ Finish("error")
    /\ UNCHANGED <<dst, envVars, settled>>

-----------------------------------------------------------------------------
\* The environment.

\* Kubelet swaps the ConfigMap's ..data link to another generation.
Publish ==
    /\ swaps < MaxSwaps /\ swaps' = swaps + 1
    /\ \E g \in Generations \ {src} :
          src' = g /\ offered' = offered \union Offers(g)
    /\ settled' = FALSE /\ sound' = (sound /\ pc = "idle")
    /\ UNCHANGED <<dst, live, pc, tickVars, result, faults, crashes>>

\* The daemon is killed; Restart=always starts it on a fresh tick.  The
\* status file in /run survives.
Killed ==
    /\ pc # "idle"
    /\ crashes < MaxCrashes /\ crashes' = crashes + 1
    /\ pc' = "idle" /\ ResetTick
    /\ settled' = FALSE /\ sound' = FALSE
    /\ UNCHANGED <<src, dst, live, result, offered, swaps, faults>>

\* The guest reboots: /etc/frr persists, /run does not, and frr.service
\* starts on what is installed.
Reboot ==
    /\ crashes < MaxCrashes /\ crashes' = crashes + 1
    /\ live' = Started(dst)
    /\ pc' = "idle" /\ result' = "none" /\ ResetTick
    /\ settled' = FALSE /\ sound' = TRUE
    /\ UNCHANGED <<src, dst, offered, swaps, faults>>

\* network-config-sync runs `systemctl try-reload-or-restart frr.service`.
NetworkReload ==
    /\ Reloadable
    /\ live' = [live EXCEPT !.conf = dst[Conf]]
    /\ UNCHANGED <<src, dst, pc, tickVars, result, offered, settled,
                   sound, swaps, faults, crashes>>

\* systemd (or an operator) starts a failed frr.service again.
FrrStarts ==
    /\ ~ live.up
    /\ live' = Started(dst)
    /\ UNCHANGED <<src, dst, pc, tickVars, result, offered, settled,
                   sound, swaps, faults, crashes>>

-----------------------------------------------------------------------------
Daemon ==
    \/ EmptySource \/ Begin \/ ListNames
    \/ \E f \in Files : StageFile(f) \/ StageVanished(f) \/ RsyncFile(f)
    \/ ValidateOk \/ ValidateRejects \/ ChownChmod \/ ToolFails
    \/ NoChanges \/ DecideRestart \/ DecideReload
    \/ ReloadOk \/ ReloadFails \/ ActivationNotSpawned
    \/ RestartOk \/ RestartFails

Environment ==
    Publish \/ Killed \/ Reboot \/ NetworkReload \/ FrrStarts

Next == Daemon \/ Environment

Spec == Init /\ [][Next]_vars

\* systemd keeps the daemon running and its loop never ends; nothing makes
\* kubelet, the other daemon or an operator act.
FairSpec == Spec /\ WF_vars(Daemon)

-----------------------------------------------------------------------------
LiveState == [up      : BOOLEAN,
              conf    : Content \union {None, Torn},
              daemons : Content \union {None}]

TypeOK ==
    /\ src \in Generations \union {NoMount}
    /\ pc # "idle" => src # NoMount
    /\ dst \in Table
    /\ live \in LiveState
    /\ pc \in {"idle", "list", "stage", "chown", "rsync", "reload", "restart"}
    /\ daemonsChanged \in BOOLEAN
    /\ todo \in SUBSET Files
    /\ stage \in Table
    /\ unsent \in SUBSET Files
    /\ changed \in BOOLEAN
    /\ result \in {"none", "ok", "error"}
    /\ offered \in SUBSET (Files \X (Content \union {None}))
    /\ settled \in BOOLEAN /\ sound \in BOOLEAN
    /\ swaps \in Nat /\ faults \in Nat /\ crashes \in Nat

\* FRR runs what is installed.
InSync == live = Started(dst)

\* Neither /etc/frr nor a running frr.service ever holds a frr.conf that
\* `vtysh -C` rejects, whatever is published, swapped under a tick, failed
\* or killed (validation before rsync, frr/mod.rs:47-86).
OnlyValidated ==
    /\ dst[Conf] \in ValidConf \union {None}
    /\ live.conf \in ValidConf \union {None, Torn}

\* An operator who always publishes the daemons file, as the README's
\* example manifests do.
DaemonsAlwaysOffered == \A g \in Generations : g[Daemons] # None

\* A tick over a source that equals /etc/frr from its first to its last step
\* neither reloads nor restarts FRR (the gate at frr/mod.rs:95-116).
QuietTick == settled => pc \notin {"reload", "restart"}

\* The abstract pipeline this daemon implements.
Abstract == INSTANCE InstalledConfig WITH installed <- dst, running <- live

\* A tick, with its staging copy, validation, rsync, reload and fallback, and
\* everything that can go wrong in it, is a sequence of the abstract steps:
\* single offered files are installed, and FRR loads what is installed.
ImplementsInstalledConfig == Abstract!Spec

\* Every installed file is one that some published generation held under
\* that name, and a file is missing only if some generation lacked it: torn
\* staging may mix generations but invents and loses nothing.
OnlyOffered ==
    \A f \in Files : dst[f] # ImageConfig[f] => <<f, dst[f]>> \in offered

\* Between ticks FRR runs what is installed - its configuration and its set
\* of daemons - whatever was published and in whichever order, as long as no
\* tool failed, no tick was killed and none saw a swap since FRR was last
\* started: the choice between nothing, reload and restart is the right one
\* (frr/mod.rs:34-39, 90-116).
ActivationComplete == sound /\ pc = "idle" => InSync

\* A tick that failed to make FRR run what it had installed is tried again
\* until it succeeds (lib.rs:24-30, frr-config-sync.rs:11-14).
ActivationRetried == (pc = "idle" /\ result = "error" /\ ~ InSync) ~> InSync

\* Once the operator leaves an acceptable ConfigMap alone, /etc/frr becomes
\* and stays equal to it, after torn staging, tool failures and kills too.
Acceptable == src # NoMount /\ src[Conf] \in ValidConf \union {None}

Converges == <>[]Acceptable => <>[](dst = src)

=============================================================================
