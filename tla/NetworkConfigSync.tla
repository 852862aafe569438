-------------------------- MODULE NetworkConfigSync --------------------------
(***************************************************************************)
(* The network-config-sync daemon (config-sync/src/network.rs) together    *)
(* with the three things it acts on: the kernel's interfaces, through      *)
(* nmstate; its own systemd unit, which is Type=notify; and frr.service,   *)
(* which is ordered after that unit and reloaded by the daemon.            *)
(*                                                                         *)
(* Each state file of the ConfigMap is one desired-state document for a    *)
(* set of interfaces of its own.  The kernel remembers, per file, the last *)
(* document applied; a document is up when every interface it wants up is. *)
(***************************************************************************)
EXTENDS Naturals, Sequences

CONSTANTS
    Order,        \* the state files' names, sorted
    Content,      \* documents
    BadYaml,      \* documents that do not parse
    Stuck,        \* documents with an interface that never comes up
    Generations,  \* ConfigMap states the operator may publish
    None,         \* "no such file", "nothing applied", "nothing cached"
    NoMount,      \* the source directory without any entry
    MayBeEmpty,   \* may the source be NoMount at boot?
    Reverts,      \* may the operator publish a document again?
    MaxSwaps,     \* bound: ConfigMap swaps
    MaxFaults,    \* bound: applies, cache writes and reloads that fail
    MaxDowns,     \* bound: links that go down on their own
    MaxCrashes,   \* bound: kills and reboots
    MaxTimeouts   \* bound: start timeouts that hit a tick in progress

Files == {Order[i] : i \in 1 .. Len(Order)}
Table == [Files -> Content \union {None}]

ASSUME ConstantsAssumption ==
    /\ Order \in Seq(STRING)
    /\ \A i, j \in 1 .. Len(Order) : Order[i] = Order[j] => i = j
    /\ BadYaml \subseteq Content /\ Stuck \subseteq Content
    /\ None \notin Content
    /\ Generations \subseteq Table /\ NoMount \notin Table
    /\ {MayBeEmpty, Reverts} \subseteq BOOLEAN
    /\ {MaxSwaps, MaxFaults, MaxDowns, MaxCrashes, MaxTimeouts} \subseteq Nat

VARIABLES
    src,          \* /run/config/network
    pc,           \* where the tick is
    queue,        \* state files of this tick still to handle, in Order
    yaml,         \* the document read for the first of queue
    appliedAny, allConverged, \* locals of sync
    cache,        \* /run/network-config-sync/last-applied
    kernel,       \* last document nmstate applied, per file
    up,           \* are all interfaces of kernel[f] up?
    unit,         \* network-config-sync.service: activating or active
    gate,         \* has frr.service's wait for that unit ended?
    frr,          \* frr.service: stopped or running
    bound,        \* the kernel configuration FRR last bound to
    result,       \* outcome of the last tick
    taken,        \* history: documents this tick has handled
    sawUp,        \* history: documents the daemon saw up since boot
    startFailed,  \* history: has the unit failed to start since boot?
    published,    \* history: documents ever published
    swaps, faults, downs, crashes, timeouts

tickVars == <<queue, yaml, appliedAny, allConverged, taken>>
hostVars == <<kernel, up, frr, bound>>
unitVars == <<unit, gate, startFailed>>
counters == <<swaps, faults, downs, crashes, timeouts>>
vars     == <<src, pc, tickVars, cache, hostVars, unitVars, result, sawUp,
              published, counters>>

NoFile     == [f \in Files |-> None]
AllDown    == [f \in Files |-> FALSE]
Present(t) == {f \in Files : t[f] # None}
Docs(t)    == {<<f, t[f]>> : f \in Present(t)}
Mounted    == IF src = NoMount THEN {} ELSE Docs(src)

\* The first of some state files in the sorted order.
First(names) ==
    Order[CHOOSE i \in 1 .. Len(Order) :
            /\ Order[i] \in names
            /\ \A j \in 1 .. i - 1 : Order[j] \notin names]

this == First(queue)

Fault == /\ faults < MaxFaults /\ faults' = faults + 1
         /\ UNCHANGED <<swaps, downs, crashes, timeouts>>

ResetTick ==
    /\ queue' = {} /\ yaml' = None
    /\ appliedAny' = FALSE /\ allConverged' = TRUE
    /\ taken' = {}

Finish(r) == pc' = "idle" /\ result' = r /\ ResetTick

\* READY=1: the unit's start job is done, and so is frr.service's wait.
Ready == unit' = "active" /\ gate' = TRUE /\ UNCHANGED startFailed

\* notify_ready: neither the socket nor systemd-notify may work; nobody is
\* told, and the next tick sends it again.
Notify == \/ Ready /\ UNCHANGED counters
          \/ Fault /\ UNCHANGED unitVars

\* The loop moves on to the next state file.
NextFile == pc' = "read" /\ queue' = queue \ {this} /\ yaml' = None

-----------------------------------------------------------------------------
Init ==
    /\ src \in Generations \union (IF MayBeEmpty THEN {NoMount} ELSE {})
    /\ pc = "idle" /\ queue = {} /\ yaml = None
    /\ appliedAny = FALSE /\ allConverged = TRUE /\ taken = {}
    /\ cache = NoFile /\ kernel = NoFile /\ up = AllDown
    /\ unit = "activating" /\ gate = FALSE /\ startFailed = FALSE
    /\ frr = "stopped" /\ bound = NoFile
    /\ result = "none" /\ sawUp = {}
    /\ published = Mounted
    /\ swaps = 0 /\ faults = 0 /\ downs = 0 /\ crashes = 0 /\ timeouts = 0

\* Nothing is mounted: ready at once.
EmptySource ==
    /\ pc = "idle" /\ src = NoMount
    /\ Notify
    /\ Finish("ok")
    /\ UNCHANGED <<src, cache, hostVars, sawUp, published>>

\* Mutant: the tick does not ask whether the source is mounted.
BeginUnasked ==
    /\ pc = "idle"
    /\ pc' = "read"
    /\ queue' = {f \in Files : src = NoMount \/ src[f] # None}
    /\ UNCHANGED <<src, yaml, appliedAny, allConverged, taken, cache, hostVars,
                   unitVars, result, sawUp, published, counters>>

\* statefile_paths, sorted.
Begin ==
    /\ pc = "idle" /\ src # NoMount
    /\ pc' = "read"
    /\ queue' = Present(src)
    /\ UNCHANGED <<src, yaml, appliedAny, allConverged, taken, cache, hostVars,
                   unitVars, result, sawUp, published, counters>>

\* The file's content is the cached one: not applied again.
Unchanged ==
    /\ pc = "read" /\ queue # {}
    /\ src[this] # None /\ cache[this] = src[this]
    /\ NextFile
    /\ taken' = taken \union {<<this, src[this]>>}
    /\ UNCHANGED <<src, appliedAny, allConverged, cache, hostVars, unitVars,
                   result, sawUp, published, counters>>

ReadFile ==
    /\ pc = "read" /\ queue # {}
    /\ src[this] # None /\ cache[this] # src[this]
    /\ yaml' = src[this]
    /\ pc' = "apply"
    /\ UNCHANGED <<src, queue, appliedAny, allConverged, taken, cache, hostVars,
                   unitVars, result, sawUp, published, counters>>

\* The name vanished in a swap, or the document does not parse: the tick
\* ends here, and the files after this one are not looked at.
BadFile ==
    /\ \/ pc = "read" /\ queue # {} /\ src[this] = None
       \/ pc = "apply" /\ yaml \in BadYaml
    /\ Finish("error")
    /\ UNCHANGED <<src, cache, hostVars, unitVars, sawUp, published, counters>>

\* nmstate applies the document and verifies it; the links may follow later.
\* It merges against the live state: what is applied and up stays up.
Apply ==
    /\ pc = "apply" /\ yaml \notin BadYaml
    /\ kernel' = [kernel EXCEPT ![this] = yaml]
    /\ \E isUp \in BOOLEAN :
          /\ isUp => yaml \notin Stuck
          /\ ~ isUp => \/ yaml \in Stuck
                       \/ ~ (kernel[this] = yaml /\ up[this])
          /\ up' = [up EXCEPT ![this] = isUp]
    /\ pc' = "check"
    /\ UNCHANGED <<src, queue, yaml, appliedAny, allConverged, taken, cache, frr,
                   bound, unitVars, result, sawUp, published, counters>>

\* Mutant: the document is cached before the result of apply is known.
ApplyFailsCached ==
    /\ pc = "apply" /\ yaml \notin BadYaml
    /\ Fault
    /\ cache' = [cache EXCEPT ![this] = yaml]
    /\ Finish("error")
    /\ UNCHANGED <<src, hostVars, unitVars, sawUp, published>>

\* nmstate fails and rolls back to its checkpoint.
ApplyFails ==
    /\ pc = "apply" /\ yaml \notin BadYaml
    /\ Fault
    /\ Finish("error")
    /\ UNCHANGED <<src, cache, hostVars, unitVars, sawUp, published>>

\* interfaces_converged: every wanted interface's operstate is "up".
Converged ==
    /\ pc = "check" /\ up[this]
    /\ sawUp' = sawUp \union {<<this, yaml>>}
    /\ pc' = "cache"
    /\ UNCHANGED <<src, tickVars, cache, hostVars, unitVars, result, published,
                   counters>>

\* Mutant: all_converged stays what it was.
NotConvergedForgotten ==
    /\ pc = "check" /\ ~ up[this]
    /\ taken' = taken \union {<<this, yaml>>}
    /\ NextFile
    /\ UNCHANGED <<src, appliedAny, allConverged, cache, hostVars, unitVars,
                   result, sawUp, published, counters>>

\* Not cached, so the next tick applies it again.
NotConverged ==
    /\ pc = "check" /\ ~ up[this]
    /\ allConverged' = FALSE
    /\ taken' = taken \union {<<this, yaml>>}
    /\ NextFile
    /\ UNCHANGED <<src, appliedAny, cache, hostVars, unitVars, result, sawUp,
                   published, counters>>

\* cache_applied is best effort; applied_any is set either way.
CacheApplied ==
    /\ pc = "cache"
    /\ \/ cache' = [cache EXCEPT ![this] = yaml] /\ UNCHANGED counters
       \/ Fault /\ UNCHANGED cache
    /\ appliedAny' = TRUE
    /\ taken' = taken \union {<<this, yaml>>}
    /\ NextFile
    /\ UNCHANGED <<src, allConverged, hostVars, unitVars, result, sawUp,
                   published>>

\* Mutant: READY=1 is sent whether or not everything converged.
FinishUnconvergedReady ==
    /\ pc = "read" /\ queue = {} /\ ~ allConverged
    /\ pc' = "notify"
    /\ UNCHANGED <<src, tickVars, cache, hostVars, unitVars, result, sawUp,
                   published, counters>>

\* After the loop: some document is not up yet, so neither reload nor READY.
FinishUnconverged ==
    /\ pc = "read" /\ queue = {} /\ ~ allConverged
    /\ Finish("ok")
    /\ UNCHANGED <<src, cache, hostVars, unitVars, sawUp, published, counters>>

\* Mutant: READY=1 is sent only by a tick that applied something.
FinishQuietUnready ==
    /\ pc = "read" /\ queue = {} /\ allConverged
    /\ IF appliedAny THEN pc' = "reload" /\ UNCHANGED <<result, tickVars>>
                     ELSE Finish("ok")
    /\ UNCHANGED <<src, cache, hostVars, unitVars, sawUp, published, counters>>

\* Mutant: FRR is reloaded only while the unit is still starting.
FinishReloadOnce ==
    /\ pc = "read" /\ queue = {} /\ allConverged
    /\ pc' = IF appliedAny /\ unit = "activating" THEN "reload" ELSE "notify"
    /\ UNCHANGED <<src, tickVars, cache, hostVars, unitVars, result, sawUp,
                   published, counters>>

FinishConverged ==
    /\ pc = "read" /\ queue = {} /\ allConverged
    /\ pc' = IF appliedAny THEN "reload" ELSE "notify"
    /\ UNCHANGED <<src, tickVars, cache, hostVars, unitVars, result, sawUp,
                   published, counters>>

\* systemd holds a reload job of a running frr.service back while the unit
\* it is ordered after is still starting.
ReloadWaits == frr = "running" /\ unit = "activating"

\* `systemctl try-reload-or-restart frr.service`; a failure is only logged.
ReloadFrr ==
    /\ pc = "reload" /\ ~ ReloadWaits
    /\ \/ bound' = (IF frr = "running" THEN kernel ELSE bound)
          /\ UNCHANGED counters
       \/ Fault /\ UNCHANGED bound
    /\ pc' = "notify"
    /\ UNCHANGED <<src, tickVars, cache, kernel, up, frr, unitVars, result,
                   sawUp, published>>

NotifyReady ==
    /\ pc = "notify"
    /\ Notify
    /\ Finish("ok")
    /\ UNCHANGED <<src, cache, hostVars, sawUp, published>>

-----------------------------------------------------------------------------
\* The environment.

\* Kubelet swaps the ConfigMap.
Publish ==
    /\ swaps < MaxSwaps /\ swaps' = swaps + 1
    /\ \E g \in Generations \ {src} :
          /\ Reverts \/ Docs(g) \intersect published \subseteq Mounted
          /\ src' = g
          /\ published' = published \union Docs(g)
    /\ UNCHANGED <<pc, tickVars, cache, hostVars, unitVars, result, sawUp,
                   faults, downs, crashes, timeouts>>

LinkUp(f) ==
    /\ kernel[f] \notin Stuck \union {None} /\ ~ up[f]
    /\ up' = [up EXCEPT ![f] = TRUE]
    /\ UNCHANGED <<src, pc, tickVars, cache, kernel, frr, bound, unitVars, result,
                   sawUp, published, counters>>

LinkDown(f) ==
    /\ up[f]
    /\ downs < MaxDowns /\ downs' = downs + 1
    /\ up' = [up EXCEPT ![f] = FALSE]
    /\ UNCHANGED <<src, pc, tickVars, cache, kernel, frr, bound, unitVars, result,
                   sawUp, published, swaps, faults, crashes, timeouts>>

\* The daemon dies and Restart=always starts the unit again, RestartSec later.
\* If it had not sent READY=1 yet, its start job fails, and frr.service, which
\* only Wants it, need not wait any longer.  A cache file that was being written
\* may be left truncated.
Dies ==
    /\ pc' = "idle" /\ ResetTick
    /\ unit' = "activating"
    /\ gate' = TRUE
    /\ startFailed' = (startFailed \/ unit = "activating")
    /\ cache' \in IF pc = "cache"
                  THEN {cache, [cache EXCEPT ![this] = None]} ELSE {cache}

\* The process is killed or crashes, in a tick or in its sleep.
Killed ==
    /\ crashes < MaxCrashes /\ crashes' = crashes + 1
    /\ Dies
    /\ UNCHANGED <<src, hostVars, result, sawUp, published, swaps, faults, downs,
                   timeouts>>

\* No READY=1 within TimeoutStartSec (90s by default, less than one
\* POLL_INTERVAL): systemd ends the process.
StartTimeout ==
    /\ unit = "activating"
    /\ \/ pc = "reload" /\ ReloadWaits /\ UNCHANGED timeouts
       \/ timeouts < MaxTimeouts /\ timeouts' = timeouts + 1
    /\ Dies
    /\ UNCHANGED <<src, hostVars, result, sawUp, published, swaps, faults, downs,
                   crashes>>

\* frr.service starts once its wait is over and binds to what is there.
FrrStarts ==
    /\ frr = "stopped" /\ gate
    /\ frr' = "running" /\ bound' = kernel
    /\ UNCHANGED <<src, pc, tickVars, cache, kernel, up, unitVars, result, sawUp,
                   published, counters>>

\* /run and the kernel's interfaces start over; the ConfigMap does not.
Reboot ==
    /\ crashes < MaxCrashes /\ crashes' = crashes + 1
    /\ pc' = "idle" /\ ResetTick
    /\ cache' = NoFile /\ kernel' = NoFile /\ up' = AllDown
    /\ unit' = "activating" /\ gate' = FALSE /\ startFailed' = FALSE
    /\ frr' = "stopped" /\ bound' = NoFile
    /\ result' = "none" /\ sawUp' = {}
    /\ UNCHANGED <<src, published, swaps, faults, downs, timeouts>>

-----------------------------------------------------------------------------
Daemon ==
    \/ EmptySource \/ Begin \/ Unchanged \/ ReadFile \/ BadFile
    \/ Apply \/ ApplyFails \/ Converged \/ NotConverged \/ CacheApplied
    \/ FinishUnconverged \/ FinishConverged \/ ReloadFrr \/ NotifyReady

Environment ==
    \/ Publish \/ Killed \/ StartTimeout \/ FrrStarts \/ Reboot
    \/ \E f \in Files : LinkUp(f) \/ LinkDown(f)

Next == Daemon \/ Environment

Spec == Init /\ [][Next]_vars

\* The daemon's loop never ends and systemd restarts it; a link that can
\* come up does; systemd's timer fires on a start that hangs and it starts
\* frr.service once nothing holds it back.
FairSpec ==
    /\ Spec
    /\ WF_vars(Daemon)
    /\ \A f \in Files : WF_vars(LinkUp(f))
    /\ WF_vars(pc = "reload" /\ StartTimeout)
    /\ WF_vars(FrrStarts)

-----------------------------------------------------------------------------
TypeOK ==
    /\ src \in Generations \union {NoMount}
    /\ pc \in {"idle", "read", "apply", "check", "cache", "reload", "notify"}
    /\ pc # "idle" => src # NoMount
    /\ queue \subseteq Files
    /\ pc \in {"apply", "check", "cache"} => queue # {} /\ yaml \in Content
    /\ yaml \in Content \union {None}
    /\ appliedAny \in BOOLEAN /\ allConverged \in BOOLEAN
    /\ gate \in BOOLEAN /\ startFailed \in BOOLEAN
    /\ {cache, kernel, bound} \subseteq Table
    /\ up \in [Files -> BOOLEAN]
    /\ unit \in {"activating", "active"} /\ frr \in {"stopped", "running"}
    /\ result \in {"none", "ok", "error"}
    /\ taken \union sawUp \union published \subseteq Files \X Content
    /\ {swaps, faults, downs, crashes, timeouts} \subseteq Nat

\* When the daemon gets as far as reloading FRR or sending READY=1, every
\* document of that tick is one it has itself seen up since boot - in this
\* tick or, for a cached one, in an earlier tick or an earlier life of the
\* process (network.rs:94-136).
ReadyAfterConvergence == pc \in {"reload", "notify"} => taken \subseteq sawUp

\* A tick that applied something and saw everything up leaves no running FRR
\* behind: by the time it sends READY=1, FRR is bound to all the documents the
\* kernel holds, the ones of earlier ticks included, unless a reload failed
\* (network.rs:125-130).
FrrFollows ==
    pc = "notify" /\ appliedAny /\ frr = "running" /\ faults = 0
        => bound = kernel

\* A document the daemon would skip as "unchanged since last apply" is the
\* one the kernel holds (network.rs:13-19, 99-104).
SkippedIsApplied ==
    \A f \in Files :
        src # NoMount /\ cache[f] # None /\ cache[f] = src[f]
            => kernel[f] = cache[f]

\* At boot, under a ConfigMap that is left alone, frr.service starts only
\* after every document of it has been seen up since that boot (README,
\* "Startup Synchronization with FRR"), if the unit has not failed to start
\* since: a daemon that dies or is timed out before its READY=1 ends FRR's
\* wait too (network.rs:125-140, network-config-sync.service:7-11).
FrrWaitsUnlessStartFails ==
    [][ frr = "stopped" /\ frr' = "running" /\ swaps = 0 /\ ~ startFailed
          => Mounted \subseteq sawUp ]_vars

\* A ConfigMap of good documents that is left alone gets applied completely,
\* and the unit reports ready, whatever failed, died or flapped before.
Fine == src # NoMount /\ \A f \in Files : src[f] \notin BadYaml \union Stuck

Applied == Mounted \subseteq Docs(kernel)

Settles == <>[]Fine => <>[](unit = "active" /\ Applied)

=============================================================================
