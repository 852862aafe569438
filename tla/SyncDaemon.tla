------------------------------ MODULE SyncDaemon ------------------------------
(***************************************************************************)
(* The life of a sync daemon around its ticks (config-sync/src/lib.rs and  *)
(* the two main functions) and the dashboard that judges it from outside   *)
(* (console/src/systemd.rs): the lock that keeps a second instance out,    *)
(* the poll loop, the status file written next to the real one and renamed *)
(* over it, and the reader that looks at the unit, then at the file's age, *)
(* then at its content, each at a different moment.                        *)
(*                                                                         *)
(* Time is counted in minutes.  Only an attempt and the sleep take time.   *)
(***************************************************************************)
EXTENDS Naturals

CONSTANTS
    Procs,       \* instances of the daemon
    Unit,        \* the one systemd manages; the others are started by hand
    NoProc,      \* "the lock is free"
    Poll,        \* POLL_INTERVAL
    MaxAge,      \* MAX_STATUS_AGE
    MaxSync,     \* the longest an attempt that returns may take
    Notify,      \* Type=notify (network-config-sync) or simple (frr-config-sync)
    MayHang,     \* may an attempt never return?
    MaxByHand,   \* bound: instances started by hand
    MaxFaults,   \* bound: status files that cannot be written
    MaxCrashes   \* bound: kills

ASSUME ConstantsAssumption ==
    /\ Unit \in Procs /\ NoProc \notin Procs
    /\ Poll \in Nat /\ MaxAge \in Nat /\ MaxSync \in Nat
    /\ Notify \in BOOLEAN /\ MayHang \in BOOLEAN
    /\ MaxByHand \in Nat /\ MaxFaults \in Nat /\ MaxCrashes \in Nat

VARIABLES
    proc,        \* where each instance is
    clock,       \* minutes it has spent in the attempt or the sleep
    outcome,     \* what its attempt returned
    lock,        \* the holder of /run/*.lock
    ready,       \* Type=notify: has the running process sent READY=1?
    tmp,         \* text of status.tmp
    text, age,   \* text of the status file, minutes since it was written
    reader,      \* where the dashboard's look at the unit is
    shown,       \* the health it last worked out
    sinceOk,     \* history: minutes since an attempt reported success
    lost,        \* history: has a report been lost since the last one?
    byHand, faults, crashes

procVars   == <<proc, clock, outcome, lock, ready>>
fileVars   == <<tmp, text, age>>
readerVars == <<reader, shown>>
history    == <<sinceOk, lost>>
counters   == <<byHand, faults, crashes>>
vars == <<procVars, fileVars, readerVars, history, counters>>

Writing  == {"open", "fill", "rename"}
Attempt  == {"sync", "hung"} \union Writing
InLock   == Attempt \union {"sleep"}
Text     == {"none", "empty", "ok", "error"}

Goto(p, label) == proc' = [proc EXCEPT ![p] = label]

\* A new attempt, a new sleep or a new life begins.
Enter(p, label) ==
    /\ Goto(p, label)
    /\ clock' = [clock EXCEPT ![p] = 0]
    /\ outcome' = [outcome EXCEPT ![p] = "none"]

\* One minute later, never beyond the first value that counts as too old.
Older(n) == IF n > MaxAge THEN n ELSE n + 1

Init ==
    /\ proc = [p \in Procs |-> "dead"] /\ clock = [p \in Procs |-> 0]
    /\ outcome = [p \in Procs |-> "none"]
    /\ lock = NoProc /\ ready = FALSE
    /\ tmp = "none" /\ text = "none" /\ age = 0
    /\ reader = "away" /\ shown = "none"
    /\ sinceOk = MaxAge + 1 /\ lost = FALSE
    /\ byHand = 0 /\ faults = 0 /\ crashes = 0

-----------------------------------------------------------------------------
\* The daemon.

\* systemd starts the unit (Restart=always); somebody runs the binary.
Start(p) ==
    /\ proc[p] = "dead"
    /\ IF p = Unit THEN UNCHANGED byHand
                   ELSE byHand < MaxByHand /\ byHand' = byHand + 1
    /\ Goto(p, "start")
    /\ UNCHANGED <<clock, outcome, lock, ready, fileVars, readerVars, history,
                   faults, crashes>>

\* Mutant: the result of flock is not looked at.
AcquireAnyway(p) ==
    /\ proc[p] = "start"
    /\ lock' = p
    /\ Enter(p, "sync")
    /\ UNCHANGED <<ready, fileVars, readerVars, history, counters>>

\* Lock::try_acquire succeeds and the loop starts with an attempt.
Acquire(p) ==
    /\ proc[p] = "start" /\ lock = NoProc
    /\ lock' = p
    /\ Enter(p, "sync")
    /\ UNCHANGED <<ready, fileVars, readerVars, history, counters>>

\* Another instance holds it: the process exits with a failure.
Refused(p) ==
    /\ proc[p] = "start" /\ lock # NoProc
    /\ Goto(p, "dead")
    /\ UNCHANGED <<clock, outcome, lock, ready, fileVars, readerVars, history,
                   counters>>

\* Mutant: a failed attempt is not reported.
SyncReturnsQuietly(p) ==
    /\ proc[p] = "sync"
    /\ \/ outcome' = [outcome EXCEPT ![p] = "ok"] /\ Goto(p, "open")
          /\ UNCHANGED clock
       \/ Enter(p, "sleep")
    /\ UNCHANGED <<lock, ready, fileVars, readerVars, history, counters>>

\* Mutant: the outcome does not reach the status line.
SyncReturnsBlank(p) ==
    /\ proc[p] = "sync"
    /\ Goto(p, "open")
    /\ UNCHANGED <<clock, outcome, lock, ready, fileVars, readerVars, history,
                   counters>>

\* sync_once returns.  network-config-sync has sent READY=1 if everything
\* had converged; an attempt can succeed without.
SyncReturns(p) ==
    /\ proc[p] = "sync"
    /\ \E r \in {"ok", "error"} : outcome' = [outcome EXCEPT ![p] = r]
    /\ IF p = Unit /\ Notify THEN ready' \in {ready, TRUE} ELSE UNCHANGED ready
    /\ Goto(p, "open")
    /\ UNCHANGED <<clock, lock, fileVars, readerVars, history, counters>>

SyncHangs(p) ==
    /\ MayHang /\ proc[p] = "sync"
    /\ Goto(p, "hung")
    /\ UNCHANGED <<clock, outcome, lock, ready, fileVars, readerVars, history,
                   counters>>

\* Mutant: the status file itself is truncated and written.
OpenInPlace(p) ==
    /\ proc[p] = "open"
    /\ text' = "empty" /\ age' = 0
    /\ Goto(p, "fill")
    /\ UNCHANGED <<clock, outcome, lock, ready, tmp, readerVars, history, counters>>

\* write_status_atomically: fs::write truncates or creates status.tmp ...
OpenTmp(p) ==
    /\ proc[p] = "open"
    /\ tmp' = "empty"
    /\ Goto(p, "fill")
    /\ UNCHANGED <<clock, outcome, lock, ready, text, age, readerVars, history,
                   counters>>

\* ... and writes the line ...
FillTmp(p) ==
    /\ proc[p] = "fill"
    /\ tmp' = outcome[p]
    /\ Goto(p, "rename")
    /\ UNCHANGED <<clock, outcome, lock, ready, text, age, readerVars, history,
                   counters>>

\* ... which the rename makes the status file; then the loop sleeps.
Rename(p) ==
    /\ proc[p] = "rename" /\ tmp # "none"
    /\ text' = tmp /\ age' = 0 /\ tmp' = "none"
    /\ sinceOk' = IF tmp = "ok" THEN 0 ELSE sinceOk
    /\ lost' = FALSE
    /\ Enter(p, "sleep")
    /\ UNCHANGED <<lock, ready, readerVars, counters>>

\* Any of the three fails: logged, and the loop sleeps all the same.
WriteFails(p) ==
    /\ proc[p] \in Writing
    /\ faults < MaxFaults /\ faults' = faults + 1
    /\ lost' = TRUE
    /\ Enter(p, "sleep")
    /\ UNCHANGED <<lock, ready, fileVars, readerVars, sinceOk, byHand, crashes>>

Wake(p) ==
    /\ proc[p] = "sleep" /\ clock[p] = Poll
    /\ Enter(p, "sync")
    /\ UNCHANGED <<lock, ready, fileVars, readerVars, history, counters>>

\* Mutant: a lock file that outlives its process.
KilledLocked(p) ==
    /\ proc[p] # "dead"
    /\ crashes < MaxCrashes /\ crashes' = crashes + 1
    /\ Enter(p, "dead")
    /\ ready' = (ready /\ p # Unit)
    /\ lost' = (lost \/ lock = p)
    /\ UNCHANGED <<lock, fileVars, readerVars, sinceOk, byHand, faults>>

\* A kill; the kernel drops the flock with the process.
Killed(p) ==
    /\ proc[p] # "dead"
    /\ crashes < MaxCrashes /\ crashes' = crashes + 1
    /\ Enter(p, "dead")
    /\ lock' = IF lock = p THEN NoProc ELSE lock
    /\ ready' = (ready /\ p # Unit)
    /\ lost' = (lost \/ lock = p)
    /\ UNCHANGED <<fileVars, readerVars, sinceOk, byHand, faults>>

-----------------------------------------------------------------------------
\* The dashboard: sync_health_daemon.

\* `systemctl is-active` also fails for a Type=notify unit still starting.
UnitActive == proc[Unit] # "dead" /\ (Notify => ready)

Conclude(h) == reader' = "away" /\ shown' = h

CheckUnit ==
    /\ reader = "away"
    /\ IF UnitActive THEN reader' = "meta" /\ UNCHANGED shown
                     ELSE Conclude("not running")
    /\ UNCHANGED <<procVars, fileVars, history, counters>>

\* Mutant: the age is not looked at.
ReadMetaAnyAge ==
    /\ reader = "meta"
    /\ IF text = "none" THEN Conclude("missing")
                        ELSE reader' = "content" /\ UNCHANGED shown
    /\ UNCHANGED <<procVars, fileVars, history, counters>>

\* read_recent_ok: the modification time first ...
ReadMeta ==
    /\ reader = "meta"
    /\ CASE text = "none" -> Conclude("missing")
         [] text # "none" /\ age > MaxAge -> Conclude("stale")
         [] OTHER -> reader' = "content" /\ UNCHANGED shown
    /\ UNCHANGED <<procVars, fileVars, history, counters>>

\* ... then the content, in a second look at the path.
ReadContent ==
    /\ reader = "content"
    /\ Conclude(IF text = "ok" THEN "ok" ELSE "error")
    /\ UNCHANGED <<procVars, fileVars, history, counters>>

-----------------------------------------------------------------------------
\* A minute passes while nobody is due to act.
Tick ==
    /\ reader = "away"
    /\ \A p \in Procs :
          /\ proc[p] \notin Writing
          /\ proc[p] = "sync" => clock[p] < MaxSync
          /\ proc[p] = "sleep" => clock[p] < Poll
    /\ clock' = [p \in Procs |->
                    IF proc[p] \in {"sync", "sleep"} THEN clock[p] + 1
                                                     ELSE clock[p]]
    /\ age' = IF text = "none" THEN age ELSE Older(age)
    /\ sinceOk' = Older(sinceOk)
    /\ UNCHANGED <<proc, outcome, lock, ready, tmp, text, readerVars, lost,
                   counters>>

Step(p) ==
    \/ Acquire(p) \/ Refused(p) \/ SyncReturns(p) \/ OpenTmp(p) \/ FillTmp(p)
    \/ Rename(p) \/ WriteFails(p) \/ Wake(p)

Look == CheckUnit \/ ReadMeta \/ ReadContent

Next ==
    \/ \E p \in Procs : Start(p) \/ Step(p) \/ SyncHangs(p) \/ Killed(p)
    \/ Look \/ Tick

Spec == Init /\ [][Next]_vars

\* The instances run, systemd restarts the unit, the dashboard keeps
\* looking, and time passes.  Nobody starts an instance by hand by need.
FairSpec ==
    /\ Spec
    /\ \A p \in Procs : WF_vars(Step(p))
    /\ WF_vars(Start(Unit))
    /\ SF_vars(CheckUnit) /\ WF_vars(ReadMeta) /\ WF_vars(ReadContent)
    /\ SF_vars(Tick)

-----------------------------------------------------------------------------
TypeOK ==
    /\ proc \in [Procs -> InLock \union {"dead", "start"}]
    /\ clock \in [Procs -> Nat]
    /\ outcome \in [Procs -> {"none", "ok", "error"}]
    /\ \A p \in Procs : proc[p] \in Writing => outcome[p] # "none"
    /\ lock \in Procs \union {NoProc}
    /\ ready \in BOOLEAN
    /\ tmp \in Text /\ text \in Text
    /\ age \in Nat /\ sinceOk \in Nat
    /\ reader \in {"away", "meta", "content"}
    /\ shown \in {"none", "not running", "missing", "stale", "ok", "error"}
    /\ lost \in BOOLEAN
    /\ byHand \in Nat /\ faults \in Nat /\ crashes \in Nat

\* Two instances are never both inside a sync or its sleep, across kills,
\* restarts and second instances started by hand (lib.rs:92-119).
MutualExclusion ==
    \A p, q \in Procs : proc[p] \in InLock /\ proc[q] \in InLock => p = q

\* A reader of the status file sees a whole line or none, never the window
\* between truncation and write (lib.rs:65-72).
NeverTorn == text # "empty"

\* The file grows too old only when a report was really lost - a kill, a
\* failed write, an attempt that hangs - not because an attempt and the
\* sleep before it were slow but fine (systemd.rs:107-111).
StaleIsReal ==
    text # "none" /\ age > MaxAge =>
        lost \/ \E p \in Procs : proc[p] = "hung"

\* The dashboard says ok only if some attempt reported success no more than
\* MaxAge ago, whatever happened between its three looks.
OkIsRecent == [][ reader = "content" /\ reader' = "away" /\ shown' = "ok"
                     => sinceOk <= MaxAge ]_vars

\* A daemon whose attempt never returns is not shown as ok for ever, even
\* when its last report was a success (systemd.rs:107-111).
HangIsShown ==
    (\E p \in Procs : proc[p] = "hung") ~>
        (shown # "ok" \/ \A p \in Procs : proc[p] # "hung")

\* Some instance keeps making attempts, whatever attempts, reports and
\* instances before it came to, unless one hangs in its own (lib.rs:24-40,
\* Restart=always).
KeepsSyncing == []<>(\E p \in Procs : proc[p] \in {"sync", "hung"})

=============================================================================
