------------------------------- MODULE Health -------------------------------
(***************************************************************************)
(* The dashboard's verdict on a snapshot (src/console/src/health.rs) and   *)
(* the colors its panels give the same data (src/console/src/ui.rs).       *)
(*                                                                         *)
(* Of a snapshot s these look at                                           *)
(*   s.active         frr.service is active                                *)
(*   s.units          the sync units, each "Ok", "Failed", "TimerNotActive" *)
(*   s.vrfs           the VRFs, each with its sessions [estab, total]      *)
(*   s.bfd            the BFD sessions, each TRUE when not "down"          *)
(*   s.memory, s.disk the percentage used, Unknown when it was not read    *)
(*   s.staged         bootc has a staged image with a digest               *)
(***************************************************************************)
EXTENDS Naturals, FiniteSets

\* A percentage that could not be read.
Unknown == 101

Levels == <<"Ok", "Warn", "Critical">>

\* sync_health_timer: is_failed and is_active ask systemd one after the other.
TimerHealth(failed, timerActive) ==
    IF failed THEN "Failed" ELSE IF timerActive THEN "Ok" ELSE "TimerNotActive"

(***************************************************************************)
(* The verdict: the problems, each <<level, what>>                         *)
(***************************************************************************)
SaturationProblem(what, percent) ==
    CASE percent = Unknown  -> {}
      [] percent <= 79      -> {}
      [] percent \in 80 .. 89 -> {<<"Warn", what>>}
      [] OTHER              -> {<<"Critical", what>>}

\* Mutant: a VRF counts as down when all its sessions are.
BgpLost(s) == {v \in DOMAIN s.vrfs : s.vrfs[v].estab = 0 /\ s.vrfs[v].total > 0}

BgpDown(s) == {v \in DOMAIN s.vrfs : s.vrfs[v].estab < s.vrfs[v].total}
BfdDown(s) == {p \in DOMAIN s.bfd : ~s.bfd[p]}

Problems(s) ==
    (IF s.active THEN {} ELSE {<<"Critical", "frr">>})
        \cup {<<"Critical", u>> : u \in {u \in DOMAIN s.units : s.units[u] = "Failed"}}
        \cup {<<"Warn", u>> : u \in {u \in DOMAIN s.units : s.units[u] = "TimerNotActive"}}
        \cup (IF BgpDown(s) = {} THEN {} ELSE {<<"Critical", "bgp">>})
        \cup (IF BfdDown(s) = {} THEN {} ELSE {<<"Warn", "bfd">>})
        \cup SaturationProblem("memory", s.memory)
        \cup SaturationProblem("disk", s.disk)
        \cup (IF s.staged THEN {<<"Warn", "reboot">>} ELSE {})

\* assess: the worst level among the problems; run_once exits with 0, 1 or 2.
ExitCode(s) ==
    IF \E p \in Problems(s) : p[1] = "Critical" THEN 2
    ELSE IF Problems(s) # {} THEN 1 ELSE 0
Level(s) == Levels[ExitCode(s) + 1]

\* badge: how many problems of that level.
Badge(s) == Cardinality({p \in Problems(s) : p[1] = Level(s)})

(***************************************************************************)
(* The colors                                                              *)
(***************************************************************************)
GaugeColor(percent) ==
    CASE percent = Unknown    -> "MUTED"
      [] percent <= 69        -> "OK"
      [] percent \in 70 .. 89 -> "WARN"
      [] OTHER                -> "BAD"

PeerCountColor(c) ==
    IF c.total = 0 THEN "MUTED"
    ELSE IF c.estab = c.total THEN "OK"
    ELSE IF c.estab = 0 THEN "BAD" ELSE "WARN"

BfdColor(s) == IF DOMAIN s.bfd = {} THEN "MUTED" ELSE IF BfdDown(s) = {} THEN "OK" ELSE "BAD"

UnitColor(health) == CASE health = "Failed" -> "BAD" [] health = "TimerNotActive" -> "WARN"
                       [] health = "Ok" -> "OK"

\* The Overview, but for the interfaces and the gauges; the "reboot
\* required" of image_panel is in WARN.
PanelColors(s) ==
    {IF s.active THEN "OK" ELSE "BAD", BfdColor(s)}
        \cup {UnitColor(s.units[u]) : u \in DOMAIN s.units}
        \cup {PeerCountColor(s.vrfs[v]) : v \in DOMAIN s.vrfs}
        \cup (IF s.staged THEN {"WARN"} ELSE {})
GaugeColors(s) == {GaugeColor(s.memory), GaugeColor(s.disk)}

\* "Healthy" is what the panels show: a badge that says so has no warning
\* beside it - a gauge turns WARN ten percent before the verdict does, and
\* never BAD - and one that does not has something colored to look at.
PanelsAgreeOn(s) ==
    /\ Level(s) = "Ok" => /\ PanelColors(s) \subseteq {"OK", "MUTED"}
                          /\ "BAD" \notin GaugeColors(s)
    /\ Level(s) # "Ok" => /\ (PanelColors(s) \cup GaugeColors(s)) \cap {"WARN", "BAD"} # {}
                          /\ Badge(s) > 0
=============================================================================
