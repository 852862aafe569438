----------------------------- MODULE EventHistory -----------------------------
(***************************************************************************)
(* How the dashboards turn snapshots into the event log: on every console  *)
(* a gather thread reads the system in two steps and sends the snapshot    *)
(* over a channel; the UI thread drains the channel, compares snapshots    *)
(* and records events, each in its ring and in the one log file that all   *)
(* dashboards append to (console/src/main.rs, snapshot.rs, events.rs).     *)
(*                                                                         *)
(* A dashboard ends when somebody logs in (`b`) or when it is killed, and  *)
(* systemd starts the next one on the same console.                        *)
(***************************************************************************)
EXTENDS EventDiff, Sequences, SequencesExt

CONSTANTS
    Consoles,    \* tty1 and ttyS0
    Daemons,     \* FRR's daemons; also the errors of queries that fail
    Worlds,      \* states of the router the dashboards may observe
    Starts,      \* those it may be in when the first dashboard starts
    Capacity,    \* EVENT_LOG_CAPACITY
    MaxQueue,    \* bound: snapshots in a channel
    MaxChanges,  \* bound: changes of the router
    MaxEnds      \* bound: dashboards ended by a login or killed

NoPeers == [p \in Peers |-> None]
NoBfdPeers == [b \in BfdPeers |-> None]

\* NodeSnapshot, as far as the comparison looks at it, and FRR's daemons.
Snapshot ==
    [ifaces : {w.ifaces : w \in Worlds}, frr : BOOLEAN,
     peers : {w.peers : w \in Worlds} \union {NoPeers},
     bfd : {w.bfd : w \in Worlds} \union {NoBfdPeers},
     daemons : SUBSET Daemons, errors : SUBSET Daemons, units : {w.units : w \in Worlds},
     bootc : {w.bootc : w \in Worlds} \union {None}]

Started == <<"dashboard", "dashboard", "started">>

\* A line of the log is an event; the newline after it is written apart.  The
\* comparison takes no notice of the daemons.
Compared == {s \in Snapshot : s.daemons = {}}
Event == {Started} \union UNION {Diff(t[1], t[2]) : t \in Compared \X Compared}
NL == <<"newline">>

ASSUME ConstantsAssumption ==
    /\ Capacity \in Nat \ {0} /\ MaxQueue \in Nat \ {0}
    /\ {MaxChanges, MaxEnds} \subseteq Nat
    /\ {"zebra", "bgpd", "bfdd"} \subseteq Daemons
    /\ Starts \subseteq Worlds /\ IsFiniteSet(Event)
    /\ None \notin Snapshot \union {"Established"}
    /\ \A w \in Worlds : /\ w.frr \in BOOLEAN
                         /\ DOMAIN w.peers = Peers /\ DOMAIN w.bfd = BfdPeers

VARIABLES
    world,       \* the router
    running,     \* consoles with a dashboard
    active,      \* what a gather in progress read first, or None
    cache,       \* the bootc answer the gather thread keeps for a minute
    chan,        \* snapshots sent and not received
    prev, snap,  \* locals of run_ui
    ring,        \* the events of EventLog, each a line
    todo,        \* events of the current record calls not yet written
    half,        \* is the text of Head(todo) in the file, its newline not?
    file,        \* /var/log/frr-console-events.log: events and newlines
    older,       \* history: the two snapshots received before prev
    batches,     \* history: the events of the last two receipts
    dipped,      \* history: peers ever not established under a running FRR
    alone,       \* history: consoles whose dashboard found no half line in
                 \* the file when it began, and nobody else wrote since
    changes, ends

gatherVars == <<active, cache, chan>>
uiVars     == <<prev, snap, ring, todo, half>>
history    == <<older, batches, dipped, alone>>
counters   == <<changes, ends>>
vars == <<world, running, gatherVars, uiVars, file, history, counters>>

Put(f, c, v) == [f EXCEPT ![c] = v]

\* The last n elements.
LastN(s, n) == IF Len(s) <= n THEN s ELSE SubSeq(s, Len(s) - n + 1, Len(s))

\* The file as lines: an event written before the newline of another shares
\* its line.  Empty lines are skipped.
LineFrom(f, i) == SubSeq(f, i, Max({j \in i .. Len(f) : \A k \in i .. j : f[k] # NL}))
LineStarts(f) == {i \in DOMAIN f : f[i] # NL /\ (i = 1 \/ f[i - 1] = NL)}
\* The nth of a set of numbers.
NthOf(S, n) == CHOOSE i \in {j \in S : Cardinality({k \in S : k <= j}) = n} : TRUE
Lines(f) == [n \in 1 .. Cardinality(LineStarts(f)) |-> LineFrom(f, NthOf(LineStarts(f), n))]

\* The file ends with a newline.
Whole(f) == f = <<>> \/ Last(f) = NL

\* Mutant: the head of the log is restored.
LoadHead(f) == SubSeq(Lines(f), 1, IF Len(Lines(f)) < Capacity
                                   THEN Len(Lines(f)) ELSE Capacity)

\* load_file.
LoadFile(f) == LastN(Lines(f), Capacity)

\* Peers of a world that are configured but not up.
DownIn(w) == IF w.frr THEN {p \in Known(w.peers) : w.peers[p] # "Established"}
                      ELSE {}

Init ==
    /\ world \in Starts /\ running = {}
    /\ active = [c \in Consoles |-> None] /\ cache = [c \in Consoles |-> None]
    /\ chan = [c \in Consoles |-> <<>>]
    /\ prev = [c \in Consoles |-> None] /\ snap = [c \in Consoles |-> None]
    /\ ring = [c \in Consoles |-> <<>>] /\ todo = [c \in Consoles |-> <<>>]
    /\ half = [c \in Consoles |-> FALSE] /\ file = <<>>
    /\ older = [c \in Consoles |-> <<>>]
    /\ batches = [c \in Consoles |-> <<{}, {}>>]
    /\ dipped = DownIn(world) /\ alone = {}
    /\ changes = 0 /\ ends = 0

-----------------------------------------------------------------------------
\* main: the log is restored and "dashboard started" recorded.
Launch(c) ==
    /\ c \notin running
    /\ running' = running \union {c}
    /\ ring' = Put(ring, c, LoadFile(file))
    /\ todo' = Put(todo, c, <<Started>>)
    /\ alone' = IF Whole(file) THEN alone \union {c} ELSE alone
    /\ UNCHANGED <<world, gatherVars, prev, snap, half, file, older, batches,
                   dipped, counters>>

\* gather: first frr.service and the interfaces ...
GatherFirst(c) ==
    /\ c \in running /\ active[c] = None
    /\ Len(chan[c]) < MaxQueue
    /\ active' = Put(active, c, [frr |-> world.frr, ifaces |-> world.ifaces])
    /\ \E b \in {world.bootc, cache[c]} : cache' = Put(cache, c, b)
    /\ UNCHANGED <<world, running, chan, uiVars, file, history, counters>>

\* The daemons whose vty socket accepts a connection: the only ones asked.
Listening(was) == IF was /\ world.frr THEN Daemons \ world.dead ELSE {}

\* Mutant: a query that fails reads like one with nothing to report.
FrrPartSilent(was) ==
    LET answers == Listening(was) \ world.vty
    IN  [peers  |-> IF "bgpd" \in answers THEN world.peers
                                          ELSE NoPeers,
         bfd    |-> IF "bfdd" \in answers THEN world.bfd
                                          ELSE NoBfdPeers,
         daemons |-> Listening(was), errors |-> {}]

\* What frr::gather gets: nothing at all when the service was down before;
\* an error from each daemon that is asked and does not answer.  zebra is
\* asked whether or not it listens.
FrrPart(was) ==
    LET asked   == IF was THEN Listening(was) \union {"zebra"} ELSE {}
        answers == Listening(was) \ world.vty
    IN  [peers  |-> IF "bgpd" \in answers THEN world.peers
                                          ELSE NoPeers,
         bfd    |-> IF "bfdd" \in answers THEN world.bfd
                                          ELSE NoBfdPeers,
         daemons |-> Listening(was), errors |-> asked \ answers]

\* ... then the routing daemons and the sync units; the snapshot is sent.
GatherRest(c) ==
    /\ active[c] # None
    /\ LET frr == FrrPart(active[c].frr)
       IN  chan' = Put(chan, c, Append(chan[c],
                      [ifaces |-> active[c].ifaces, frr |-> active[c].frr,
                       peers |-> frr.peers, bfd |-> frr.bfd,
                       daemons |-> frr.daemons, errors |-> frr.errors,
                       units |-> world.units, bootc |-> cache[c]]))
    /\ active' = Put(active, c, None)
    /\ UNCHANGED <<world, running, cache, uiVars, file, history, counters>>

\* Mutant: only a snapshot that brings events is kept.
ReceiveNews(c) ==
    /\ c \in running /\ chan[c] # <<>> /\ todo[c] = <<>>
    /\ LET new == Head(chan[c])
           events == Diff(prev[c], new)
       IN  /\ todo' = Put(todo, c, SetToSeq(events))
           /\ prev' = Put(prev, c, snap[c])
           /\ snap' = Put(snap, c, IF events = {} THEN snap[c] ELSE new)
           /\ older' = Put(older, c, LastN(Append(older[c], prev[c]), 2))
           /\ batches' = Put(batches, c, <<batches[c][2], events>>)
    /\ chan' = Put(chan, c, Tail(chan[c]))
    /\ UNCHANGED <<world, running, active, cache, ring, half, file, dipped,
                   alone, counters>>

\* run_ui receives one snapshot.  It compares with prev as it was before
\* this receipt, so with the snapshot before the last one.
Receive(c) ==
    /\ c \in running /\ chan[c] # <<>> /\ todo[c] = <<>>
    /\ LET new == Head(chan[c])
           events == Diff(prev[c], new)
       IN  /\ todo' = Put(todo, c, SetToSeq(events))
           /\ prev' = Put(prev, c, snap[c])
           /\ snap' = Put(snap, c, new)
           /\ older' = Put(older, c, LastN(Append(older[c], prev[c]), 2))
           /\ batches' = Put(batches, c, <<batches[c][2], events>>)
    /\ chan' = Put(chan, c, Tail(chan[c]))
    /\ UNCHANGED <<world, running, active, cache, ring, half, file, dipped,
                   alone, counters>>

\* record: append_line's writeln! writes the text ...
WriteText(c) ==
    /\ todo[c] # <<>> /\ ~ half[c]
    /\ file' = Append(file, Head(todo[c]))
    /\ half' = Put(half, c, TRUE) /\ alone' = alone \intersect {c}
    /\ UNCHANGED <<world, running, gatherVars, prev, snap, ring, todo, older,
                   batches, dipped, counters>>

\* Mutant: the ring is not trimmed.
WriteNewlineGrows(c) ==
    /\ half[c]
    /\ file' = Append(file, NL)
    /\ half' = Put(half, c, FALSE)
    /\ ring' = Put(ring, c, Append(ring[c], <<Head(todo[c])>>))
    /\ todo' = Put(todo, c, Tail(todo[c])) /\ alone' = alone \intersect {c}
    /\ UNCHANGED <<world, running, gatherVars, prev, snap, older, batches, dipped,
                   counters>>

\* ... and, in a second write, the newline; then the ring gets the event
\* and drops its oldest ones.
WriteNewline(c) ==
    /\ half[c]
    /\ file' = Append(file, NL)
    /\ half' = Put(half, c, FALSE)
    /\ ring' = Put(ring, c, LastN(Append(ring[c], <<Head(todo[c])>>), Capacity))
    /\ todo' = Put(todo, c, Tail(todo[c])) /\ alone' = alone \intersect {c}
    /\ UNCHANGED <<world, running, gatherVars, prev, snap, older, batches, dipped,
                   counters>>

\* The process is gone, and everything but the file with it.
Ends(c) ==
    /\ ends < MaxEnds /\ ends' = ends + 1
    /\ c \in running /\ running' = running \ {c}
    /\ active' = Put(active, c, None) /\ cache' = Put(cache, c, None)
    /\ chan' = Put(chan, c, <<>>)
    /\ prev' = Put(prev, c, None) /\ snap' = Put(snap, c, None)
    /\ ring' = Put(ring, c, <<>>) /\ todo' = Put(todo, c, <<>>)
    /\ half' = Put(half, c, FALSE) /\ alone' = alone \ {c}
    /\ older' = Put(older, c, <<>>) /\ batches' = Put(batches, c, <<{}, {}>>)
    /\ UNCHANGED <<world, file, dipped, changes>>

\* `b`: exec of /bin/login, from the UI thread between two receipts.
Login(c) == todo[c] = <<>> /\ Ends(c)

\* At any moment, in the middle of a line too.
Killed(c) == Ends(c)

\* The router changes.
Change ==
    /\ changes < MaxChanges /\ changes' = changes + 1
    /\ \E w \in Worlds \ {world} :
          world' = w /\ dipped' = dipped \union DownIn(w)
    /\ UNCHANGED <<running, gatherVars, uiVars, file, older, batches, alone,
                   ends>>

Step(c) ==
    \/ Launch(c) \/ GatherFirst(c) \/ GatherRest(c)
    \/ Receive(c) \/ WriteText(c) \/ WriteNewline(c)

Next == Change \/ \E c \in Consoles : Step(c) \/ Login(c) \/ Killed(c)

Spec == Init /\ [][Next]_vars

\* The gather thread and the UI thread of a dashboard run, and systemd starts
\* dashboards.
FairSpec ==
    /\ Spec
    /\ \A c \in Consoles :
          /\ WF_vars(Launch(c))
          /\ WF_vars(GatherFirst(c) \/ GatherRest(c))
          /\ WF_vars(Receive(c) \/ WriteText(c) \/ WriteNewline(c))

-----------------------------------------------------------------------------
\* Types; the ring and the channel keep their limits, and only a console
\* with a dashboard has anything to receive or to write.
TypeOK ==
    /\ world \in Worlds /\ running \subseteq Consoles
    /\ active \in [Consoles -> [frr : BOOLEAN, ifaces : {w.ifaces : w \in Worlds}] \union {None}]
    /\ cache \in [Consoles -> {w.bootc : w \in Worlds} \union {None}]
    /\ chan \in [Consoles -> Seq(Snapshot)]
    /\ prev \in [Consoles -> Snapshot \union {None}]
    /\ snap \in [Consoles -> Snapshot \union {None}]
    /\ ring \in [Consoles -> Seq(Seq(Event \union {NL}))]
    /\ todo \in [Consoles -> Seq(Event)]
    /\ half \in [Consoles -> BOOLEAN]
    /\ file \in Seq(Event \union {NL})
    /\ older \in [Consoles -> Seq(Snapshot \union {None})]
    /\ batches \in [Consoles -> (SUBSET Event) \X (SUBSET Event)]
    /\ dipped \subseteq Peers /\ alone \subseteq Consoles
    /\ {changes, ends} \subseteq Nat
    /\ \A c \in Consoles :
          /\ Len(chan[c]) <= MaxQueue /\ Len(ring[c]) <= Capacity /\ Len(older[c]) <= 2
          /\ half[c] => todo[c] # <<>>
          /\ c \notin running =>
                chan[c] = <<>> /\ snap[c] = None /\ todo[c] = <<>>
          /\ snap[c] = None => prev[c] = None

\* What a dashboard shows is the tail of the file, the lines it restored and
\* those it added (events.rs:64-67, "a dashboard that came back from a
\* login/reboot still shows what happened before").  This holds from a start
\* on whole lines until another dashboard writes: one that was killed in the
\* middle of a line leaves half of it to the next.
RingIsFileTail ==
    \A c \in alone : ~ half[c] => ring[c] = LoadFile(file)

\* A peer lost in two snapshots after being up in two, FRR running in all
\* four, is in the log by the time the fourth has been received.
Up(s, p)   == s # None /\ s.frr /\ s.peers[p] = "Established"
Down(s, p) == s # None /\ s.frr /\ s.peers[p] \notin {"Established", None}

Outage(c, p) ==
    /\ Len(older[c]) = 2 /\ Up(older[c][1], p) /\ Up(older[c][2], p)
    /\ Down(prev[c], p) /\ Down(snap[c], p)

OutagesLogged ==
    \A c \in Consoles, p \in Peers :
        Outage(c, p) =>
            <<"bgp", p, "wentDown">> \in batches[c][1] \union batches[c][2]

\* A dashboard that could see an established peer in two snapshots and, FRR
\* running and bgpd among its daemons, none at all in the next two has logged
\* that it went blind (events.rs:243-249, "since when can't the dashboard see
\* bgpd?").  It says so only of a bgpd that listens and does not answer: one
\* that is gone is not asked, and leaves no event.  No peer is ever
\* unconfigured in the model.
Blinded(c, p) ==
    /\ Len(older[c]) = 2 /\ Up(older[c][1], p) /\ Up(older[c][2], p)
    /\ \A s \in {prev[c], snap[c]} :
          s # None /\ s.frr /\ "bgpd" \in s.daemons /\ s.peers[p] = None

BlindnessLogged ==
    \A c \in Consoles, p \in Peers :
        Blinded(c, p) => <<"vty", "bgpd", "queryFailing">> \in batches[c][1] \union batches[c][2]

\* A BGP "went DOWN" is only ever recorded for a peer that was once down
\* while FRR ran: a stop, a restart or a blind spot of FRR is not a peer
\* outage (events.rs:153-158), whatever a gather saw half of.
PeerDownIsReal ==
    \A c \in Consoles, p \in Peers :
        <<"bgp", p, "wentDown">> \in batches[c][1] \union batches[c][2]
            => p \in dipped

\* When the router stays as it is, every dashboard ends up showing it.
Shows(s) ==
    /\ s # None
    /\ s.ifaces = world.ifaces /\ s.frr = world.frr /\ s.units = world.units
    /\ world.frr /\ world.vty \union world.dead = {}
          => s.peers = world.peers /\ s.bfd = world.bfd

EventuallyCurrent ==
    \A c \in Consoles : <>[][world' = world]_world => <>[](Shows(snap[c]))

\* Dashboard c has just received a snapshot.
Received(c) == c \in running' /\ chan[c] # <<>> /\ chan'[c] = Tail(chan[c])

\* Each receipt records what changed since the snapshot before it
\* (events.rs:6, "Comparing consecutive snapshots").
DiffIsConsecutive ==
    [][ \A c \in Consoles :
            Received(c) => batches'[c][2] = Diff(snap[c], snap'[c]) ]_vars

=============================================================================
