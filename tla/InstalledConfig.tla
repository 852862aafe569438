--------------------------- MODULE InstalledConfig ---------------------------
(***************************************************************************)
(* What the pipeline from ConfigMap to FRR promises, without ticks, tools  *)
(* or failures: an installed configuration that changes one file at a time *)
(* and only to contents that were offered, a frr.conf that is always one   *)
(* FRR accepts, and a routing process that only ever loads what is         *)
(* installed - its daemon set on a start, its configuration on a start or  *)
(* a reload.                                                               *)
(***************************************************************************)
CONSTANTS Files, Content, ValidConf, None, Torn, Conf, Daemons

VARIABLES
    offered,    \* every <<file, content>> the operator ever published
    installed,  \* the files FRR would start with
    running     \* what FRR is running

vars == <<offered, installed, running>>

Entry == Files \X (Content \union {None})

Booted == [up |-> TRUE, conf |-> installed[Conf],
           daemons |-> installed[Daemons]]

Init ==
    /\ offered \in SUBSET Entry
    /\ installed \in [Files -> Content \union {None}]
    /\ installed[Conf] \in ValidConf \union {None}
    /\ running = Booted

Offer ==
    /\ offered \subseteq offered' /\ offered' \subseteq Entry
    /\ UNCHANGED <<installed, running>>

Install(f, c) ==
    /\ <<f, c>> \in offered
    /\ f = Conf => c \in ValidConf \union {None}
    /\ installed' = [installed EXCEPT ![f] = c]
    /\ UNCHANGED <<offered, running>>

Start ==
    /\ running' = Booted
    /\ UNCHANGED <<offered, installed>>

Reload ==
    /\ running.up /\ installed[Conf] # None
    /\ running' = [running EXCEPT !.conf = installed[Conf]]
    /\ UNCHANGED <<offered, installed>>

\* A reload stops half-way, or the service stops.
Break ==
    /\ running' \in {[running EXCEPT !.conf = Torn],
                     [running EXCEPT !.up = FALSE]}
    /\ UNCHANGED <<offered, installed>>

Next ==
    \/ Offer
    \/ \E f \in Files, c \in Content \union {None} : Install(f, c)
    \/ Start \/ Reload \/ Break

Spec == Init /\ [][Next]_vars

=============================================================================
