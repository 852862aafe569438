----------------------------- MODULE FrrStatus -----------------------------
(***************************************************************************)
(* The dashboard's FRR queries, tick after tick: the selected peer's       *)
(* routes, then frr::gather (src/console/src/frr.rs).                      *)
(*                                                                         *)
(* A tick is up to five vty queries to three daemons and, on an FRR        *)
(* without the `vrf all` form, one more per VRF.  A daemon may die, hang,  *)
(* refuse a command or answer garbage between any two of them, and be back *)
(* for the next: what a query comes to is chosen when it is made.  Every   *)
(* failure blanks a section; what is left to tell "nothing to report" from *)
(* "did not answer" is the list of daemons, the list of errors, which is   *)
(* capped, and the error of the routes popup.                              *)
(***************************************************************************)
EXTENDS Health, Sequences, SequencesExt

CONSTANTS
    VrfOrder,       \* the VRF names in alphabetical order
    Unsafe,         \* those is_safe_vrf_name refuses
    MaxVrfs,        \* 30 in the code: no query per VRF when there are more
    MaxErrors,      \* 8 in the code: entries of query_errors
    None

Vrfs == ToSet(VrfOrder)
Daemons == {"zebra", "bgpd", "bfdd"}

\* The entries of query_errors: a daemon that could not be asked, its refusal
\* of a command - or of the one for a VRF -, and the two notes of the parsers.
Error ==
    {<<d, "failed">> : d \in Daemons}
        \cup {<<d, "refused", what>> :
                 d \in Daemons, what \in {"summary", "bgp", "bfd", "vrfAll"} \cup Vrfs}
        \cup {<<"routes", "name", v>> : v \in Vrfs} \cup {<<"bfdd", "drift">>}

ASSUME FrrStatusAssumption ==
    /\ VrfOrder \in Seq(STRING) /\ Unsafe \subseteq Vrfs
    /\ MaxVrfs \in Nat /\ MaxErrors \in Nat /\ MaxErrors >= 4
    /\ None \notin Error

VARIABLES
    active,     \* frr.service, read once at the start of the tick
    pc,         \* the query the gather thread is about to make
    status,     \* FrrStatus as gathered so far
    todo,       \* VRFs still to be queried, in VrfOrder
    popup,      \* the selected peer's routes, or None
    trips,      \* vty round trips of this tick
    said        \* the answers of the tick that leave a section blank and no
                \* error with them, <<section, outcome>>: for the properties

vars == <<active, pc, status, todo, popup, trips, said>>

Counts == {c \in [estab : 0 .. 2, total : {0, 2}] : c.estab <= c.total}
Nothing == [v \in {} |-> None]

Status ==
    [daemons : SUBSET Daemons, summary : BOOLEAN,
     vrfs : UNION {[vs -> Counts] : vs \in SUBSET Vrfs},
     bfd : [{"p1"} -> BOOLEAN] \cup {Nothing},
     routes : SUBSET Vrfs, errors : Seq(Error)]
PeerRoutesTable ==
    [direction : {"advertised", "received"}, postPolicy : BOOLEAN, prefixes : BOOLEAN,
     error : BOOLEAN]

EmptyStatus == [daemons |-> {}, summary |-> FALSE, vrfs |-> Nothing, bfd |-> Nothing,
                routes |-> {}, errors |-> <<>>]

\* failed: nobody accepts on the socket, no answer in time, or a closed
\* connection; refused: a nonzero status; garbled: not the JSON expected.
Outcomes == {"answered", "empty", "garbled", "refused", "failed"}
Sections == {"popup", "fallback", "summary", "bgp", "bfd"}

\* Mutant: a command the daemon rejects is taken as an empty answer.
RejectionIsEmpty(d, what, outcome) == IF outcome = "failed" THEN <<d, "failed">> ELSE None

\* QueryResult::error.  A rejection carries the daemon's own words, which
\* differ from command to command.
QueryError(d, what, outcome) ==
    CASE outcome = "failed"  -> <<d, "failed">>
      [] outcome = "refused" -> <<d, "refused", what>>
      [] OTHER               -> None

\* Mutant: the list has no limit.
AddAnyError(errors, error) ==
    IF error = None \/ error \in ToSet(errors) THEN errors ELSE Append(errors, error)

AddQueryError(errors, error) ==
    IF error = None \/ error \in ToSet(errors) \/ Len(errors) >= MaxErrors
    THEN errors ELSE Append(errors, error)

Errors(d, what, outcome) == AddQueryError(status.errors, QueryError(d, what, outcome))

Queried(section, outcome) ==
    /\ trips' = trips + 1
    /\ said' = said \cup ({section} \X ({outcome} \cap {"empty", "garbled"}))

(***************************************************************************)
(* peer_prefixes                                                           *)
(***************************************************************************)
\* snapshot::gather reads whether FRR is active; the selected peer's routes,
\* if a popup asks for any, come before the rest and whether it is or not.
Begin ==
    /\ pc = "idle"
    /\ active' \in BOOLEAN
    /\ pc' \in {"routes", "list"}
    /\ UNCHANGED <<status, todo, popup, trips, said>>

\* A successful answer without any text parses as an empty table.
Answer(direction, outcome) ==
    [direction |-> direction, postPolicy |-> FALSE, prefixes |-> outcome = "answered",
     error |-> outcome \notin {"answered", "empty"}]

PeerRoutes ==
    /\ pc = "routes"
    /\ \E direction \in {"advertised", "received"}, outcome \in Outcomes :
          /\ popup' = Answer(direction, outcome)
          /\ pc' = IF popup'.error /\ direction = "received" THEN "fallback" ELSE "list"
          /\ Queried("popup", outcome)
    /\ UNCHANGED <<active, status, todo>>

\* An AFI, VRF or address that is no single token is an error, not a query.
SkipRoutes ==
    /\ pc = "routes"
    /\ \E direction \in {"advertised", "received"} : popup' = Answer(direction, "refused")
    /\ pc' = "list"
    /\ UNCHANGED <<active, status, todo, trips, said>>

\* received-routes needs inbound soft reconfiguration: the table after the
\* import filters stands in, if it can be had; otherwise the error stays.
FallbackRoutes ==
    /\ pc = "fallback"
    /\ \E outcome \in Outcomes :
          /\ popup' = IF Answer("received", outcome).error THEN popup
                      ELSE [Answer("received", outcome) EXCEPT !.postPolicy = TRUE]
          /\ Queried("fallback", outcome)
    /\ pc' = "list"
    /\ UNCHANGED <<active, status, todo>>

(***************************************************************************)
(* frr::gather                                                             *)
(***************************************************************************)
Inactive ==
    /\ pc = "list" /\ ~active
    /\ pc' = "done"
    /\ UNCHANGED <<active, status, todo, popup, trips, said>>

\* list_daemons: every vty socket that accepts a connection.
ListDaemons ==
    /\ pc = "list" /\ active
    /\ \E listed \in SUBSET Daemons : status' = [status EXCEPT !.daemons = listed]
    /\ pc' = "summary"
    /\ UNCHANGED <<active, todo, popup, trips, said>>

\* Asked whether or not zebra was listed.
RouteSummary ==
    /\ pc = "summary"
    /\ \E outcome \in Outcomes \ {"empty"} :
          /\ status' = [status EXCEPT !.summary = (outcome = "answered"),
                                      !.errors = Errors("zebra", "summary", outcome)]
          /\ Queried("summary", outcome)
    /\ pc' = "bgp"
    /\ UNCHANGED <<active, todo, popup>>

\* Garbage parses to no VRFs and leaves no error.  The sessions of the
\* VRFs matter to the verdict alone: all alike, they meet all its cases.
BgpSummary ==
    /\ pc = "bgp" /\ "bgpd" \in status.daemons
    /\ \E outcome \in Outcomes :
       \E vs \in IF outcome = "answered" THEN (SUBSET Vrfs) \ {{}} ELSE {{}} :
       \E count \in Counts :
          /\ status' = [status EXCEPT !.vrfs = [v \in vs |-> count], !.errors = Errors("bgpd", "bgp", outcome)]
          /\ Queried("bgp", outcome)
    /\ pc' = "bfd"
    /\ UNCHANGED <<active, todo, popup>>

BfdPeers ==
    /\ pc = "bfd" /\ "bfdd" \in status.daemons
    /\ \E outcome \in Outcomes :
       \E sessions \in IF outcome = "answered" THEN [{"p1"} -> BOOLEAN] ELSE {Nothing} :
          LET drift == IF outcome = "garbled" THEN <<"bfdd", "drift">> ELSE None
          IN  /\ status' = [status EXCEPT
                     !.bfd = sessions,
                     !.errors = AddQueryError(Errors("bfdd", "bfd", outcome), drift)]
              /\ Queried("bfd", outcome)
    /\ pc' = "vrfAll"
    /\ UNCHANGED <<active, todo, popup>>

AsksVrfs == "zebra" \in status.daemons /\ status.vrfs # Nothing

NotListed ==
    /\ \/ pc = "bgp" /\ "bgpd" \notin status.daemons /\ pc' = "bfd"
       \/ pc = "bfd" /\ "bfdd" \notin status.daemons /\ pc' = "vrfAll"
       \/ pc = "vrfAll" /\ ~AsksVrfs /\ pc' = "done"
    /\ UNCHANGED <<active, status, todo, popup, trips, said>>

\* gather_vrf_routes: one query for all.  Its parser skips what carries no
\* counts, so an answer may cover any of the VRFs with BGP - even none, when
\* only others have counts -, and whatever it covers ends the matter.  When it
\* yields nothing - an FRR without the form refuses it, which is an error like
\* any other - one query for each VRF follows, unless there are too many.
AllAsked(outcome, got) ==
    LET each == outcome # "answered" /\ Cardinality(DOMAIN status.vrfs) <= MaxVrfs
        omitted == IF outcome = "answered" THEN DOMAIN status.vrfs \ got ELSE {}
    IN  /\ status' = [status EXCEPT !.routes = got,
                                    !.errors = Errors("zebra", "vrfAll", outcome)]
        /\ todo' = IF each THEN DOMAIN status.vrfs ELSE {}
        /\ trips' = trips + 1
        /\ said' = said \cup omitted \X {"omitted"}

VrfAll ==
    /\ pc = "vrfAll" /\ AsksVrfs
    /\ \E outcome \in Outcomes :
       \E got \in IF outcome = "answered" THEN SUBSET DOMAIN status.vrfs ELSE {{}} :
          AllAsked(outcome, got)
    /\ pc' = IF todo' = {} THEN "done" ELSE "vrf"
    /\ UNCHANGED <<active, popup>>

\* The first of the VRFs still to be queried.
this ==
    VrfOrder[CHOOSE i \in 1 .. Len(VrfOrder) :
                /\ VrfOrder[i] \in todo
                /\ \A j \in 1 .. i - 1 : VrfOrder[j] \notin todo]

NextVrf ==
    /\ pc = "vrf"
    /\ todo' = todo \ {this}
    /\ pc' = IF todo' = {} THEN "done" ELSE "vrf"
    /\ UNCHANGED <<active, popup>>

SkipVrf ==
    /\ NextVrf /\ this \in Unsafe
    /\ status' = [status EXCEPT !.errors = AddQueryError(@, <<"routes", "name", this>>)]
    /\ UNCHANGED <<trips, said>>

VrfSummary ==
    /\ NextVrf /\ this \notin Unsafe
    /\ \E outcome \in Outcomes \ {"empty"} :
          /\ status' = [status EXCEPT
                 !.routes = IF outcome = "answered" THEN @ \cup {this} ELSE @,
                 !.errors = Errors("zebra", this, outcome)]
          /\ Queried(this, outcome)

Finish ==
    /\ pc = "done"
    /\ pc' = "idle" /\ status' = EmptyStatus
    /\ popup' = None /\ trips' = 0 /\ said' = {}
    /\ UNCHANGED <<active, todo>>

Init ==
    /\ active \in BOOLEAN
    /\ pc = "idle" /\ status = EmptyStatus /\ todo = {}
    /\ popup = None /\ trips = 0 /\ said = {}

Next ==
    \/ Begin \/ PeerRoutes \/ SkipRoutes \/ FallbackRoutes
    \/ Inactive \/ ListDaemons \/ RouteSummary \/ BgpSummary \/ BfdPeers
    \/ NotListed \/ VrfAll \/ SkipVrf \/ VrfSummary \/ Finish

Spec == Init /\ [][Next]_vars

(***************************************************************************)
(* Properties                                                              *)
(***************************************************************************)
\* Types; a tick never makes more round trips than the two of the popup,
\* four, and one per VRF up to the limit: 150 tenants cannot turn it into
\* 150 queries (frr.rs:595-599).
TypeOK ==
    /\ active \in BOOLEAN
    /\ pc \in {"idle", "routes", "fallback", "list", "summary", "bgp", "bfd", "vrfAll", "vrf", "done"}
    /\ status \in Status
    /\ status.routes \subseteq DOMAIN status.vrfs /\ todo \subseteq DOMAIN status.vrfs
    /\ Len(status.errors) <= MaxErrors
    /\ popup \in PeerRoutesTable \cup {None}
    /\ said \subseteq (Sections \cup Vrfs) \X {"empty", "garbled", "omitted"}
    /\ trips \in 0 .. 6 + MaxVrfs

\* "Blank because nothing to report" can be told from "blank because the
\* socket did not answer" (frr.rs:57-63).  A section is blank only if its
\* daemon said so, or is missing from the list of daemons, or has an error
\* in query_errors: the limit of that list drops no error of these.  The
\* rows of the VRFs come last: a missing count has an error unless the list
\* is full or there are too many VRFs to ask.  Where the code keeps no error
\* - of garbage in every section but BFD, and of a VRF that the one answer
\* for all omits (frr.rs:615-618, 680-688) - this says so.
Explained(d, what) ==
    d \notin status.daemons
        \/ {<<d, "failed">>, <<d, "refused", what>>, <<d, "drift">>} \cap ToSet(status.errors) # {}
Said(section, answers) == \E a \in answers : <<section, a>> \in said

EmptinessIsReal ==
    pc = "done" =>
        /\ active =>
              /\ status.summary \/ Said("summary", {"garbled"}) \/ Explained("zebra", "summary")
              /\ status.vrfs # Nothing \/ Said("bgp", {"empty", "garbled"}) \/ Explained("bgpd", "bgp")
              /\ status.bfd # Nothing \/ Said("bfd", {"empty"}) \/ Explained("bfdd", "bfd")
        /\ \A v \in DOMAIN status.vrfs \ status.routes :
              \/ Said(v, {"garbled", "omitted"}) \/ Explained("zebra", v)
              \/ <<"routes", "name", v>> \in ToSet(status.errors)
              \/ Len(status.errors) = MaxErrors
              \/ Cardinality(DOMAIN status.vrfs) > MaxVrfs
        /\ popup # None /\ ~popup.error /\ ~popup.prefixes =>
              Said(IF popup.postPolicy THEN "fallback" ELSE "popup", {"empty"})

\* The badge, the exit code and the panels tell the same story of every
\* snapshot a tick can end in, whatever the rest of the system is like.
\* (A popup is no part of it: ticks without one are all there is to check.)
PanelsAgree ==
    pc = "done" /\ popup = None =>
        \A unit \in {"Ok", "TimerNotActive", "Failed"}, staged \in BOOLEAN :
        \A memory, disk \in {Unknown, 69, 70, 80, 89, 90} :
            PanelsAgreeOn([active |-> active, vrfs |-> status.vrfs, bfd |-> status.bfd,
                           units |-> [u \in {"sync"} |-> unit], staged |-> staged,
                           memory |-> memory, disk |-> disk])
=============================================================================
