------------------------------ MODULE VtyClient ------------------------------
(***************************************************************************)
(* One command over a daemon's vty socket (src/frr-vty/src/lib.rs).  The   *)
(* answer is text, three zero bytes and a status byte; it comes in reads   *)
(* of any size, and each read is scanned for the end of the answer from a  *)
(* little before the previous end, never from the start.  The daemon may   *)
(* stop, hang, or talk without end at any byte.                            *)
(***************************************************************************)
EXTENDS Integers

CONSTANTS
    Streams,    \* what a daemon may send: functions from 0 .. n-1 to bytes
    MaxRead,    \* 4096 in the code: the size of `chunk`
    MaxResponse \* MAX_RESPONSE_BYTES

ASSUME VtyClientAssumption ==
    /\ MaxRead \in Nat \ {0} /\ MaxResponse \in Nat
    /\ \A s \in Streams : \A i \in DOMAIN s : i \in Nat /\ s[i] \in Nat

VARIABLES
    stream,         \* what this daemon sends unless something stops it
    pc,
    got,            \* buf.len(): buf is the first got bytes of stream
    scanned_until,
    answer          \* where the text ends and the status byte, once answered

vars == <<stream, pc, got, scanned_until, answer>>

\* Three zeros start at i.
ZerosAt(i) == {i, i + 1, i + 2} \subseteq DOMAIN stream
                /\ stream[i] = 0 /\ stream[i + 1] = 0 /\ stream[i + 2] = 0

\* ... and the byte after them has been read.
Complete(i) == ZerosAt(i) /\ i + 3 < got

\* Mutant: the resume forgets that the status byte may be what is missing.
ResumeLate(len) == IF len > 2 THEN len - 2 ELSE 0

\* buf.len().saturating_sub(3)
Resume(len) == IF len > 3 THEN len - 3 ELSE 0

Connect ==
    /\ pc = "connect"
    /\ pc' \in {"scan", "failed"}
    /\ UNCHANGED <<stream, got, scanned_until, answer>>

\* find_terminator: the first three zeros in buf[scanned_until..], if their
\* status byte is there too.
Answer ==
    /\ pc = "scan"
    /\ \E i \in scanned_until .. got :
          /\ Complete(i) /\ \A j \in scanned_until .. i - 1 : ~ZerosAt(j)
          /\ answer' = [len |-> i, status |-> stream[i + 3]]
    /\ pc' = "answered"
    /\ UNCHANGED <<stream, got, scanned_until>>

NotYet ==
    /\ pc = "scan"
    /\ \A i \in scanned_until .. got : ~Complete(i)
    /\ pc' = "read"
    /\ UNCHANGED <<stream, got, scanned_until, answer>>

\* Mutant: the buffer grows without a limit.
ReadUnlimited ==
    /\ pc = "read"
    /\ \E n \in 1 .. MaxRead :
          /\ \A i \in got .. got + n - 1 : i \in DOMAIN stream
          /\ got' = got + n
    /\ scanned_until' = Resume(got)
    /\ pc' = "scan"
    /\ UNCHANGED <<stream, answer>>

\* Longer than the limit is refused before it is looked at.
Read ==
    /\ pc = "read"
    /\ \E n \in 1 .. MaxRead :
          /\ \A i \in got .. got + n - 1 : i \in DOMAIN stream
          /\ got' = got + n
    /\ scanned_until' = Resume(got)
    /\ pc' = IF got' > MaxResponse THEN "tooLong" ELSE "scan"
    /\ UNCHANGED <<stream, answer>>

\* The daemon closes the connection, or sends nothing for SOCKET_TIMEOUT.
NoMore ==
    /\ pc = "read"
    /\ pc' \in {"eof", "timeout"}
    /\ UNCHANGED <<stream, got, scanned_until, answer>>

Init ==
    /\ stream \in Streams
    /\ pc = "connect" /\ got = 0 /\ scanned_until = 0
    /\ answer = [len |-> 0, status |-> 0]

Next == Connect \/ Answer \/ NotYet \/ Read \/ NoMore

Spec == Init /\ [][Next]_vars

-----------------------------------------------------------------------------
\* Types; the buffer ends within one read of the limit (lib.rs:22-29).
TypeOK ==
    /\ stream \in Streams
    /\ pc \in {"connect", "failed", "scan", "read", "answered", "tooLong", "eof", "timeout"}
    /\ got \in Nat /\ \A i \in 0 .. got - 1 : i \in DOMAIN stream
    /\ got <= (IF pc = "tooLong" THEN MaxResponse + MaxRead ELSE MaxResponse)
    /\ scanned_until \in Nat /\ scanned_until <= got
    /\ answer \in [len : Nat, status : Nat]

\* However the reads split it, the answer ends at the first three zeros the
\* daemon sent and its status is the byte after them; the client never
\* waits, times out or fails for an answer it already has, and refuses only
\* one that ends within a read of the limit or later.
FirstAnswer ==
    /\ pc = "answered" =>
          /\ ZerosAt(answer.len) /\ answer.status = stream[answer.len + 3]
          /\ \A i \in 0 .. answer.len - 1 : ~ZerosAt(i)
    /\ pc \in {"read", "eof", "timeout"} => \A i \in 0 .. got : ~Complete(i)
    /\ pc = "tooLong" => \A i \in 0 .. got : Complete(i) => i + 3 + MaxRead > MaxResponse
=============================================================================
