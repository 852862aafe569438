-------------------------- MODULE VtyClient_proofs --------------------------
(***************************************************************************)
(* Proofs about VtyClient for every stream, read size and limit.           *)
(***************************************************************************)
EXTENDS VtyClient, TLAPS

\* What the resumed scan rests on: nothing it skips starts a terminator.
\* Once there are bytes to scan, the skipped ones have all been scanned
\* with the byte three after them.
Skipped == pc \in {"connect", "scan"} => \A i \in 0 .. scanned_until - 1 : ~ZerosAt(i)

IInv == TypeOK /\ Skipped /\ FirstAnswer

-----------------------------------------------------------------------------
LEMMA InitIInv == Init => IInv
  <1> SUFFICES ASSUME Init PROVE IInv
    OBVIOUS
  <1> USE VtyClientAssumption DEF Init
  <1>1. TypeOK
    BY DEF TypeOK
  <1>2. Skipped /\ FirstAnswer
    BY DEF Skipped, FirstAnswer
  <1> QED
    BY <1>1, <1>2 DEF IInv

\* The bytes of a stream are numbers.
LEMMA StreamBytes ==
    ASSUME TypeOK, NEW i \in DOMAIN stream
    PROVE  stream[i] \in Nat
  BY VtyClientAssumption DEF TypeOK

LEMMA NextTypeOK == TypeOK /\ [Next]_vars => TypeOK'
  <1> SUFFICES ASSUME TypeOK, [Next]_vars PROVE TypeOK'
    OBVIOUS
  <1> USE VtyClientAssumption DEF TypeOK
  <1>1. CASE Connect
    BY <1>1 DEF Connect
  <1>2. CASE Answer
    <2>1. PICK i \in scanned_until .. got :
              Complete(i) /\ answer' = [len |-> i, status |-> stream[i + 3]]
      BY <1>2 DEF Answer
    <2>2. i \in Nat /\ i + 3 \in 0 .. got - 1
      BY <2>1 DEF Complete
    <2>3. stream[i + 3] \in Nat
      BY <2>2, StreamBytes
    <2>4. answer' \in [len : Nat, status : Nat]
      BY <2>1, <2>2, <2>3
    <2> QED
      BY <1>2, <2>4 DEF Answer
  <1>3. CASE NotYet
    BY <1>3 DEF NotYet
  <1>4. CASE Read
    <2>1. PICK n \in 1 .. MaxRead :
              /\ \A i \in got .. got + n - 1 : i \in DOMAIN stream
              /\ got' = got + n
      BY <1>4 DEF Read
    <2>2. got' \in Nat /\ \A i \in 0 .. got' - 1 : i \in DOMAIN stream
      BY <2>1
    <2>3. got' <= MaxResponse + MaxRead
      BY <1>4, <2>1 DEF Read
    <2>4. scanned_until' \in Nat /\ scanned_until' <= got'
      BY <1>4, <2>1 DEF Read, Resume
    <2> QED
      BY <1>4, <2>2, <2>3, <2>4 DEF Read
  <1>5. CASE NoMore
    BY <1>5 DEF NoMore
  <1>6. CASE UNCHANGED vars
    BY <1>6 DEF vars
  <1> QED
    BY <1>1, <1>2, <1>3, <1>4, <1>5, <1>6 DEF Next

LEMMA NextSkipped == IInv /\ [Next]_vars => Skipped'
  <1> SUFFICES ASSUME IInv, [Next]_vars, pc' \in {"connect", "scan"},
                      NEW i \in 0 .. scanned_until' - 1
               PROVE  ~ZerosAt(i)'
    BY DEF Skipped
  <1> USE DEF IInv, TypeOK
  <1>1. CASE Connect
    BY <1>1 DEF Connect, Skipped, ZerosAt
  <1>2. CASE Answer
    BY <1>2 DEF Answer
  <1>3. CASE NotYet
    BY <1>3 DEF NotYet
  <1>4. CASE Read
    <2>1. i \in 0 .. got /\ i + 3 < got
      BY <1>4 DEF Read, Resume
    <2>2. ~Complete(i)
      BY <1>4, <2>1 DEF Read, FirstAnswer
    <2> QED
      BY <1>4, <2>1, <2>2 DEF Read, Complete, ZerosAt
  <1>5. CASE NoMore
    BY <1>5 DEF NoMore
  <1>6. CASE UNCHANGED vars
    BY <1>6 DEF vars, Skipped, ZerosAt
  <1> QED
    BY <1>1, <1>2, <1>3, <1>4, <1>5, <1>6 DEF Next

LEMMA NextFirstAnswer == IInv /\ [Next]_vars => FirstAnswer'
  <1> SUFFICES ASSUME IInv, [Next]_vars PROVE FirstAnswer'
    OBVIOUS
  <1> USE DEF IInv
  <1>1. CASE Connect
    BY <1>1 DEF Connect, FirstAnswer
  <1>2. CASE Answer
    <2>1. PICK i \in scanned_until .. got :
              /\ Complete(i) /\ \A j \in scanned_until .. i - 1 : ~ZerosAt(j)
              /\ answer' = [len |-> i, status |-> stream[i + 3]]
      BY <1>2 DEF Answer
    <2>2. \A j \in 0 .. i - 1 : ~ZerosAt(j)
      BY <1>2, <2>1 DEF Answer, Skipped, TypeOK
    <2>3. answer'.len = i /\ answer'.status = stream[i + 3]
      BY <2>1
    <2>4. stream' = stream /\ pc' = "answered"
      BY <1>2 DEF Answer
    <2>5. \A j : ZerosAt(j)' <=> ZerosAt(j)
      BY <2>4 DEF ZerosAt
    <2>6. ZerosAt(i)
      BY <2>1 DEF Complete
    <2> QED
      BY <2>2, <2>3, <2>4, <2>5, <2>6 DEF FirstAnswer
  <1>3. CASE NotYet
    <2>1. \A i \in 0 .. got : ~Complete(i)
      BY <1>3 DEF NotYet, Skipped, Complete, TypeOK
    <2> QED
      BY <1>3, <2>1 DEF NotYet, FirstAnswer, Complete, ZerosAt
  <1>4. CASE Read
    <2>1. PICK n \in 1 .. MaxRead : got' = got + n
      BY <1>4 DEF Read
    <2>2. ASSUME pc' = "tooLong", NEW i \in 0 .. got', Complete(i)'
          PROVE  i + 3 + MaxRead > MaxResponse
      <3>1. got + n > MaxResponse /\ stream' = stream /\ pc = "read"
        BY <1>4, <2>1, <2>2 DEF Read
      <3>2. CASE i + 3 >= got
        BY <2>1, <3>1, <3>2, VtyClientAssumption DEF TypeOK
      <3>3. CASE i + 3 < got
        <4>1. Complete(i)
          BY <2>2, <3>1, <3>3 DEF Complete, ZerosAt
        <4> QED
          BY <3>1, <3>3, <4>1 DEF FirstAnswer, TypeOK
      <3> QED
        BY <3>2, <3>3, VtyClientAssumption DEF TypeOK
    <2> QED
      BY <1>4, <2>2 DEF Read, FirstAnswer
  <1>5. CASE NoMore
    BY <1>5 DEF NoMore, FirstAnswer, Complete, ZerosAt
  <1>6. CASE UNCHANGED vars
    BY <1>6 DEF vars, FirstAnswer, Complete, ZerosAt
  <1> QED
    BY <1>1, <1>2, <1>3, <1>4, <1>5, <1>6 DEF Next

LEMMA SpecIInv == Spec => []IInv
  <1>1. IInv /\ [Next]_vars => IInv'
    BY NextTypeOK, NextSkipped, NextFirstAnswer DEF IInv
  <1> QED
    BY InitIInv, <1>1, PTL DEF Spec

-----------------------------------------------------------------------------
\* Types; the buffer ends within one read of the limit, whatever the daemon
\* sends (execute, MAX_RESPONSE_BYTES).
THEOREM TypeCorrect == Spec => []TypeOK
  <1>1. IInv => TypeOK
    BY DEF IInv
  <1> QED
    BY SpecIInv, <1>1, PTL

\* The scan that resumes three bytes back finds what a scan of the whole
\* answer would, for every way to split it into reads (execute,
\* find_terminator).
THEOREM AnswerIsFirst == Spec => []FirstAnswer
  <1>1. IInv => FirstAnswer
    BY DEF IInv
  <1> QED
    BY SpecIInv, <1>1, PTL
=============================================================================
