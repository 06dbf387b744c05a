------------------------ MODULE CircuitBreakerProofs ------------------------
(***************************************************************************)
(* Proofs about CircuitBreaker, for any number of callers and any limits.  *)
(***************************************************************************)
EXTENDS CircuitBreaker, TLAPS

Inv == TypeOK /\ ReadIsFresh /\ ClosedBelowLimit

LEMMA InvInit == Init => Inv
<1> SUFFICES ASSUME Init PROVE Inv
  OBVIOUS
<1>1. TypeOK
  BY DEF Init, TypeOK, Breaker, State, Pc
<1>2. ReadIsFresh
  BY DEF Init, ReadIsFresh, Opening, Counting
<1>3. ClosedBelowLimit
  BY LimitAssumption DEF Init, ClosedBelowLimit
<1>4. QED
  BY <1>1, <1>2, <1>3 DEF Inv

\* A caller that moves to p while the breaker keeps its state and failures.
LEMMA MoveCaller ==
  ASSUME Inv, NEW c \in Callers, NEW p \in Pc, pc' = [pc EXCEPT ![c] = p],
         breaker'.state = breaker.state, breaker'.failures = breaker.failures,
         p \in Opening => breaker.state \in {"open", "torn", "half-open"},
         p \in Counting \cup {"resetting"} => breaker.state = "half-open"
  PROVE  pc' \in [Callers -> Pc] /\ ReadIsFresh' /\ ClosedBelowLimit'
<1>1. pc' \in [Callers -> Pc] /\ pc'[c] = p /\ \A d \in Callers \ {c} : pc'[d] = pc[d]
  BY DEF Inv, TypeOK
<1>2. ReadIsFresh'
  BY <1>1 DEF Inv, ReadIsFresh
<1>3. ClosedBelowLimit'
  BY DEF Inv, ClosedBelowLimit
<1>4. QED
  BY <1>1, <1>2, <1>3

\* A caller that leaves isCircuitOpen, or was not there, while the state may
\* change as isCircuitOpen changes it.
LEMMA InvAdmission ==
  ASSUME Inv, NEW c \in Callers, Admission(c)
  PROVE  Inv'
<1>0. TypeOK /\ ReadIsFresh /\ ClosedBelowLimit /\ pc \in [Callers -> Pc]
      /\ breaker \in Breaker /\ copy \in [Callers -> Nat]
  BY DEF Inv, TypeOK
<1>1. CASE WriteFirstWord(c)
  <2>1. breaker.state \in {"open", "torn", "half-open"} /\ pc[c] = "opening"
    BY <1>0, <1>1 DEF WriteFirstWord, ReadIsFresh, Opening
  <2>2. /\ pc' = [pc EXCEPT ![c] = "naming"] /\ cooled' = cooled /\ copy' = copy
        /\ breaker' = [breaker EXCEPT !.state = IF breaker.state = "open" THEN "torn"
                                                ELSE breaker.state]
    BY <1>1 DEF WriteFirstWord
  <2>3. breaker'.state = (IF breaker.state = "open" THEN "torn" ELSE breaker.state)
        /\ breaker' \in Breaker
    BY <1>0, <2>2 DEF Breaker, State
  <2>4. pc' \in [Callers -> Pc] /\ pc'[c] = "naming"
        /\ \A d \in Callers \ {c} : pc'[d] = pc[d]
    BY <1>0, <2>2 DEF Pc, Opening
  <2>5. ReadIsFresh'
    BY <1>0, <2>1, <2>3, <2>4 DEF ReadIsFresh, Counting, Opening
  <2>6. ClosedBelowLimit'
    BY <2>1, <2>3 DEF ClosedBelowLimit
  <2>7. QED
    BY <1>0, <2>2, <2>3, <2>4, <2>5, <2>6 DEF Inv, TypeOK
<1>2. CASE WriteSecondWord(c)
  <2>1. /\ pc' = [pc EXCEPT ![c] = "resetting"] /\ cooled' = cooled /\ copy' = copy
        /\ breaker' = [breaker EXCEPT !.state = "half-open"]
    BY <1>2 DEF WriteSecondWord
  <2>2. breaker'.state = "half-open" /\ breaker' \in Breaker
    BY <1>0, <2>1 DEF Breaker, State
  <2>3. pc' \in [Callers -> Pc]
    BY <1>0, <2>1 DEF Pc, Opening
  <2>4. ReadIsFresh' /\ ClosedBelowLimit'
    BY <2>2 DEF ReadIsFresh, ClosedBelowLimit
  <2>5. QED
    BY <1>0, <2>1, <2>2, <2>3, <2>4 DEF Inv, TypeOK
<1>3. CASE ResetCalls(c)
  <2>1. /\ pc' = [pc EXCEPT ![c] = "trial"] /\ cooled' = cooled /\ copy' = copy
        /\ breaker' = [breaker EXCEPT !.halfOpenCalls = 0]
    BY <1>3 DEF ResetCalls
  <2>2. /\ breaker'.state = breaker.state /\ breaker'.failures = breaker.failures
        /\ breaker' \in Breaker
    BY <1>0, <2>1 DEF Breaker
  <2>3. pc' \in [Callers -> Pc] /\ ReadIsFresh' /\ ClosedBelowLimit'
    BY <2>1, <2>2, MoveCaller DEF Pc, InFlight, Opening, Counting
  <2>4. QED
    BY <1>0, <2>1, <2>2, <2>3 DEF Inv, TypeOK
<1>4. CASE TestCalls(c)
  <2> DEFINE p == IF breaker.halfOpenCalls >= TrialLimit THEN "idle" ELSE "incrementing"
  <2>1. /\ pc' = [pc EXCEPT ![c] = p] /\ cooled' = cooled /\ copy' = copy
        /\ breaker' = breaker /\ pc[c] = "counting"
    BY <1>4 DEF TestCalls
  <2>2. p \in {"idle", "incrementing"} /\ breaker.state = "half-open"
    BY <1>0, <2>1 DEF ReadIsFresh, Counting
  <2> HIDE DEF p
  <2>3. pc' \in [Callers -> Pc] /\ ReadIsFresh' /\ ClosedBelowLimit'
    BY <2>1, <2>2, MoveCaller DEF Pc, Counting
  <2>4. QED
    BY <1>0, <2>1, <2>3 DEF Inv, TypeOK
<1>5. CASE LoadCalls(c)
  <2>1. /\ pc' = [pc EXCEPT ![c] = "storing"] /\ cooled' = cooled
        /\ copy' = [copy EXCEPT ![c] = breaker.halfOpenCalls]
        /\ breaker' = breaker /\ pc[c] = "incrementing"
    BY <1>5 DEF LoadCalls
  <2>2. breaker.state = "half-open" /\ breaker.halfOpenCalls \in Nat
    BY <1>0, <2>1 DEF ReadIsFresh, Counting, Breaker
  <2>3. pc' \in [Callers -> Pc] /\ ReadIsFresh' /\ ClosedBelowLimit'
    BY <2>1, <2>2, MoveCaller DEF Pc, Counting
  <2>4. QED
    BY <1>0, <2>1, <2>2, <2>3 DEF Inv, TypeOK
<1>6. CASE StoreCalls(c)
  <2>1. /\ pc' = [pc EXCEPT ![c] = "trial"] /\ cooled' = cooled
        /\ copy' = [copy EXCEPT ![c] = 0]
        /\ breaker' = [breaker EXCEPT !.halfOpenCalls = copy[c] + 1]
    BY <1>6 DEF StoreCalls
  <2>2. /\ breaker'.state = breaker.state /\ breaker'.failures = breaker.failures
        /\ breaker' \in Breaker
    BY <1>0, <2>1 DEF Breaker
  <2>3. pc' \in [Callers -> Pc] /\ ReadIsFresh' /\ ClosedBelowLimit'
    BY <2>1, <2>2, MoveCaller DEF Pc, InFlight, Opening, Counting
  <2>4. QED
    BY <1>0, <2>1, <2>2, <2>3 DEF Inv, TypeOK
<1>7. QED
  BY <1>1, <1>2, <1>3, <1>4, <1>5, <1>6 DEF Admission

\* An answer is recorded while nobody is inside isCircuitOpen, so whatever it
\* does to the state no reader acts on the old one.
LEMMA InvAnswer ==
  ASSUME Inv, NEW c \in Callers, Answer(c)
  PROVE  Inv'
<1>0. TypeOK /\ ClosedBelowLimit /\ pc \in [Callers -> Pc] /\ breaker \in Breaker
      /\ breaker.failures \in Nat /\ breaker.successes \in Nat
      /\ breaker.halfOpenCalls \in Nat /\ breaker.state \in State
  BY DEF Inv, TypeOK, Breaker
<1>1. /\ Readers = {} /\ pc' = [pc EXCEPT ![c] = "idle"] /\ copy' = copy
  BY DEF Answer, RecordFailure, RecordSuccess
<1>2. \A d \in Callers : pc'[d] \notin Opening \cup Counting
  BY <1>0, <1>1 DEF Readers, Opening, Counting
<1>3. pc' \in [Callers -> Pc]
  BY <1>0, <1>1 DEF Pc
<1>4. ReadIsFresh'
  BY <1>2 DEF ReadIsFresh, Opening
<1>5. breaker' \in Breaker /\ cooled' \in BOOLEAN /\ ClosedBelowLimit'
  <2>1. CASE RecordFailure(c)
    <3> DEFINE n == breaker.failures + 1
               st == CASE n >= FailureLimit -> "open"
                       [] n < FailureLimit /\ breaker.state = "absent" -> ""
                       [] OTHER -> breaker.state
    <3>1. breaker' = [breaker EXCEPT !.failures = n, !.successes = 0, !.state = st]
          /\ cooled' = FALSE
      BY <2>1 DEF RecordFailure
    <3>2. n \in Nat
      BY <1>0
    <3>3. st \in State /\ (st \in {"absent", "", "closed"} => n < FailureLimit)
      <4>1. FailureLimit \in Nat
        BY LimitAssumption
      <4>2. n >= FailureLimit \/ n < FailureLimit
        BY <3>2, <4>1
      <4>3. n >= FailureLimit => ~(n < FailureLimit)
        BY <3>2, <4>1
      <4> HIDE DEF n
      <4>4. n >= FailureLimit => st = "open"
        BY <4>3
      <4>5. (~(n >= FailureLimit) /\ breaker.state = "absent") => st = ""
        BY <4>2
      <4>6. (~(n >= FailureLimit) /\ breaker.state # "absent") => st = breaker.state
        BY <4>2
      <4> HIDE DEF st
      <4>7. st \in {"open", "", breaker.state}
        BY <4>4, <4>5, <4>6
      <4>8. QED
        BY <1>0, <4>2, <4>4, <4>7 DEF State
    <3> HIDE DEF n, st
    <3>4. breaker' \in Breaker /\ breaker'.state = st /\ breaker'.failures = n
      BY <1>0, <3>1, <3>2, <3>3 DEF Breaker
    <3>5. QED
      BY <3>1, <3>3, <3>4 DEF ClosedBelowLimit
  <2>2. CASE RecordSuccess(c) /\ breaker.state = "absent"
    BY <1>0, <2>2 DEF RecordSuccess, ClosedBelowLimit, TypeOK
  <2>3. CASE RecordSuccess(c) /\ breaker.state # "absent"
    <3> DEFINE closes == breaker.state = "half-open" /\ breaker.successes + 1 >= SuccessLimit
               st == IF closes THEN "closed" ELSE breaker.state
               calls == IF closes THEN 0 ELSE breaker.halfOpenCalls
    <3>1. breaker' = [breaker EXCEPT !.failures = 0, !.successes = breaker.successes + 1,
                                     !.state = st, !.halfOpenCalls = calls]
          /\ cooled' = cooled
      BY <2>3 DEF RecordSuccess
    <3>2. st \in State /\ calls \in Nat
      BY <1>0 DEF State
    <3> HIDE DEF st, calls
    <3>3. breaker' \in Breaker /\ breaker'.failures = 0
      <4>1. breaker.successes + 1 \in Nat
        BY <1>0
      <4>2. breaker' = [state |-> st, failures |-> 0, successes |-> breaker.successes + 1,
                        halfOpenCalls |-> calls]
        BY <1>0, <3>1 DEF Breaker
      <4>3. QED
        BY <3>2, <4>1, <4>2 DEF Breaker
    <3>4. 0 < FailureLimit
      BY LimitAssumption
    <3>5. QED
      BY <1>0, <3>1, <3>3, <3>4 DEF ClosedBelowLimit, TypeOK
  <2>4. QED
    BY <2>1, <2>2, <2>3 DEF Answer
<1>6. QED
  BY <1>0, <1>1, <1>3, <1>4, <1>5 DEF Inv, TypeOK

LEMMA InvNext == Inv /\ [Next]_vars => Inv'
<1> SUFFICES ASSUME Inv, [Next]_vars PROVE Inv'
  OBVIOUS
<1>0. TypeOK
  BY DEF Inv
<1>1. ASSUME NEW c \in Callers, ReadState(c) PROVE Inv'
  <2> DEFINE p == CASE breaker.state = "open" /\ cooled -> "opening"
                    [] breaker.state = "open" /\ ~cooled -> "idle"
                    [] breaker.state = "half-open" -> "counting"
                    [] OTHER -> "upstream"
  <2>1. /\ pc' = [pc EXCEPT ![c] = p]
        /\ breaker' = breaker /\ cooled' = cooled /\ copy' = copy
    BY <1>1 DEF ReadState
  <2>2. /\ p \in Pc
        /\ p \in Opening => breaker.state \in {"open", "torn", "half-open"}
        /\ p \in Counting \cup {"resetting"} => breaker.state = "half-open"
    BY DEF Pc, Opening, Counting, InFlight
  <2> HIDE DEF p
  <2>3. pc' \in [Callers -> Pc] /\ ReadIsFresh' /\ ClosedBelowLimit'
    BY <2>1, <2>2, MoveCaller
  <2>4. QED
    BY <1>0, <2>1, <2>3 DEF Inv, TypeOK
<1>2. ASSUME NEW c \in Callers, Unsupported(c) PROVE Inv'
  <2>1. pc' = [pc EXCEPT ![c] = "idle"] /\ breaker' = breaker /\ cooled' = cooled
        /\ copy' = copy
    BY <1>2 DEF Unsupported
  <2>2. pc' \in [Callers -> Pc] /\ ReadIsFresh' /\ ClosedBelowLimit'
    BY <2>1, MoveCaller DEF Pc, Opening, Counting
  <2>3. QED
    BY <1>0, <2>1, <2>2 DEF Inv, TypeOK
<1>3. CASE CoolDown
  BY <1>3 DEF CoolDown, Inv, TypeOK, ReadIsFresh, ClosedBelowLimit
<1>4. CASE UNCHANGED vars
  BY <1>4 DEF vars, Inv, TypeOK, ReadIsFresh, ClosedBelowLimit
<1>5. QED
  BY <1>1, <1>2, <1>3, <1>4, InvAdmission, InvAnswer DEF Next

LEMMA Invariance == Spec => []Inv
BY InvInit, InvNext, PTL DEF Spec

\* However many callers are inside isCircuitOpen at once, with only the read
\* lock, none acts on a state that an answer has replaced since it read it.
THEOREM ReadStaysFresh == Spec => []ReadIsFresh
<1>1. Inv => ReadIsFresh
  BY DEF Inv
<1>2. QED
  BY <1>1, Invariance, PTL

\* A breaker that lets everything through is below its limit of failures.
THEOREM ClosedIsBelowLimit == Spec => []ClosedBelowLimit
<1>1. Inv => ClosedBelowLimit
  BY DEF Inv
<1>2. QED
  BY <1>1, Invariance, PTL

\* Every variable of the breaker keeps its type.
THEOREM TypeCorrect == Spec => []TypeOK
<1>1. Inv => TypeOK
  BY DEF Inv
<1>2. QED
  BY <1>1, Invariance, PTL

=============================================================================
